SPECIFICATION Spec
CONSTANTS
  Threads = {t1}
  Fds = {d1, d2}
  CountMod = 8
  MaxFailures = 2
  NoThread = NoThread
  NoFd = NoFd
  t1 = t1
  d1 = d1
  d2 = d2
  Ops = {"open", "create", "stat", "setattr", "unlink", "rename", "read", "write", "release"}
INVARIANT TypeOK
INVARIANT CountExact
INVARIANT HandlesValid
PROPERTY OnlyUnlinkErases
