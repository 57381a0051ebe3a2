SPECIFICATION FairSpec
CONSTANTS
  Threads = {t1, t2}
  Fds = {d1, d2}
  CountMod = 6
  MaxFailures = 1
  NoThread = NoThread
  NoFd = NoFd
  t1 = t1
  t2 = t2
  d1 = d1
  d2 = d2
  Ops = {"create", "setattr", "unlink", "rename", "read", "write"}
INVARIANT CountExact
PROPERTY HandlersReturn
