SPECIFICATION Spec
CONSTANTS
  Threads = {t1, t2}
  Fds = {d1, d2}
  CountMod = 8
  MaxFailures = 0
  NoThread = NoThread
  NoFd = NoFd
  t1 = t1
  t2 = t2
  d1 = d1
  d2 = d2
  Ops = {"open", "stat", "release"}
SYMMETRY Symmetry
INVARIANT HandleStaysValid
