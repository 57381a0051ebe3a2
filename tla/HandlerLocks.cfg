SPECIFICATION Spec
CONSTANTS
  Threads = {t1, t2, t3}
  t1 = t1
  t2 = t2
  t3 = t3
  DirPaths <- MCDirPaths
  FilePaths <- MCFilePaths
  Ops = {"getattr", "open", "readdir", "read", "write", "setattr", "create", "mkdir", "unlink", "rmdir", "rename"}
  CrowdOps = {"create", "mkdir", "unlink", "rmdir", "rename", "write", "readdir"}
SYMMETRY Symmetry
INVARIANT TypeOK
INVARIANT NoDeadlock
INVARIANT NoDataRaces
INVARIANT NothingStaysLocked
