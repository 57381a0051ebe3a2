SPECIFICATION Spec
CONSTANTS
  DirPaths <- MCDirPaths
  FilePaths <- MCFilePaths
  Ids = {i1, i2, i3, i4}
  i1 = i1
  i2 = i2
  i3 = i3
  i4 = i4
  Lost = Lost
  Ops = {"lookup", "create", "mkdir", "unlink", "rmdir", "rename", "expire", "worker", "unmount"}
SYMMETRY Symmetry
INVARIANT TypeOK
INVARIANT AnswersArePosix
INVARIANT EntriesResolve
INVARIANT SizedIsStored
PROPERTY RefinesFileTree
