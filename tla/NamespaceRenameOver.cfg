SPECIFICATION Spec
CONSTANTS
  DirPaths <- MCDirPaths
  FilePaths <- MCFilePaths
  Ids = {i1, i2, i3}
  i1 = i1
  i2 = i2
  i3 = i3
  Lost = Lost
  Ops = {"create", "rename_over", "worker", "unmount"}
SYMMETRY Symmetry
INVARIANT EntriesResolve
