SPECIFICATION Spec
CONSTANTS
  DirPaths <- MCTwoDirPaths
  FilePaths <- MCFourFilePaths
  Ids = {i1, i2, i3, i4, i5}
  i1 = i1
  i2 = i2
  i3 = i3
  i4 = i4
  i5 = i5
  Lost = Lost
  Ops = {"create", "mkdir", "rmdir", "expire", "unmount", "rename_over", "rename_dir"}
SYMMETRY Symmetry
INVARIANT DirectoriesHaveMetadata
INVARIANT NoAliases
