SPECIFICATION Spec
CONSTANTS
  ObjectSize = 2
  IndexLimit = 3
  IndexWidth = 8
  SizeMod = 11
  Bytes <- MCBytes
  MaxSize = 5
  MaxWrite = 3
  MaxFailures = 1
  Ops = {"write", "grow", "clear", "reload", "remove"}
INVARIANT TypeOK
INVARIANT ReadsAreExact
INVARIANT NoLeak
INVARIANT CleanIsRecorded
PROPERTY RefinesByteFile
