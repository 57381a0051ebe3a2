SPECIFICATION FairSpec
CONSTANTS
  Files = {f}
  Dirs = {d}
  f = f
  d = d
  None = None
  FailThreshold = 2
  MaxChanges = 1
INVARIANT TypeOK
INVARIANT CleanIsWritten
INVARIANT RemovedIsGone
PROPERTY DirtyIsWritten
PROPERTY UnmountEnds
