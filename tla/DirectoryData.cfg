SPECIFICATION Spec
CONSTANTS
  Names <- MCNames
  EntrySize <- MCEntrySize
  FixedSize = 1
  ObjectSize = 5
  MaxSize = 8
  NoRecord = NoRecord
INVARIANT TypeOK
INVARIANT SizeSuffices
INVARIANT CleanIsStored
PROPERTY CrashIsAtomic
