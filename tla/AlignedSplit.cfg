SPECIFICATION SaveSpec
CONSTANTS
  Archives <- AlignedArchives
  Inflate <- MCInflate
  MaxCalls = 1
  ReadSizes = {1, 2, 3, 4, 5, 6, 7, 8}
  U32 = 1024
  U16 = 8
  NotRead = NotRead
INVARIANT SplitFilesExtract
CHECK_DEADLOCK FALSE
