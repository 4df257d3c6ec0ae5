SPECIFICATION SaveSpec
CONSTANTS
  Archives <- HugeArchives
  Inflate <- MCInflate
  MaxCalls = 1
  ReadSizes = {1, 2, 3, 4, 5, 6, 7, 8}
  U32 = 8
  U16 = 8
  NotRead = NotRead
INVARIANT RawDataIsWhole
CHECK_DEADLOCK FALSE
