SPECIFICATION OldSpec
CONSTANTS
  Archives <- MCArchives
  Inflate <- MCInflate
  MaxCalls = 2
  ReadSizes = {0, 1, 2, 3, 4, 5, 6, 7, 8, 9, 10, 11, 12, 13, 14, 15, 16, 18}
  U32 = 256
  U16 = 16
  NotRead = NotRead
INVARIANTS OldOutputIsPrefix WholeChunksExtract BesideExtracts
PROPERTIES ReaderProtocol KeepsOldPromise OldCallsReturn
CHECK_DEADLOCK FALSE
