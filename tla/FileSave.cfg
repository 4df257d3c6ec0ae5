SPECIFICATION SaveSpec
CONSTANTS
  Archives <- MCArchives
  Inflate <- MCInflate
  MaxCalls = 2
  ReadSizes = {1, 2, 3, 4, 5, 6, 7, 8}
  U32 = 1024
  U16 = 8
  NotRead = NotRead
INVARIANTS SaveTypeOK CountersAgree OutputIsPrefix FailureExplained RepeatGivesSame
PROPERTIES ReaderProtocol KeepsPromise CallsReturn
CHECK_DEADLOCK FALSE
