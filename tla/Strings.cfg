SPECIFICATION StringsSpec
CONSTANTS
  Sources <- MCSources
  Limits <- MCLimits
  Memories <- MCMemories
INVARIANTS ConverterTypeOK TargetIsText TextArrives NothingDropped NameArrives
CHECK_DEADLOCK FALSE
