SPECIFICATION Spec
CONSTANTS
  Names <- MCNames
  Replaced <- MCReplaced
  Printable <- MCPrintable
  Lower <- MCLower
  Iconv <- MCIconv
  Cut <- MCCut
  Size <- MCSize
  Begins <- MCBegins
  PATH_MAX = 20
  Inputs <- MCInputs
  INT_MAX = 9
  MaxFaults = 1
  MaxTries = 12
INVARIANTS DiskExplained HealthyRunSucceeds
PROPERTIES KeepsBatch RunEnds
CHECK_DEADLOCK FALSE
