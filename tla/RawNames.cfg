SPECIFICATION Spec
CONSTANTS
  Names <- MCNames
  Replaced <- MCReplaced
  Printable <- MCPrintable
  Lower <- MCLower
  Iconv <- MCIconv
  Cut <- MCCut
  Size <- MCSize
  Begins <- MCBegins
  PATH_MAX = 20
  Inputs <- RawInputs
  INT_MAX = 9
  MaxFaults = 0
  MaxTries = 12
INVARIANTS RawKeepsNames
CHECK_DEADLOCK FALSE
