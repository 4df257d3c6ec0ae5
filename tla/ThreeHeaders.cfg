SPECIFICATION Spec
CONSTANTS
  Tables <- MCTables
  Items <- MCItems
  Slots = 3
  FirstSize = 2
  MaxItems = 16
  Disks <- MCThree
  Versions <- MCVersions
  MaxStrings = 12
INVARIANT AllHeadersListed
CHECK_DEADLOCK FALSE
