SPECIFICATION Spec
CONSTANTS
  Tables <- MCTables
  Items <- MCItems
  Slots = 3
  FirstSize = 2
  MaxItems = 16
  Disks <- MCDisks
  Versions <- MCVersions
  MaxStrings = 12
INVARIANTS TypeOK ArrayFits InOrder HeadersListed FirstHeaderServes NothingLeaks
PROPERTY CallsReturn
CHECK_DEADLOCK FALSE
