SPECIFICATION FairSpec
CONSTANTS
  Sizes = {2}
  MaxOrdersPerDay = 1
  Reordered = TRUE
  CleanClose = FALSE
  Archives = FALSE
  Refusals = TRUE
  MaxOrders = 1
  MaxFaults = 0
  MaxDrops = 0
  MaxRepeats = 2
  MaxResets = 0
  NONE = NONE
INVARIANTS RowsAreSnapshots 
PROPERTIES VersionsCountChanges ProbesEnd
CHECK_DEADLOCK FALSE
