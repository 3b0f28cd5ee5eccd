SPECIFICATION Spec
CONSTANTS
  Sizes = {1}
  MaxOrdersPerDay = 2
  Reordered = FALSE
  CleanClose = FALSE
  Archives = TRUE
  Refusals = TRUE
  MaxOrders = 2
  MaxFaults = 1
  MaxDrops = 1
  MaxRepeats = 0
  MaxResets = 1
  NONE = NONE
INVARIANTS NoFalseReset
CHECK_DEADLOCK FALSE
