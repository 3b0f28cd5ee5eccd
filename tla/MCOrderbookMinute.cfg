SPECIFICATION Spec
CONSTANTS
  Markets = {m1, m2}
  MIN_MARKETS = 1
  Mids = {0, 1, 2}
  MAX_VALUE = 2
  MINUTE = 2
  BOUND = 0
  DELAY = 1
  MaxNow = 2
  MaxBooks = 3
  MaxTopic = 3
  MaxFaults = 1
  NONE = NONE
SYMMETRY Symmetry
INVARIANTS RowIsAggregate  Accounted SubscribedToList
CHECK_DEADLOCK FALSE
