SPECIFICATION FairSpec
CONSTANTS
  Levels = {1, 2}
  Quantities = {1}
  Limit = 1
  TOP_N = 1
  Conns = {c1}
  MaxId = 3
  MaxTopic = 3
  MaxLosses = 1
  MaxRestarts = 1
  NONE = NONE
INVARIANTS TypeOK SyncedBookIsExchanges ShownIsBest
PROPERTIES InSyncGoesForward BookConverges
CHECK_DEADLOCK FALSE
