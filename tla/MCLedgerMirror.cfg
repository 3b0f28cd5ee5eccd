SPECIFICATION FairSpec
CONSTANTS
  Orders = {o1}
  Fills = {f1}
  Reinserts = FALSE
  SameTick = FALSE
  MaxEvents = 3
  MaxTime = 1
  MaxCrashes = 1
  NONE = NONE
INVARIANTS TypeOK CaughtUpIsEqual
PROPERTIES MirrorsRows EveryChangeShows
CHECK_DEADLOCK FALSE
