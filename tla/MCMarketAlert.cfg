SPECIFICATION Spec
CONSTANTS
  RING = 7
  LOOKBACK = 2
  TIMER_CHAIN_MINUTES = 2
  MINUTE = 2
  CLOSE_SLACK = 1
  LATE_EVENT = 2
  Prices = {2, 3}
  Lags = {0, 3}
  Delay = 1
  RestartDelay = 0
  OrderedStart = TRUE
  MaxSilence = 3
  MaxTime = 26
  MaxTrades = 3
  MaxCrashes = 0
  NONE = NONE
INVARIANTS AlertsMatchBars OpenCloseIsLast ChainAlive
 
CHECK_DEADLOCK FALSE
