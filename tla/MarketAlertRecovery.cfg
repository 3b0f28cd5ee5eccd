SPECIFICATION FairSpec
CONSTANTS
  RING = 5
  LOOKBACK = 2
  TIMER_CHAIN_MINUTES = 2
  MINUTE = 2
  CLOSE_SLACK = 1
  LATE_EVENT = 2
  Prices = {2}
  Lags = {0}
  Delay = 1
  RestartDelay = 2
  OrderedStart = TRUE
  MaxSilence = 3
  MaxTime = 19
  MaxTrades = 2
  MaxCrashes = 1
  NONE = NONE
PROPERTIES EveryMinuteIsJudged
CHECK_DEADLOCK FALSE
