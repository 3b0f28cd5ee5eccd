SPECIFICATION FairSpec
CONSTANTS
  Trades = {0, 1}
  Shapes = {"trade", "delete"}
  From = 0
  To = 1
  Margin = 0
  BATCH_SIZE = 2
  MAX_RETRIES = 1
  Attempts = 1
  Quiet = TRUE
  MaxNow = 3
  MaxTopic = 2
  MaxFaults = 1
  MaxSubmits = 1
  NONE = NONE
INVARIANTS CommittedIsStored PassMeansRewritten
PROPERTIES  EverythingHandled
CHECK_DEADLOCK FALSE
