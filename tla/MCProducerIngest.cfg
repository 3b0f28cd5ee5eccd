SPECIFICATION FairSpec
CONSTANTS
  Margin = 1
  StartupMax = 2
  BatchSize = 1
  MaxBatches = 1
  Reorder = 1
  Slots = {t1, t2}
  Faults = {"link", "mysql", "rest", "kill", "stop"}
  Epoch = 1
  MaxTime = 4
  MaxTrades = 2
  MaxFaults = 2
  NONE = NONE
INVARIANTS TypeOK   
 
CHECK_DEADLOCK FALSE
