SPECIFICATION Spec
CONSTANTS
  MONTH = 3
  PARQUET_KEEP_DAYS_LOCAL = 1
  INCR_KEEP_DAYS_LOCAL = 2
  PARQUET_KEEP_DAYS_REMOTE = 3
  FULL_KEEP_REMOTE = 2
  RETRIES = 1
  CutsPerRun = 1
  MaxUnsynced = 2
  MaxDay = 9
  MaxFaults = 5
INVARIANTS IncrementalsHaveBase PrunedWasRemote GreenMeansRestorable
CHECK_DEADLOCK FALSE
