SPECIFICATION DeliverySpec
CONSTANTS
  Subjects = {s1}
  Shadow = {}
  Levels = {0, 1, 2, 3}
  Window = 3
  HOUR = 2
  Rules = {r1, r2}
  DAY = 5
  FIELDS = 2
  Retries = 1
  Lateness = 1
  MaxInARow = 1
  MaxNow = 5
  MaxTransitions = 3
  MaxBreaks = 2
  MaxMuted = 1
INVARIANTS NothingSlips ShownOnce
CHECK_DEADLOCK FALSE
