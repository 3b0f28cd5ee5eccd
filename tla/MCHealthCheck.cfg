SPECIFICATION FairSpec
CONSTANTS
  Checks = {"check_producer_activity", "check_kafka_connect", "check_parse_failures", "check_market_coverage"}
  Connectors = {cdc, ledger}
  CDC = cdc
  MaxFailures = 1
  MaxDisturbances = 2
  NONE = NONE
INVARIANTS QuietMeansUntouched
PROPERTIES  RepairedInTheEnd
CHECK_DEADLOCK FALSE
