SPECIFICATION FairHubSpec
CONSTANTS
  Tasks = {t1}
  Async = FALSE
  Serial = TRUE
  MaxRetries = 0
  MaxEvents = 2
  MaxFaults = 2
  MaxTrouble = 4
  NoTask = NoTask
CHECK_DEADLOCK FALSE
PROPERTY KeyRevoked
