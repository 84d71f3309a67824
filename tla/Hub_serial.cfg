SPECIFICATION HubSpec
CONSTANTS
  Tasks = {t1, t2}
  Async = TRUE
  Serial = TRUE
  MaxRetries = 1
  MaxEvents = 1
  MaxFaults = 1
  MaxTrouble = 1
  NoTask = NoTask
CHECK_DEADLOCK FALSE
SYMMETRY TaskSymmetry
INVARIANTS HubTypeOK NoWorkLost OneWriter SweepSparesRun NoSecondPR
