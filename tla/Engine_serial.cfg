SPECIFICATION FairEngineSpec
CONSTANTS
  t1 = t1
  t2 = t2
  t3 = t3
  a1 = a1
  a2 = a2
  i1 = i1
  i2 = i2
  Tasks = {t1, t2}
  HubTasks = {t1}
  Agents = {a1}
  AgentOf <- MCAgentOf
  Issues = {i1}
  IssueOf <- MCIssueOf
  Workers = {w1, w2}
  Admins = {}
  QueueSize = 1
  MaxRetries = 1
  Serial = TRUE
  MaxCrashes = 1
  NoTask = NoTask
  NoWorker = NoWorker
  NoIssue = NoIssue
CHECK_DEADLOCK FALSE
INVARIANTS SerialAgentExclusive EngineInv
PROPERTIES SuccessIsFinal TaskTableKept PendingServed SlotReturned
