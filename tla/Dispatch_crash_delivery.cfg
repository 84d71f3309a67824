SPECIFICATION DispatchSpec
CONSTANTS
  t1 = t1
  t2 = t2
  t3 = t3
  a1 = a1
  a2 = a2
  i1 = i1
  closing = closing
  comment = comment
  Tasks = {t1}
  HubTasks = {}
  Agents = {a1, a2}
  AgentOf <- MCAgentOf
  RoleOf <- MCRoleOf
  TypeOf <- MCTypeOf
  Issues = {i1}
  IssueOf <- MCIssueOf
  Workers = {w1}
  Admins = {}
  Edits = {}
  EditKind <- MCEditKind
  EditIssue <- MCEditIssue
  Policy = "standard"
  PrId = 7
  QueueSize = 1
  MaxRetries = 0
  Serial = TRUE
  MaxCrashes = 1
  MaxFaults = 0
  NoTask = NoTask
  NoWorker = NoWorker
  NoIssue = NoIssue
CHECK_DEADLOCK FALSE
INVARIANT OnlyDeliveryServed
