SPECIFICATION FairSessionsSpec
CONSTANTS
  t1 = t1
  t2 = t2
  t3 = t3
  c1 = c1
  c2 = c2
  s0 = s0
  Tasks = {t2}
  Coders = {c1}
  CoderOf <- MCCoderOf
  Ids = {s0, s1}
  Legacy = {s0}
  MaxRetries <- MCMaxRetries
  MaxEvents = 2
  NoTask = NoTask
  NoId = NoId
CHECK_DEADLOCK FALSE
PROPERTIES IdleRetired WorkspaceReclaimed
