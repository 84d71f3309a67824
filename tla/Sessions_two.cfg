SPECIFICATION SessionsSpec
CONSTANTS
  t1 = t1
  t2 = t2
  t3 = t3
  c1 = c1
  c2 = c2
  s0 = s0
  Tasks = {t1, t2}
  Coders = {c1}
  CoderOf <- MCCoderOf
  Ids = {s0, s1}
  Legacy = {}
  MaxRetries <- MCMaxRetries
  MaxEvents = 2
  NoTask = NoTask
  NoId = NoId
SYMMETRY MCSymmetry
CHECK_DEADLOCK FALSE
INVARIANTS SessionsTypeOK  HeadRecorded
PROPERTY PushKeepsSessionWork
