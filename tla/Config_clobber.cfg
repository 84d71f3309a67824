SPECIFICATION ControlSpec
CONSTANTS
  r1 = r1
  r2 = r2
  File <- MCFile
  Payloads <- MCPayloads
  Answers <- MCAnswers
  Environment <- MCEnvironment
  Removable <- MCRemovable
  Requests = {r1, r2}
  MaxRequests = 1
  MaxFaults = 1
  MaxRestarts = 1
  NoRow = NoRow
  Shared = Shared
  NoDoc = NoDoc
  Keep = Keep
  NoBatch = NoBatch
  Users = {alice, bot}
  Persons = {alice}
  Jobs = {j1, j2}
  MaxIds = 3
  MaxTokens = 2
  MaxJobs = 0
  MaxErrors = 1
  MaxBoots = 1
  None = None
  Own = Own
CHECK_DEADLOCK FALSE
INVARIANTS SecretsNotClobbered
