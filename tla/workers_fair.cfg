SPECIFICATION FairWorkersSpec
CONSTANTS
  JobIds = {j1}
  Service = {w1, w2}
  Workers = {w1, w2, manual}
  Smoke = {}
  None = None
  Outcomes <- MCFewOutcomes
  MaxFaults = 0
  MaxRestarts = 0
  MaxHangs = 1
CHECK_DEADLOCK FALSE
INVARIANTS
  SuccessIsVerified
PROPERTIES
  QueueDrains
