SPECIFICATION MCFairSpec
CONSTANTS
  JobIds = {j1, j2}
  Service = {w1}
  Workers = {w1}
  Smoke = {}
  None = None
  Outcomes <- MCSuccess
  MaxFaults = 0
  MaxRestarts = 1
  MaxHangs = 0
  Issues = {1}
  Projects = 1
  ProjectOf <- MCOneProject
  Pollers = {daemon}
  Daemon = {daemon}
  Down = {}
  ListLimit = 1
  MaxFailures = 0
  MaxEdits = 1
CHECK_DEADLOCK FALSE
INVARIANTS
  ExecutedWasApproved
PROPERTIES
  PlatformCatchesUp
