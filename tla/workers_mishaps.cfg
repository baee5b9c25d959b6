SPECIFICATION WorkersSpec
CONSTANTS
  JobIds = {j1, j2}
  Service = {w1}
  Workers = {w1, manual}
  Smoke = {}
  None = None
  Outcomes <- MCNotPushed
  MaxFaults = 1
  MaxRestarts = 1
  MaxHangs = 0
SYMMETRY MCSymmetry
CONSTRAINT MCOneMishap
CHECK_DEADLOCK FALSE
INVARIANTS
  ExclusiveOwnership
  DashboardAgrees
  
  UndisturbedRecordsAgree
PROPERTIES
  OutcomeIsFinal
  ImplementsLifecycle
