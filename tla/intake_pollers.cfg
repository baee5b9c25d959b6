SPECIFICATION FairIntakeSpec
CONSTANTS
  JobIds = {j1, j2, j3}
  Workers = {}
  None = None
  Issues = {2, 3}
  Projects = 2
  ProjectOf <- MCProjectOf
  Pollers = {daemon, command}
  Daemon = {daemon}
  Down = {1}
  ListLimit = 1
  MaxFailures = 1
  MaxEdits = 1
INVARIANTS
  IntakeIsConsistent
PROPERTIES
  IntakeCatchesUp
