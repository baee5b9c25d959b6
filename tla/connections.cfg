SPECIFICATION MCSpec
CONSTANTS
  Requests = {r1, r2}
  States = {s1, s2}
  Realms = {co1, co2}
  None = None
  MaxGrants = 2
  MaxKeys = 2
  MaxRotations = 2
  MaxFaults = 1
  Visits = {r1, r2}
  OAuthStates = {s1, s2}
  MaxConsents = 2
  MaxLosses = 1
  Editors = {r1, r2}
  Sites = {"A", "B"}
  MaxDocuments = 3
  MaxVersions = 3
SYMMETRY MCSymmetry
CONSTRAINT MCSmall
CHECK_DEADLOCK FALSE
INVARIANTS
  QuickBooksHolds
  CalendarHolds
  
PROPERTIES
  OnlyCallbackConnects
