SPECIFICATION MCSpec
CONSTANTS
  Projects = {p1, p2}
  Other = p2
  QuoteProject = p1
  Quotes = {q1, q2}
  Second = q2
  Sessions = {s1, s2}
  Managers = {s1}
  Estimator = s2
  Workspaces = {w1}
  Prices = {1, 2}
  MaxRevision = 4
  Controls = {c1}
  Documents = {d1}
  DocumentOf <- MCDocumentOf
  Changes <- MCChanges
  MaxNumber = 2
  MaxUpdates = 2
  None = None
CONSTRAINT MCSmall
INVARIANTS
  ProjectsAreControlled
  
PROPERTIES
  NumberPermanent
