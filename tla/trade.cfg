SPECIFICATION MCSpec
CONSTANTS
  Suppliers = {p1, p2}
  Documents = {"plan"}
  Sends = {n1, n2}
  MaxSelections = 3
  MaxResponses = 1
  MaxWrites = 4
  Quotes = {"q1", "q2", "q3"}
  SupplierOf <- MCSupplierOf
  RevisionOf <- MCRevisionOf
  Handoffs = {h1, h2}
  MaxQuoteChanges = 1
  MaxSaves = 3
  Numbers = {1, 2}
  Bills = {1, 2}
  Clients = {c1, c2}
  MaxLines = 2
  MaxProjects = 2
  Positions = {1, 2}
  Amounts = {1, 2}
  CostKeys = {1, 2}
  Importers = {i1, i2}
  MaxImports = 2
CONSTRAINT MCSmall
CHECK_DEADLOCK FALSE
INVARIANTS
  
  HandoffHolds
  InvoicesHold
  
