SPECIFICATION TimesheetsSpec
CONSTANTS
  Requests = {r1, r2}
  Sheets = {1, 2, 3}
  Days = {1, 2}
  Employees = {e1}
  Slots = {1}
  Machines = {}
  Payloads <- MCPayloads
  None = None
  Patient = TRUE
  MaxEntries = 0
SYMMETRY MCSymmetry
CONSTRAINT MCInOrder
CHECK_DEADLOCK FALSE
INVARIANTS
  PaidOnceExactly
  NoDoubleBooking
PROPERTIES
  SubmittedImmutable
