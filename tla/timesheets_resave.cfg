SPECIFICATION TimesheetsSpec
CONSTANTS
  Requests = {r1, r2}
  Sheets = {1, 2}
  Days = {1}
  Employees = {e1}
  Slots = {1, 2}
  Machines = {}
  Payloads <- MCPayloads
  None = None
  Patient = FALSE
  MaxEntries = 0
CONSTRAINT MCInOrder
CHECK_DEADLOCK FALSE
PROPERTIES
  SubmittedImmutable
