SPECIFICATION FairTimesheetsSpec
CONSTANTS
  Requests = {r1, r2}
  Sheets = {1, 2}
  Days = {1}
  Employees = {e1}
  Slots = {1, 2}
  Machines = {}
  Payloads <- MCPayloads
  None = None
  Patient = TRUE
  MaxEntries = 1
CONSTRAINT MCInOrder
CHECK_DEADLOCK FALSE
PROPERTIES
  RequestsEnd
