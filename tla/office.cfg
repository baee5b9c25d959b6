SPECIFICATION MCSpec
CONSTANTS
  Accounts = {"a1", "a2"}
  Browsers = {b1, b2}
  AddressOf <- MCAddressOf
  FirstAdmin = "a1"
  MaxFailed = 2
  MaxFailedAddress = 2
  MaxPasswords = 3
  NoSession = NoSession
  NoThrottle = NoThrottle
  Records = {1, 2}
  EmailOf <- MCEmailOf
  Calls = {c1, c2}
  Home = Home
  MaxLinks = 2
  MaxPackets = 2
  Workers = {"w1", "w2"}
  Contents = {1, 2, 3}
  CrewOf <- MCCrewOf
  GapOf <- MCGapOf
  Requests = {q1, q2}
  MaxFieldLog = 3
  Receipts = {1, 2}
  Images = {Photo}
  Photo = Photo
  ImageOf <- MCImageOf
  Readings = {1, 2}
  Complete = {1, 2}
  Reviewers = {u1, u2}
  MaxVersion = 5
  Controllers = {r1, r2}
  Managers = {m1, m2}
  MaxAttempts = 2
  MaxRoutings = 2
  Tabs = {t1, t2}
  Profiles = {"chrome"}
  BrowserOf <- MCBrowserOf
  MaxEdits = 2
  MaxDrafts = 2
  MaxOpens = 1
  Operators = {"driver"}
  Vehicles = {"truck"}
  Machines = {"digger"}
  Entrants = {e1, e2}
  NoOperator = NoOperator
  MaxKm = 2
  MaxLogs = 2
  MaxChanges = 2
  Groups = {"g1"}
  Reporters = {r1, r2}
  Reviewing = {m1, m2}
  NoHolder = NoHolder
  MaxReports = 3
  MaxReviews = 2
SYMMETRY MCSymmetry
CONSTRAINT MCSmall
CHECK_DEADLOCK FALSE
INVARIANTS
  
  
  FieldRecordsHold
  FleetHolds
  ReceiptsArePosted
  InboxesAreOrderly
  

  
