SPECIFICATION MCSpec
CONSTANTS
  Names = {1, 2, 3, 4, 5, 6, 7}
  Files = {1, 2, 3, 4, 5, 6, 7, 8}
  NoReference = "none"
  NameReference <- MCNameReference
  FileReference <- MCFileReference
  Signature <- MCSignature
  NameLength <- MCNameLength
  Overlapping <- MCOverlapping
  Aliases <- MCAliases
  Manifests <- MCManifests
  FernieFolders = {1, 2}
  FernieTitle = 6
  FuelName = 4
  FuelNumber = "C26"
  FuelFiles <- MCFuelFiles
  BennettName = 5
  MaxRuns = 3
  Listings <- MCListings
  MaxOffice = 1
  People = {"jeremie", "ann"}
  Admin = "jeremie"
  Contacts = {"supplier"}
  ContactOf <- MCContactOf
  Nobody = Nobody
  MaxAccounts = 3
  MaxMigrations = 2
  MaxChanges = 3
  Quotes = {1, 2}
  Lines = {1, 2}
  MaxAttempts = 3
  MaxProjects = 2
  MaxQuotes = 3
  MaxEdits = 2
  Enrolments = {1, 2, 3}
  KeyOf <- MCKeyOf
  RepositoryOf <- MCRepositoryOf
  DirectoryOf <- MCDirectoryOf
  Seed = 1
  Registrars = {"a", "b"}
  MaxRegistrations = 3
  MaxPolls = 1
  MaxMade = 2
  MaxActive = 2
  MaxWrites = 1
CONSTRAINT MCSmall
CHECK_DEADLOCK FALSE
INVARIANTS
  ImportsHold
  PilotsHold
  MigrationHolds
  BundlesHold
  RegistryHolds
