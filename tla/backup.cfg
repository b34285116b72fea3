SPECIFICATION BackupSpec
CONSTANTS
  p1 = p1
  p2 = p2
  d1 = d1
  Projects = {p1, p2}
  Deployments = {d1}
  Legacy <- SomeLegacy
  FirstFiles <- SomeFiles
  LegacyText = LegacyText
  Texts = {new}
  Credentials = {key}
  Blank = Blank
  NoRow = NoRow
  Untouched = Untouched
  MaxFaults = 1
  MaxCrashes = 2
  MaxEdits = 2
  Order <- Lexical
  Gone = Gone
  MaxSize = 1
  MaxChanges = 2
CHECK_DEADLOCK FALSE
INVARIANTS
  TypeOK
  BackupTypeOK
  NothingLost
  EditsSurvive
  SuccessIsWhole
  BackupHasRows
PROPERTY
  MigrationSpec
