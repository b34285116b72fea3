SPECIFICATION Spec
CONSTANTS
  j1 = j1
  j2 = j2
  c1 = c1
  s1 = s1
  s2 = s2
  Jobs = {j1, j2}
  Commits = {c1}
  CommitOf <- DistinctCommits
  SshJobs = {j1}
  Stoppers = {s1, s2}
  MaxFaults = 0
  MaxCrashes = 1
  NoJob = NoJob
  Partial = Partial
CHECK_DEADLOCK FALSE
INVARIANTS
  TypeOK
  AckedStopSticks
  KilledIsStopped
  ResultHasItsLog
  RegistryExact
PROPERTY
  RecordSpec
