SPECIFICATION Spec
CONSTANTS
  j1 = j1
  j2 = j2
  c1 = c1
  s1 = s1
  s2 = s2
  Jobs = {j1, j2}
  Commits = {c1}
  CommitOf <- SameCommit
  SshJobs = {j1, j2}
  Stoppers = {s1}
  MaxFaults = 1
  MaxCrashes = 1
  NoJob = NoJob
  Partial = Partial
CHECK_DEADLOCK FALSE
INVARIANTS
  TruthfulStatus
  RunningIsBacked
  QuiescentIsClean
  KeyFileDiscipline
