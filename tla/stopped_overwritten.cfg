SPECIFICATION Spec
CONSTANTS
  j1 = j1
  j2 = j2
  c1 = c1
  s1 = s1
  s2 = s2
  Jobs = {j1, j2}
  Commits = {c1}
  CommitOf <- DistinctCommits
  SshJobs = {}
  Stoppers = {s1}
  MaxFaults = 0
  MaxCrashes = 0
  NoJob = NoJob
  Partial = Partial
CHECK_DEADLOCK FALSE
PROPERTY StoppedIsNotOverwritten
