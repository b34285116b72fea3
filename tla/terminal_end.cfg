SPECIFICATION FairSpec
CONSTANTS
  d1 = d1
  d2 = d2
  p1 = p1
  p2 = p2
  Deps = {d1, d2}
  Projects = {p1, p2}
  ProjectOf <- OneEach
  FirstHistory <- FailedAndNone
  Slots = {s1, s2}
  None = None
  Free = Free
  Pending = Pending
  Ok = Ok
  Failed = Failed
  Unauthorized = Unauthorized
  Loading = Loading
  Ways = {"deploy", "terminal"}
  MaxClicks = 1
  MaxTokens = 1
  MaxFailures = 0
CHECK_DEADLOCK FALSE
PROPERTY
  TerminalCatchesUp
