SPECIFICATION FairSpec
CONSTANTS
  d1 = d1
  d2 = d2
  p1 = p1
  p2 = p2
  Deps = {d1, d2}
  Projects = {p1, p2}
  ProjectOf <- OneEach
  FirstHistory <- OverAndNone
  Slots = {s1, s2}
  None = None
  Free = Free
  Pending = Pending
  Ok = Ok
  Failed = Failed
  Unauthorized = Unauthorized
  Loading = Loading
  Ways = {"terminal", "logout"}
  MaxClicks = 3
  MaxTokens = 1
  MaxFailures = 1
CHECK_DEADLOCK FALSE
PROPERTIES
  ListCatchesUp
  TerminalFollows
  PollingEnds
