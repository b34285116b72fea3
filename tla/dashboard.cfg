SPECIFICATION Spec
CONSTANTS
  d1 = d1
  d2 = d2
  p1 = p1
  p2 = p2
  Deps = {d1, d2}
  Projects = {p1, p2}
  ProjectOf <- OneEach
  FirstHistory <- FailedAndNone
  Slots = {s1, s2}
  None = None
  Free = Free
  Pending = Pending
  Ok = Ok
  Failed = Failed
  Unauthorized = Unauthorized
  Loading = Loading
  Ways = {"login", "settings", "logout", "refresh", "toggle", "deploy", "stop", "terminal", "failure"}
  MaxClicks = 3
  MaxTokens = 3
  MaxFailures = 1
SYMMETRY Interchangeable
CHECK_DEADLOCK FALSE
INVARIANTS
  TypeOK
  CookieIsGood
