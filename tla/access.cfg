SPECIFICATION Spec
CONSTANTS
  itrigger = itrigger
  dev = dev
  ann = ann
  p1 = p1
  p2 = p2
  t1 = t1
  t2 = t2
  t3 = t3
  Names = {itrigger, dev, ann}
  DefaultUser = itrigger
  ProjectIds = {p1, p2}
  Tokens = {t1, t2, t3}
  Requests = {r1, r2, r3}
  Calls <- SomeCalls
  NoUser = NoUser
  NoName = NoName
  Nothing = Nothing
  FirstUsers <- SomeUsers
  FirstRights <- SomeRights
  FirstProjects = {p1}
  FirstSessions <- SomeSessions
  MaxBoots = 1
SYMMETRY Interchangeable
CHECK_DEADLOCK FALSE
INVARIANTS
  TypeOK
  ActsByRight
  ListsByRight
PROPERTY
  RightsChangeByRight
