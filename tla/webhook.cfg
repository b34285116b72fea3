SPECIFICATION Spec
CONSTANTS
  p1 = p1
  p2 = p2
  own = own
  repo = repo
  main = main
  dev = dev
  k1 = k1
  k2 = k2
  d1 = d1
  d2 = d2
  d3 = d3
  r1 = r1
  r2 = r2
  r3 = r3
  r4 = r4
  ProjectIds = {p1, p2}
  Segments = {own, repo}
  Branches = {main, dev}
  Secrets = {k1, k2}
  NoSecret = NoSecret
  NoBranch = NoBranch
  MainBranch = main
  NoProject = NoProject
  Deliveries = {d1, d2, d3}
  MaxStoredEvents = 2
  Requests = {r1, r2, r3, r4}
  DeliveryOf <- Redelivered
  Payload <- SomePayloads
  SystemSecret = k2
  Migrated <- TwoProjects
  SaveRequests <- Forms
  MaxEdits = 1
  MaxFaults = 1
  MaxCrashes = 1
SYMMETRY Redeliveries
CHECK_DEADLOCK FALSE
INVARIANTS
  TypeOK
  OwnSecretOnly
  AnsweredIsDeployed
  DisabledStaysQuiet
  EventsAccountable
PROPERTIES
  OldestOut
  DeliverySpec
