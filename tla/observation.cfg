SPECIFICATION MCSpec
CONSTANTS
  Scopes = {"games", "links"}
  Games = {1, 2}
  Ranked = {1}
  Nothing = Nothing
  StartGrace = 1
  InterruptionAllowance = 1
  MaxTime = 2
  MaxGeneration = 2
  MaxRestarts = 1
  MaxVersion = 1
  u1 = u1
  a1 = a1
  a2 = a2
  n1 = n1
  n2 = n2
  n3 = n3
  Users = {u1}
  Accounts = {a1, a2}
  Names = {n1, n2, n3}
  Operations = {1, 2, 3, 4}
  BatchSize = 1
  PageSize = 1
  MaxRenames = 1
  MaxFailures = 1
INVARIANTS
  AnnouncedOnce
PROPERTIES
  VerdictsStay
  UnlinkedIsUnobserved
  ViolationsGetAnnounced
  NamesCatchUp
CHECK_DEADLOCK FALSE
