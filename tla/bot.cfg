SPECIFICATION MCSpec
CONSTANTS
  Scopes = {"streams", "links", "approvals", "paging", "gateway", "quota", "history"}
  u1 = u1
  u2 = u2
  a1 = a1
  a2 = a2
  n1 = n1
  n2 = n2
  n3 = n3
  i1 = i1
  i2 = i2
  m1 = m1
  Users = {u1, u2}
  Accounts = {a1, a2}
  Names = {n1, n2, n3}
  Operations <- OneToFour
  Nothing = Nothing
  Freshness = 3
  ReconcileInterval = 2
  InterruptionAllowance = 2
  MaxQueue = 2
  MaxToggles = 2
  BatchSize = 1
  PageSize = 1
  MaxRenames = 1
  MaxFailures = 1
  MaxRestarts = 1
  Members = {m1}
  Attempts <- OneToTwo
  Tries = 2
  None = None
  MaxConnects = 2
  MaxChanges = 2
  MaxEnrollments = 2
  Interactions = {i1, i2}
  Asker <- MCAsker
  Spans = {1, 2}
  Ids <- OneToFour
  PageLimit = 2
  Capacity = 3
  Hour = 2
  MaxTime = 4
  MaxDeliveries = 2
  MaxDeletions = 1
INVARIANTS
  EvidenceIsRecent
  LinksAreApproved
  PagesMissNothing
  CurrentMeansDeparted
  StoppedBotIsSilent
  OneSummaryPerHour
  SummaryIsWhole
PROPERTIES
  LinksChangeAsSeen
  LateReconciliationLoses
CHECK_DEADLOCK FALSE
