SPECIFICATION MCSpec
CONSTANTS
  a1 = a1
  a2 = a2
  u1 = u1
  u2 = u2
  Users = {u1, u2}
  Administrators = {u2}
  Accounts = {a1, a2}
  Games = {g1, g2}
  Ops = {1, 2, 3, 4, 5, 6, 7}
  NoUser = NoUser
  NoBet = NoBet
  NoScore <- None
  Scores <- MCScores
  BetPredictions <- OnePrediction
  Adjustments <- MCAdjustments
  Feed <- LedgerFeed
  Starts = {1, 2}
  Disputed = {a1}
  RetentionPeriod = 1
  MaxTime = 2
  MaxRevision = 3
  DailyCredit = 2
  DailyStakeLimit = 2
  MaxStake = 2
  DayLength = 2
  KstOffset = 1
  EvidenceMaxAge = 1
  Scopes <- LedgerScopes
SYMMETRY Fixtures
INVARIANTS
  TypeOK
  BooksBalance
  DailyLimitKept
  ClosedAccountsKeepNothing
  OneEffectPerOperation
  LedgerExplainsBalance
PROPERTIES
  HistoryKeptUntilRetention
  ImplementsContract
CHECK_DEADLOCK FALSE
