SPECIFICATION MCSpec
CONSTANTS
  a1 = a1
  a2 = a2
  a3 = a3
  u1 = u1
  u2 = u2
  g1 = g1
  g2 = g2
  s1 = s1
  s2 = s2
  s3 = s3
  Users = {u1, u2}
  Accounts = {a1, a2, a3}
  Games = {g1, g2}
  Ops = {1, 2, 3, 4, 5}
  Sessions = {s1, s2, s3}
  Nobody = Nobody
  NoBet = NoBet
  Requests <- RequestMixes
  Members <- OneMember
  Feed <- RequestFeed
  GameStart = 2
  MaxTime = 1
  MaxRevisions = 4
  DailyCredit = 2
  DailyStakeLimit = 2
  MaxStake = 2
  DayLength = 2
  KstOffset = 1
  EvidenceMaxAge = 2
  Scores <- MCScores
  NoScore <- None
SYMMETRY Pool
INVARIANTS
  NoLostUpdate
  AtMostOnce
  AnswersAgree
  SomeTransactionGoesOn
PROPERTIES
  CommitsMeetTheRules
  CommitsKeepContract
CHECK_DEADLOCK FALSE
