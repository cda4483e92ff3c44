SPECIFICATION Spec
CONSTANTS
  a1 = a1
  a2 = a2
  a3 = a3
  u1 = u1
  u2 = u2
  g1 = g1
  g2 = g2
  s1 = s1
  s2 = s2
  s3 = s3
  Users = {u1}
  Accounts = {a1}
  Games = {g1}
  Ops = {1, 2}
  Sessions = {s1, s2}
  Nobody = Nobody
  NoBet = NoBet
  Requests <- LeavingMixes
  Members <- OneMember
  Feed <- CancelFeed
  GameStart = 2
  MaxTime = 0
  MaxRevisions = 1
  DailyCredit = 2
  DailyStakeLimit = 2
  MaxStake = 2
  DayLength = 2
  KstOffset = 1
  EvidenceMaxAge = 2
  Scores <- MCScores
  NoScore <- None
SYMMETRY Pool
PROPERTIES
  BetsComeFromMembers
CHECK_DEADLOCK FALSE
