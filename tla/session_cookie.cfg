SPECIFICATION MCSpec
CONSTANTS
  Scopes = {"sessions"}
  Requests = {r1, r2}
  States = {1, 2}
  Sids = {1, 2, 3}
  Nothing = Nothing
  StateLife = 1
  CacheLife = 1
  RecentLife = 1
  IdleLife = 2
  AbsoluteLife = 3
  MaxTime = 3
  MaxChanges = 2
  Pending = {q1, q2}
  Korean = {q1}
  Links = {l1}
  Accounts = {a1}
  Incidents = {g1}
  Setting = Setting
  Clicks = {1, 2, 3}
  MaxOthers = 1
  MaxMounts = 2
  Alerts <- MCAlerts
  ActivateAfter <- MCActivateAfter
  RecoverAfter <- MCRecoverAfter
  Reminder = 2
  Migrators = {m1, m2}
  Last = 2
  Texts = {"a", "b"}
  LineEnds = {"lf", "crlf"}
  Historical <- MCHistorical
SYMMETRY Handlers
PROPERTIES
  RotationReachesBrowser
CHECK_DEADLOCK FALSE
