SPECIFICATION Spec
CONSTANTS
  application = application
  link = link
  account = account
  incident = incident
  Requests = {1, 2}
  Targets = {application, link, account, incident}
  Kind <- Kinds
  Menus <- Everything
  Ops <- AllOps
  GeneratedId <- Random
  RequestId <- Ids
  FirstLongId = 1
  Nothing = Nothing
  MaxConnections = 1
  MaxServed = 2
  MaxRestarts = 1
  MaxVersion = 1
INVARIANTS
  ResultsMatchEffects
  OneEffectPerVersion
  ReportsAreTrue
PROPERTIES
  EveryRequestAnswered
  ConnectionsAreFreed
CHECK_DEADLOCK FALSE
