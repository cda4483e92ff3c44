SPECIFICATION Spec
CONSTANTS
  application = application
  link = link
  account = account
  incident = incident
  Requests = {1}
  Targets = {application, link, account, incident}
  Kind <- Kinds
  Menus <- IncidentCommands
  Ops <- AllOps
  GeneratedId <- Random
  RequestId <- Ids
  FirstLongId = 9
  Nothing = Nothing
  MaxConnections = 1
  MaxServed = 2
  MaxRestarts = 0
  MaxVersion = 0
INVARIANTS
  TimeoutsAreNotFailures
CHECK_DEADLOCK FALSE
