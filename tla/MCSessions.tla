----------------------------- MODULE MCSessions -----------------------------
(***************************************************************************)
(* Small instances, for TLC, of the dashboard and of what operates it:     *)
(* sessions (Sessions), the page in a browser (DashboardPage), the monitor *)
(* of the host (Monitor) and the migration of the database (Migrations).   *)
(* They share no state, and each scope runs one of them.                   *)
(***************************************************************************)
EXTENDS Sessions, Sequences, TLC

CONSTANTS
  Scopes,
  Pending, Korean, Links, Accounts, Incidents, Setting, Clicks, MaxOthers, MaxMounts,
  Alerts, ActivateAfter, RecoverAfter, Reminder,
  Migrators, Last, Texts, LineEnds, Historical

VARIABLES
  scope,
  version, others, effects, view, mount, seen, marked, games, opened, clicks, message,
  alerts, run, told, silence,
  schema, pristine, ledger, holder, release, progress

Page == INSTANCE DashboardPage WITH Requests <- Pending, None <- Nothing
Host == INSTANCE Monitor
Database == INSTANCE Migrations

ASSUME OperationConstants ==
  Page!PageConstants /\ Host!MonitorConstants /\ Database!MigrationConstants

pageVars == <<version, others, effects, view, mount, seen, marked, games, opened, clicks, message>>
monitorVars == <<alerts, run, told, silence>>
migrationVars == <<schema, pristine, ledger, holder, release, progress>>
allVars == <<scope, vars, pageVars, monitorVars, migrationVars>>

Handlers == Permutations(Requests)

MCInit ==
  /\ scope \in Scopes
  /\ Init /\ (scope # "sessions" => tier = "operator")
  /\ Page!PageInit /\ Host!MonitorInit
  /\ Database!MigrationInit
  /\ scope # "migrations" =>
       schema = <<>> /\ release = [m \in Migrators |-> [v \in 1..Last |-> CHOOSE c \in Texts \X LineEnds : TRUE]]

\* In an instant, two sign-ins of a member whose roles change once, or one of a member
\* whose roles change twice; or one sign-in, and one change, until it expires.  Before the
\* sign-in there is nothing that time could change.
InScope ==
  LET signIns == Cardinality(Issued')
  IN  (now' = 0 /\ signIns + changes' <= 3) \/ (signIns = 1 /\ changes' <= 1)

\* Others change something, or the page is built again.
OneDisturbance == others' = 0 \/ mount' = 1

\* A third handler is one of incidents: after they were loaded and one was to be changed, it
\* submits the form again.
ThirdMutates ==
  IF clicks'[3].step \in {"idle", "over"} THEN TRUE ELSE clicks'[3].what = "mutate"

MCNext ==
  \/ /\ scope = "sessions" /\ Next /\ InScope
     /\ UNCHANGED <<scope, pageVars, monitorVars, migrationVars>>
  \/ /\ scope = "page" /\ Page!PageNext /\ OneDisturbance /\ ThirdMutates
     /\ UNCHANGED <<scope, vars, monitorVars, migrationVars>>
  \/ /\ scope = "monitor" /\ Host!MonitorNext
     /\ UNCHANGED <<scope, vars, pageVars, migrationVars>>
  \/ /\ scope = "migrations" /\ Database!MigrationNext
     /\ UNCHANGED <<scope, vars, pageVars, monitorVars>>

MCSpec == MCInit /\ [][MCNext]_allVars

-----------------------------------------------------------------------------
\* DashboardPage: what the page says was done was done, and nothing stays marked.
PageIsHonest == Page!PageIsHonest

\* Monitor: an alert is recorded when it was told, and told again when it may be lost.
AlertsAreTold == Host!AlertsAreTold

\* Migrations: each is run once, in order, and under the files that the ledger knows.
MigrationsApplyOnce == Database!MigrationsApplyOnce

-----------------------------------------------------------------------------
MCAlerts == <<"health", "journal">>
MCActivateAfter ==
  [health |-> [warning |-> 2, critical |-> 1], journal |-> [warning |-> 1, critical |-> 1]]
MCRecoverAfter == [health |-> 2, journal |-> 1]
MCHistorical == {[version |-> 1, text |-> "b", ledger |-> <<"a", "crlf">>]}
=============================================================================
