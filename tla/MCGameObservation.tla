-------------------------- MODULE MCGameObservation --------------------------
(***************************************************************************)
(* Small instances, for TLC, of what the schedulers of the bot keep up     *)
(* with at Riot: the games of GameObservation, and the names of the links  *)
(* of RiotLinks.  They share no state, and each scope runs one of them.    *)
(***************************************************************************)
EXTENDS GameObservation, Sequences

CONSTANTS
  Users, Accounts, Names, Operations, BatchSize, PageSize, MaxRenames, MaxFailures,
  Scopes, a1, a2, u1, n1, n2, n3

VARIABLES
  scope,
  riotName, renames, request, riotLink, running, begun, refresh, late, riotRestarts, failures, page

Riot == INSTANCE RiotLinks WITH link <- riotLink, restarts <- riotRestarts

ASSUME LinkConstants == Riot!RiotConstants

riotVars == <<riotName, renames, request, riotLink, running, begun, refresh, late, riotRestarts,
  failures, page>>

FirstName == [a \in Accounts |-> IF a = a1 THEN n1 ELSE n2]

MCInit ==
  /\ scope \in Scopes
  /\ Init
  /\ Riot!RiotInit /\ \A a \in Accounts : riotName[a] = FirstName[a]

\* The operation ids are issued in order, or the last ones first.
Issued(order) == begun' # begun => \E n \in 1..Len(order) : begun' = {order[i] : i \in 1..n}

\* One command at a time.
Alone == begun' # begun =>
  \A o \in Operations : running[o] = Nothing /\ (o \in begun' \ begun => running'[o] # Nothing)

\* Links come and go, accounts are renamed, and the refresh goes on.
LinksChange ==
  \/ \E a \in Accounts, n \in Names : Riot!Rename(a, n)
  \/ Riot!Restart \/ Riot!LateUpdate
  \/ \E o \in Operations : \E n \in Names : Riot!RequestLink(o, u1, n)
  \/ \E o \in Operations : Riot!InsertRequest(o) \/ Riot!AdministratorCommand(o)

MCNext ==
  \/ /\ scope = "games" /\ Next
     \* The bot restarts, or the identity of the link is refreshed.
     /\ restarts' = 0 \/ link'.version = IF link'.active THEN 0 ELSE 1
     /\ UNCHANGED <<scope, riotVars>>
  \/ /\ scope = "links" /\ (LinksChange \/ Riot!Refresh)
     /\ Alone /\ (Issued(<<1, 2, 3, 4>>) \/ Issued(<<1, 4, 3, 2>>))
     /\ UNCHANGED <<scope, vars>>

\* The fairness of both modules, each in its scope.
Observing(action) == scope = "games" /\ action

MCSpec ==
  /\ MCInit /\ [][MCNext]_<<scope, vars, riotVars>>
  /\ WF_vars(Observing(TickBegins)) /\ WF_vars(Observing(PollBegins)) /\ WF_vars(Observing(RiotAnswers))
  /\ SF_vars(Observing(Record)) /\ SF_vars(Observing(Announce))
  /\ WF_riotVars(scope = "links" /\ Riot!Refresh)

-----------------------------------------------------------------------------
\* RiotLinks: the links get the current names of their accounts in the end.
NamesCatchUp == Riot!NamesCatchUp
=============================================================================
