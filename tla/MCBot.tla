------------------------------- MODULE MCBot -------------------------------
(***************************************************************************)
(* Small instances, for TLC, of what the bot does beside bets and games:   *)
(* the evidence of streams (GoLiveEvidence), its connection                *)
(* (GatewayRuntime), links (RiotLinks) and summaries (Summaries).  They    *)
(* share no state, and each scope runs one of them.                        *)
(***************************************************************************)
EXTENDS GoLiveEvidence, FiniteSets

CONSTANTS
  Users, Accounts, Names, Operations, BatchSize, PageSize, MaxRenames, MaxFailures,
  Members, Attempts, Tries, None, MaxConnects, MaxChanges, MaxEnrollments,
  Interactions, Asker, Spans, Ids, PageLimit, Capacity, Hour, MaxTime, MaxDeliveries,
  MaxDeletions, MaxRestarts,
  Scopes, a1, a2, u1, u2, n1, n2, n3, i1, i2, m1

VARIABLES
  scope,
  riotName, renames, request, link, running, begun, refresh, late, restarts, failures, page,
  online, connects, present, changes, events, handling, lifecycle, generation, roles,
  published, attempt, leaves, asked, enrollment, enrollments, left, basis, stop,
  now, posted, channel, inbox, deliveries, command, unsettled, reservation, audited, provided,
  answered, stops

Riot == INSTANCE RiotLinks
Gateway == INSTANCE GatewayRuntime WITH reconciliation <- roles
Summary == INSTANCE Summaries

ASSUME BotConstants ==
  Riot!RiotConstants /\ Gateway!GatewayConstants /\ Summary!SummaryConstants

riotVars == <<riotName, renames, request, link, running, begun, refresh, late, restarts, failures, page>>
gatewayVars == <<online, connects, present, changes, events, handling, lifecycle, generation,
  roles, published, attempt, leaves, asked, enrollment, enrollments, left, basis, stop>>
summaryVars == <<now, posted, channel, inbox, deliveries, command, unsettled, reservation, audited,
  provided, answered, stops>>
botVars == <<scope, vars, riotVars, gatewayVars, summaryVars>>

FirstName == [a \in Accounts |-> IF a = a1 THEN n1 ELSE n2]

MCInit ==
  /\ scope \in Scopes
  /\ Init /\ streaming = FALSE
  /\ Riot!RiotInit /\ \A a \in Accounts : riotName[a] = FirstName[a]
  /\ Gateway!GatewayInit
  /\ Summary!SummaryInit
  /\ \A m \in Members : IF scope = "gateway" THEN m \in present \/ enrollments[m] = 1
                          ELSE m \notin present /\ enrollments[m] = 0
  /\ scope = "history" \/ (channel = {1} /\ posted[1] = Hour - 1)

-----------------------------------------------------------------------------
\* Links.  The operation ids are issued in order.
InOrder == begun' # begun => \E n \in Operations : begun' = 1..n

Commands ==
  \/ \E a \in Accounts, n \in Names : Riot!Rename(a, n)
  \/ \E o \in Operations : Riot!MemberCommand(o) \/ Riot!AdministratorCommand(o) \/ Riot!Fail(o)

\* Members and administrators; the refresh rests.  Members are alike: u1 asks first.
Approvals ==
  /\ scope = "approvals" /\ Commands /\ InOrder
  /\ running'[1] # Nothing /\ running'[1].step = "request" => running'[1].user = u1

\* One page after the other, while requests are made and rejected.
Paging ==
  /\ scope = "paging"
  /\ \/ Riot!ShowPage
     \/ \E o \in Operations :
          \/ \E n \in Names : Riot!RequestLink(o, u1, n)
          \/ Riot!InsertRequest(o) \/ \E q \in Operations : Riot!Reject(o, q)
  /\ InOrder

\* The ids are issued in order, or the last ones first.
IssuedIn(order) == begun' # begun => \E n \in 1..Len(order) : begun' = {order[i] : i \in 1..n}

\* One command at a time.
Alone == begun' # begun =>
  \A o \in Operations : running[o] = Nothing /\ (o \in begun' \ begun => running'[o] # Nothing)

\* Links come and go, accounts are renamed, and the refresh goes on.
Refreshing ==
  /\ scope = "links"
  /\ \/ \E a \in Accounts, n \in Names : Riot!Rename(a, n)
     \/ Riot!Restart \/ Riot!LateUpdate \/ Riot!Refresh
     \/ \E o \in Operations : \E n \in Names : Riot!RequestLink(o, u1, n)
     \/ \E o \in Operations : Riot!InsertRequest(o) \/ Riot!AdministratorCommand(o)
  /\ Alone /\ (IssuedIn(<<1, 2, 3, 4>>) \/ IssuedIn(<<1, 4, 3, 2>>))

\* Two interactions of one member: their reservations, of one message.  The interactions are
\* alike: i1 is delivered first.
Reserving ==
  /\ scope = "quota"
  /\ Summary!SummaryNext /\ channel' = channel
  /\ deliveries'[i1] = 0 => deliveries'[i2] = 0

\* One interaction, and what is said meanwhile.
Reading ==
  /\ scope = "history"
  /\ Summary!SummaryNext /\ stops' = 0 /\ \A i \in Interactions : deliveries'[i] <= IF i = i1 THEN 1 ELSE 0

MCNext ==
  \/ /\ scope = "streams" /\ Next
     /\ UNCHANGED <<scope, riotVars, gatewayVars, summaryVars>>
  \/ /\ Approvals \/ Paging \/ Refreshing
     /\ UNCHANGED <<scope, vars, gatewayVars, summaryVars>>
  \/ /\ scope = "gateway" /\ Gateway!GatewayNext
     /\ UNCHANGED <<scope, vars, riotVars, summaryVars>>
  \/ /\ Reserving \/ Reading
     /\ UNCHANGED <<scope, vars, riotVars, gatewayVars>>

MCSpec == MCInit /\ [][MCNext]_botVars

-----------------------------------------------------------------------------
\* RiotLinks: what approvals that run at once, fail and race each other leave.
LinksAreApproved == Riot!LinksAreApproved

\* RiotLinks: paging to the end shows every request that is pending all the while.
PagesMissNothing == Riot!PagesMissNothing

\* RiotLinks: no stored name is replaced by an earlier one, and none is removed unseen.
LinksChangeAsSeen == Riot!LinksChangeAsSeen

\* GatewayRuntime: who was not seen keeps no enrolment of before.
CurrentMeansDeparted == Gateway!CurrentMeansDeparted

\* GatewayRuntime: a bot that stops publishes no roles, and frees its lease last.
StoppedBotIsSilent == Gateway!StoppedBotIsSilent

\* GatewayRuntime: an enrolment ends for members who have left, only.
OnlyLeaversDepart == Gateway!OnlyLeaversDepart

\* Summaries: the messages of one interaction per member and hour are sent away.
OneSummaryPerHour == Summary!OneSummaryPerHour

\* Summaries: a summary is of everything that was said in its range and stayed.
SummaryIsWhole == Summary!SummaryIsWhole

-----------------------------------------------------------------------------
MCAsker == [i \in {i1, i2} |-> u1]
OneToTwo == 1..2
OneToFour == 1..4
=============================================================================
