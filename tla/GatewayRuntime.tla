--------------------------- MODULE GatewayRuntime ---------------------------
(***************************************************************************)
(* The bot and Discord: events of the connection are handled one at a      *)
(* time; after each "ready" the members of the server are reconciled, in   *)
(* attempts that are raced against a deadline and go on when they lose;    *)
(* an attempt also ends the betting enrolments of members it did not see.  *)
(* Departures are told by events too, which get lost while the connection  *)
(* is down.  A signal stops all this in an order, and frees the lease.     *)
(***************************************************************************)
EXTENDS Naturals, Sequences, FiniteSets

CONSTANTS
  Members,        \* ids at Discord, in the server or not
  Attempts,       \* the attempts to reconcile, by number
  Tries,          \* attempts for one "ready"
  None,
  MaxConnects,    \* bound: how often the connection comes up
  MaxChanges,     \* bound: joins and departures
  MaxEnrollments  \* bound: enrolments of a member

GatewayConstants ==
  /\ Tries \in Nat \ {0} /\ MaxConnects \in Nat /\ MaxChanges \in Nat /\ MaxEnrollments \in Nat
  /\ IsFiniteSet(Attempts) /\ Attempts \subseteq Nat

VARIABLES
  online,         \* is the connection to Discord up
  connects,       \* how often it came up
  present,        \* members of the server
  changes,        \* how many joins and departures there were
  events,         \* gateway events to handle
  handling,       \* what the event in hand waits for
  lifecycle, generation, reconciliation,
  published,      \* whose roles the runtime knows
  attempt,        \* the running attempts
  leaves,         \* departure events to handle
  asked,          \* members whose command to enrol waits in the queue
  enrollment,     \* the active enrolment of a member: its number, or none
  enrollments,    \* how many a member had
  left,           \* members who left since they enrolled
  basis,          \* what the published roles were read from: members, and enrolments then
  stop            \* how far the bot has stopped

discord == <<online, connects, present, changes>>
runtime == <<lifecycle, generation, reconciliation, published, basis>>
betting == <<leaves, asked, enrollment, enrollments, left>>
gatewayVars == <<discord, events, handling, runtime, attempt, betting, stop>>

-----------------------------------------------------------------------------
NoBasis == [members |-> Members, enrollment |-> [m \in Members |-> 0]]

GatewayInit ==
  /\ online = FALSE /\ connects = 0 /\ present \in SUBSET Members /\ changes = 0
  /\ events = <<>> /\ handling = None
  /\ lifecycle = "connecting" /\ generation = 0 /\ reconciliation = "unknown"
  /\ published = {} /\ basis = NoBasis
  /\ attempt = [a \in Attempts |-> None]
  /\ leaves = <<>> /\ asked = {} /\ left = Members \ present
  /\ enrollments \in [Members -> {0, 1}] /\ enrollment = enrollments
  /\ stop = "no"

Running == stop \notin {"exited", "retained"}
Listening == stop \in {"no", "departures", "commands"}

\* The adapter publishes events until it is detached.
Publishes(event) == events' = IF Listening THEN Append(events, event) ELSE events

Connect ==
  /\ ~online /\ connects < MaxConnects /\ stop \in {"no", "departures", "commands", "runtime"}
  /\ online' = TRUE /\ connects' = connects + 1
  /\ Publishes("ready")
  /\ UNCHANGED <<present, changes, handling, runtime, attempt, betting, stop>>

Disconnect ==
  /\ online /\ online' = FALSE
  /\ Publishes("disconnected")
  /\ UNCHANGED <<connects, present, changes, handling, runtime, attempt, betting, stop>>

-----------------------------------------------------------------------------
\* GatewayRuntime.accept, for the event at the head of the queue.

Free == CHOOSE a \in Attempts : attempt[a] = None /\ \A b \in Attempts : attempt[b] = None => a <= b

\* An attempt starts, and is the one that is awaited.
Starts(try, ofGeneration) ==
  /\ \E a \in Attempts : attempt[a] = None
  /\ attempt' = [attempt EXCEPT ![Free] = [step |-> "fetch"]]
  /\ handling' = [for |-> "attempt", awaits |-> Free, try |-> try, generation |-> ofGeneration]

AcceptReady ==
  /\ handling = None /\ events # <<>> /\ Head(events) = "ready" /\ Running
  /\ events' = Tail(events)
  /\ IF lifecycle \in {"stopping", "stopped"} THEN UNCHANGED <<runtime, attempt, handling>>
     ELSE /\ lifecycle' = "ready"
          /\ generation' = generation + 1
          /\ reconciliation' = "unknown"
          /\ Starts(1, generation + 1)
          /\ UNCHANGED <<published, basis>>
  /\ UNCHANGED <<discord, betting, stop>>

\* The runtime forgets everything and sleeps; discord.js itself reconnects.
AcceptDisconnected ==
  /\ handling = None /\ events # <<>> /\ Head(events) = "disconnected" /\ Running
  /\ events' = Tail(events)
  /\ IF lifecycle \in {"stopping", "stopped"} THEN UNCHANGED <<runtime, handling>>
     ELSE /\ lifecycle' = "reconnecting"
          /\ reconciliation' = "unknown" /\ published' = {} /\ basis' = NoBasis
          /\ handling' = [for |-> "delay"]
          /\ UNCHANGED generation
  /\ UNCHANGED <<discord, attempt, betting, stop>>

EndDelay ==
  /\ handling # None /\ handling.for = "delay" /\ Running
  /\ handling' = None
  /\ UNCHANGED <<discord, events, runtime, attempt, betting, stop>>

-----------------------------------------------------------------------------
\* reconcileMembers of main: one attempt.

At(a, step) == Running /\ attempt[a] # None /\ attempt[a].step = step
Moves(a, to) == attempt' = [attempt EXCEPT ![a] = to]
Awaited(a) == handling # None /\ handling.for = "attempt" /\ handling.awaits = a
Quietly == UNCHANGED <<discord, events, handling, runtime, leaves, asked, enrollments, left, stop>>

\* The members come from Discord: from now on, others count as gone.
FetchMembers(a) ==
  /\ At(a, "fetch") /\ online
  /\ Moves(a, [step |-> "labels", members |-> present, before |-> enrollment])
  /\ Quietly /\ UNCHANGED enrollment

RefreshLabels(a) ==
  /\ At(a, "labels") /\ Moves(a, [attempt[a] EXCEPT !.step = "list"])
  /\ Quietly /\ UNCHANGED enrollment

\* listActiveDiscordUserIds, after all that.
ListActive(a) ==
  /\ At(a, "list")
  /\ Moves(a, [step |-> "depart", members |-> attempt[a].members, before |-> attempt[a].before,
               gone |-> {m \in Members : enrollment[m] # 0} \ attempt[a].members])
  /\ Quietly /\ UNCHANGED enrollment

\* Whatever enrolment the member has now ends.
Departs(m) == enrollment' = [enrollment EXCEPT ![m] = 0]

DepartGone(a, m) ==
  /\ At(a, "depart") /\ m \in attempt[a].gone
  /\ Departs(m)
  /\ Moves(a, [attempt[a] EXCEPT !.gone = @ \ {m}])
  /\ Quietly

\* Mutant: a departure that fails is passed over.
AttemptFails_PassedOver(a) ==
  /\ At(a, "depart") /\ attempt[a].gone # {}
  /\ \E m \in attempt[a].gone : Moves(a, [attempt[a] EXCEPT !.gone = @ \ {m}])
  /\ Quietly /\ UNCHANGED enrollment

\* Discord or PostgreSQL fails, and the attempt with it.
AttemptFails(a) ==
  /\ Running /\ attempt[a] # None /\ attempt[a].step # "done"
  /\ ~(attempt[a].step = "depart" /\ attempt[a].gone = {})
  /\ Moves(a, IF Awaited(a) THEN [step |-> "failed"] ELSE None)
  /\ Quietly /\ UNCHANGED enrollment

Complete(a) == At(a, "depart") /\ attempt[a].gone = {}

\* An attempt that lost its race ends unheard.
EndUnheard(a) ==
  /\ Complete(a) /\ ~Awaited(a)
  /\ Moves(a, None)
  /\ Quietly /\ UNCHANGED enrollment

\* Mutant: what an attempt finds is published whatever happened meanwhile.
Current_Always == TRUE

\* The runtime has neither stopped nor seen another event since.
Current == handling.generation = generation /\ lifecycle = "ready"

Publish(a) ==
  /\ Complete(a) /\ Awaited(a)
  /\ IF Current
     THEN /\ published' = attempt[a].members /\ reconciliation' = "current"
          /\ basis' = [members |-> attempt[a].members, enrollment |-> attempt[a].before]
     ELSE UNCHANGED <<published, reconciliation, basis>>
  /\ Moves(a, None) /\ handling' = None
  /\ UNCHANGED <<discord, events, lifecycle, generation, betting, stop>>

\* An awaited attempt fails, or its deadline passes first and it goes on; another one
\* follows after a delay, and the last one's failure is the runtime's.
Gives(a) ==
  IF handling.try < Tries
  THEN /\ handling' = [for |-> "retry", try |-> handling.try + 1, generation |-> handling.generation]
       /\ UNCHANGED runtime
  ELSE /\ handling' = None
       /\ IF handling.generation = generation
          THEN reconciliation' = "failed" /\ published' = {} /\ basis' = NoBasis
          ELSE UNCHANGED <<reconciliation, published, basis>>
       /\ UNCHANGED <<lifecycle, generation>>

AttemptFailed(a) ==
  /\ Awaited(a) /\ At(a, "failed")
  /\ Moves(a, None) /\ Gives(a)
  /\ UNCHANGED <<discord, events, betting, stop>>

Timeout(a) ==
  /\ Awaited(a) /\ Running /\ attempt[a].step # "failed"
  /\ Gives(a)
  /\ UNCHANGED <<discord, events, attempt, betting, stop>>

Retry ==
  /\ handling # None /\ handling.for = "retry" /\ Running
  /\ Starts(handling.try, handling.generation)
  /\ UNCHANGED <<discord, events, runtime, betting, stop>>

-----------------------------------------------------------------------------
\* The server.  A departure is told to who listens, if the connection is up.  (One that Discord
\* tells later, with a resumed session, counts as happening then.)
Leave(m) ==
  /\ m \in present /\ changes < MaxChanges
  /\ present' = present \ {m} /\ changes' = changes + 1
  /\ left' = left \cup {m}
  /\ leaves' = IF online /\ stop = "no" THEN Append(leaves, m) ELSE leaves
  /\ UNCHANGED <<online, connects, events, handling, runtime, attempt, asked, enrollment,
                 enrollments, stop>>

Join(m) ==
  /\ m \notin present /\ changes < MaxChanges
  /\ present' = present \cup {m} /\ changes' = changes + 1
  /\ UNCHANGED <<online, connects, events, handling, runtime, attempt, betting, stop>>

\* attachKboDepartureSync: one departure after the other; one that fails is dropped.
DepartLeft ==
  /\ leaves # <<>> /\ Running
  /\ leaves' = Tail(leaves)
  /\ Departs(Head(leaves)) \/ UNCHANGED enrollment
  /\ UNCHANGED <<discord, events, handling, runtime, attempt, asked, enrollments, left, stop>>

\* A member asks to enrol; the command waits for those before it.
AskToEnroll(m) ==
  /\ m \in present \ asked /\ online /\ stop \in {"no", "departures"}
  /\ enrollments[m] < MaxEnrollments
  /\ asked' = asked \cup {m}
  /\ UNCHANGED <<discord, events, handling, runtime, attempt, leaves, enrollment, enrollments,
                 left, stop>>

Enroll(m) ==
  /\ m \in asked /\ Running
  /\ asked' = asked \ {m}
  /\ IF enrollment[m] # 0 THEN UNCHANGED <<enrollment, enrollments, left>>
     ELSE /\ enrollments' = [enrollments EXCEPT ![m] = @ + 1]
          /\ enrollment' = [enrollment EXCEPT ![m] = enrollments'[m]]
          /\ left' = IF m \in present THEN left \ {m} ELSE left
  /\ UNCHANGED <<discord, events, handling, runtime, attempt, leaves, stop>>

-----------------------------------------------------------------------------
\* A signal: departures are no longer listened to, and those there are are handled ...
BeginStop ==
  /\ stop = "no" /\ stop' = "departures"
  /\ UNCHANGED <<discord, events, handling, runtime, attempt, betting>>

\* ... then the same for commands ...
StopCommands ==
  /\ stop = "departures" /\ leaves = <<>> /\ stop' = "commands"
  /\ UNCHANGED <<discord, events, handling, runtime, attempt, betting>>

\* ... then GatewayRuntime.stop, which forgets what it published ...
StopRuntime ==
  /\ stop = "commands" /\ asked = {} /\ stop' = "runtime"
  /\ lifecycle' = "stopping" /\ generation' = generation + 1
  /\ reconciliation' = "unknown" /\ published' = {} /\ basis' = NoBasis
  /\ UNCHANGED <<discord, events, handling, attempt, betting>>

\* Mutant: the client is destroyed while an event is still in hand.
Drained_Queued == events = <<>>

\* The adapter waits for its events.
Drained == events = <<>> /\ handling = None

\* ... and when no event is left the client is destroyed and the lease freed.
ReleaseLease ==
  /\ stop = "runtime" /\ Drained /\ stop' = "released"
  /\ online' = FALSE /\ lifecycle' = "stopped"
  /\ UNCHANGED <<connects, present, changes, events, handling, generation, reconciliation,
                 published, basis, attempt, betting>>

\* Or that takes too long: the process ends and leaves its lease file behind.
Exit ==
  /\ \/ stop = "released" /\ stop' = "exited"
     \/ stop = "runtime" /\ stop' = "retained"
  /\ online' = FALSE /\ attempt' = [a \in Attempts |-> None]
  /\ events' = <<>> /\ handling' = None
  /\ UNCHANGED <<connects, present, changes, runtime, betting>>

-----------------------------------------------------------------------------
ReconcileStep(a) ==
  \/ FetchMembers(a) \/ RefreshLabels(a) \/ ListActive(a) \/ (\E m \in Members : DepartGone(a, m))
  \/ AttemptFails(a) \/ EndUnheard(a) \/ Publish(a) \/ AttemptFailed(a) \/ Timeout(a)

MemberStep(m) == Leave(m) \/ Join(m) \/ AskToEnroll(m) \/ Enroll(m)

GatewayNext ==
  \/ Connect \/ Disconnect
  \/ AcceptReady \/ AcceptDisconnected \/ EndDelay
  \/ (\E a \in Attempts : ReconcileStep(a)) \/ Retry
  \/ DepartLeft \/ \E m \in Members : MemberStep(m)
  \/ BeginStop \/ StopCommands \/ StopRuntime \/ ReleaseLease \/ Exit

GatewaySpec == GatewayInit /\ [][GatewayNext]_gatewayVars

-----------------------------------------------------------------------------
\* While the runtime says that its members are current, nobody whom the reconciliation
\* did not see holds the enrolment that they had at the time: whatever failed, was tried
\* again, lost its race or was overtaken by events.
CurrentMeansDeparted ==
  reconciliation = "current" =>
    \A m \in Members \ basis.members :
      basis.enrollment[m] = 0 \/ enrollment[m] # basis.enrollment[m]

\* A bot that has begun to destroy its client knows and publishes nobody's role any more,
\* whichever attempt ends late; it frees its lease when no event is in hand and it is off
\* line, and is not on line ever after.
StoppedBotIsSilent ==
  /\ stop \notin {"no", "departures", "commands"} => reconciliation = "unknown" /\ published = {}
  /\ stop \in {"released", "exited"} => ~online /\ events = <<>> /\ handling = None /\ asked = {}

\* Action property: an enrolment is ended for nobody but a member who is absent or has
\* left since (the enrolment ends by leaving the server, and only so).
OnlyLeaversDepart ==
  [][\A m \in Members : enrollment[m] # 0 /\ enrollment'[m] = 0 => m \notin present \/ m \in left]_gatewayVars
=============================================================================
