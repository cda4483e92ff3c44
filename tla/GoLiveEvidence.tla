---------------------------- MODULE GoLiveEvidence ----------------------------
(***************************************************************************)
(* What the bot knows of one linked member's Go Live stream.  It hears of  *)
(* the stream from gateway events, which queue behind one another, and     *)
(* from reconciliations, which read it from Discord and which a queued     *)
(* event or a tick of the scheduler starts.  The evidence is kept in       *)
(* memory only, and old evidence is no evidence.  Instants are kept as     *)
(* ages in ticks, up to the oldest age that anything tells apart.          *)
(***************************************************************************)
EXTENDS Naturals, Sequences

CONSTANTS
  Nothing,
  Freshness, ReconcileInterval, InterruptionAllowance,
  MaxQueue,     \* bound: gateway events waiting
  MaxToggles    \* bound: the stream is started or stopped

\* What is known of the stream, and a reconciliation that runs.
States == {"active", "inactive", "unknown"}
Evidence == [state : States, age : Nat, seen : Nat]
Reconciliations == [untouched : BOOLEAN, listed : BOOLEAN, answer : States, age : Nat, read : Nat]

ASSUME EvidenceConstants ==
  /\ Nothing \notin Nat \cup Evidence \cup Reconciliations
  /\ {Freshness, ReconcileInterval, InterruptionAllowance, MaxQueue, MaxToggles} \subseteq Nat
  /\ 0 < ReconcileInterval /\ ReconcileInterval < Freshness
  /\ 1 < MaxQueue

VARIABLES
  streaming,      \* the truth: the member streams
  toggled,        \* history: the age of its last change, and
  toggles,        \* how often it changed
  linked,         \* an active link names the member
  queue,          \* gateway events not yet handled
  voice,          \* the evidence of Discord in memory
  interruptedAt,
  reconciliation,
  lastReconciledAt,
  tick            \* a tick waits for the reconciliation

world == <<streaming, toggled, toggles>>
memory == <<voice, interruptedAt>>
vars == <<world, linked, queue, memory, reconciliation, lastReconciledAt, tick>>

-----------------------------------------------------------------------------
\* Ages.

\* What is this old makes no difference: evidence expires, an interruption is not
\* excused, a reconciliation is due, and a late event has been handled.
Oldest == Freshness + InterruptionAllowance + MaxQueue

Older(age) == IF age = Nothing \/ age = Oldest THEN age ELSE age + 1

Within(age, allowance) == age # Nothing /\ age < allowance

-----------------------------------------------------------------------------
\* What is known.

Known == IF voice = Nothing THEN "none" ELSE voice.state

\* Mutant: the age of the evidence is not looked at.
VoiceState_Cached == IF voice = Nothing THEN "unknown" ELSE voice.state

\* What a comparison at this instant takes for the state of the stream.
VoiceState ==
  IF voice = Nothing THEN "unknown"
  ELSE IF voice.age >= Freshness THEN "unknown" ELSE voice.state

\* A process that has just started reconciles.
Fresh(q, v, i, r, l, t) ==
  /\ q = <<[event |-> "reconcile"]>>
  /\ v = Nothing /\ i = Nothing /\ r = Nothing /\ l = Nothing /\ t = FALSE

Init ==
  /\ streaming \in BOOLEAN /\ toggled = Oldest /\ toggles = 0 /\ linked = TRUE
  /\ Fresh(queue, voice, interruptedAt, reconciliation, lastReconciledAt, tick)

-----------------------------------------------------------------------------
\* The world.

Late == reconciliation # Nothing /\ reconciliation.age > 0
Busy == queue # <<>> /\ Head(queue).event # "joined"

\* A tick of the clock is longer than the time a reconciliation is given, and than it
\* takes to handle a queue that does not wait.
TimePasses ==
  /\ ~Late /\ ~Busy
  /\ toggled' = Older(toggled) /\ interruptedAt' = Older(interruptedAt)
  /\ lastReconciledAt' = Older(lastReconciledAt)
  /\ voice' = IF voice = Nothing THEN Nothing ELSE [voice EXCEPT !.age = Older(@)]
  /\ reconciliation' = IF reconciliation = Nothing THEN Nothing
                       ELSE [reconciliation EXCEPT !.age = @ + 1]
  /\ UNCHANGED <<streaming, toggles, linked, queue, tick>>

\* The member starts or stops streaming.  The gateway says so, or the event is lost.
Toggle ==
  /\ toggles < MaxToggles /\ toggles' = toggles + 1
  /\ streaming' = ~streaming /\ toggled' = 0
  /\ \/ /\ Len(queue) < MaxQueue
        /\ queue' = Append(queue, [event |-> "voice", selfStream |-> streaming', seen |-> toggles'])
     \/ UNCHANGED queue
  /\ UNCHANGED <<linked, memory, reconciliation, lastReconciledAt, tick>>

Unlink ==
  /\ linked /\ linked' = FALSE
  /\ UNCHANGED <<world, queue, memory, reconciliation, lastReconciledAt, tick>>

\* The connection to the gateway is lost, resumed or ready.
GatewayEvent ==
  /\ Len(queue) < MaxQueue
  /\ \E event \in {"disconnect", "reconcile"} : queue' = Append(queue, [event |-> event])
  /\ UNCHANGED <<world, linked, memory, reconciliation, lastReconciledAt, tick>>

Restart ==
  /\ Fresh(queue', voice', interruptedAt', reconciliation', lastReconciledAt', tick')
  /\ UNCHANGED <<world, linked>>

-----------------------------------------------------------------------------
\* Events of the gateway, one after another.

\* What is heard of the member, and whether it interrupts a stream.  (seen is history:
\* how often the stream had changed.)
Hear(state, seen) ==
  /\ voice' = [state |-> state, age |-> 0, seen |-> seen]
  /\ interruptedAt' = IF Known = "active" /\ state = "inactive" THEN 0
                      ELSE IF state = "active" THEN Nothing ELSE interruptedAt

\* A running reconciliation finds that something was heard since it began.
Touched == IF reconciliation = Nothing THEN Nothing
           ELSE [reconciliation EXCEPT !.untouched = FALSE]

\* A voice event, stamped when it is handled.
ObserveVoice ==
  /\ queue # <<>> /\ Head(queue).event = "voice"
  /\ Hear(IF Head(queue).selfStream THEN "active" ELSE "inactive", Head(queue).seen)
  /\ reconciliation' = Touched
  /\ queue' = Tail(queue)
  /\ UNCHANGED <<world, linked, lastReconciledAt, tick>>

Disconnect ==
  /\ queue # <<>> /\ Head(queue).event = "disconnect"
  /\ queue' = Tail(queue)
  /\ IF voice = Nothing THEN UNCHANGED <<voice, reconciliation>>
     ELSE /\ voice' = [voice EXCEPT !.state = "unknown", !.age = 0]
          /\ reconciliation' = Touched
  /\ UNCHANGED <<world, linked, interruptedAt, lastReconciledAt, tick>>

-----------------------------------------------------------------------------
\* Reconciliations.

\* A reconciliation of the members with an active link; a running one is shared.
Reconciling ==
  IF reconciliation # Nothing THEN reconciliation
  ELSE [untouched |-> TRUE, listed |-> linked, answer |-> "unknown", age |-> 0, read |-> toggles]

\* The event waits for the reconciliation, or its list of targets cannot be read.
JoinReconciliation ==
  /\ queue # <<>> /\ Head(queue).event = "reconcile"
  /\ \/ queue' = [queue EXCEPT ![1] = [event |-> "joined"]] /\ reconciliation' = Reconciling
     \/ reconciliation = Nothing /\ queue' = Tail(queue) /\ UNCHANGED reconciliation
  /\ UNCHANGED <<world, linked, memory, lastReconciledAt, tick>>

\* A tick of the scheduler reconciles first when that is due.  (A tick that finds
\* another one waiting shares its reconciliation.)
TickReconciles ==
  /\ ~tick /\ linked /\ ~Within(lastReconciledAt, ReconcileInterval)
  /\ tick' = TRUE /\ reconciliation' = Reconciling
  /\ UNCHANGED <<world, linked, queue, memory, lastReconciledAt>>

\* Discord looks the member's voice state up.
ReadVoice ==
  /\ reconciliation # Nothing /\ reconciliation.answer = "unknown"
  /\ reconciliation' = [reconciliation EXCEPT
       !.answer = IF streaming THEN "active" ELSE "inactive", !.read = toggles]
  /\ UNCHANGED <<world, linked, queue, memory, lastReconciledAt, tick>>

\* Mutant: an answer is applied whatever was heard in the meantime.
Applies_Always == reconciliation.listed

\* Only if nothing was heard of the member since the reconciliation began: what is
\* known is what was known then.
Applies == reconciliation.listed /\ reconciliation.untouched

\* The answer arrives, or none does in time; whoever waits goes on.
ReconciliationEnds ==
  /\ reconciliation # Nothing
  /\ \E state \in {reconciliation.answer, "unknown"} :
       IF Applies THEN Hear(state, reconciliation.read) ELSE UNCHANGED memory
  /\ reconciliation' = Nothing /\ lastReconciledAt' = 0 /\ tick' = FALSE
  /\ queue' = IF queue # <<>> /\ Head(queue).event = "joined" THEN Tail(queue) ELSE queue
  /\ UNCHANGED <<world, linked>>

-----------------------------------------------------------------------------
Next ==
  \/ TimePasses \/ Toggle \/ Unlink \/ GatewayEvent \/ Restart
  \/ ObserveVoice \/ Disconnect
  \/ JoinReconciliation \/ TickReconciles \/ ReadVoice \/ ReconciliationEnds

Spec == Init /\ [][Next]_vars

-----------------------------------------------------------------------------
Ages == 0..Oldest
QueueEntries ==
  [event : {"disconnect", "reconcile", "joined"}]
    \cup [event : {"voice"}, selfStream : BOOLEAN, seen : 0..toggles]

\* Types; only the first event waits, and whoever waits has a reconciliation to wait for.
TypeOK ==
  /\ streaming \in BOOLEAN /\ toggled \in Ages /\ toggles \in 0..MaxToggles
  /\ linked \in BOOLEAN /\ tick \in BOOLEAN
  /\ queue \in Seq(QueueEntries) /\ Len(queue) <= MaxQueue
  /\ voice = Nothing \/ voice \in [state : States, age : Ages, seen : 0..toggles]
  /\ {interruptedAt, lastReconciledAt} \subseteq Ages \cup {Nothing}
  /\ reconciliation = Nothing
       \/ reconciliation \in [untouched : BOOLEAN, listed : BOOLEAN, answer : States,
                              age : {0, 1}, read : 0..toggles]
  /\ \A i \in 1..Len(queue) : queue[i].event = "joined" => i = 1 /\ reconciliation # Nothing
  /\ tick => reconciliation # Nothing

\* The age of the last instant at which the stream was in a state.
LastWas(state) ==
  IF (state = "active") = streaming THEN 0 ELSE IF toggles = 0 THEN Oldest ELSE toggled

\* What a comparison takes for the state of the stream was so within the freshness of
\* the evidence and the time an event may wait: a member is neither blamed nor
\* excused on a state further back, whatever events and answers were lost or late.
EvidenceIsRecent ==
  /\ TypeOK
  /\ VoiceState # "unknown" => LastWas(VoiceState) < Freshness + MaxQueue - 1

\* The answer of a reconciliation replaces nothing that was heard of a later stream
\* than the one Discord saw when it was read.
LateReconciliationLoses ==
  [][reconciliation # Nothing /\ reconciliation' = Nothing /\ voice # Nothing /\ voice' # Nothing
       => voice.seen <= voice'.seen]_vars
=============================================================================
