--------------------------- MODULE GameObservation ---------------------------
(***************************************************************************)
(* Observation of the ranked games of one linked member.  Every half       *)
(* minute a tick lists the link and polls Riot for the running game; the   *)
(* answer is compared with what GoLiveEvidence knows of the stream and     *)
(* recorded in one transaction, and the first violation of a game is       *)
(* announced.  The game that is observed, the number of the poll and a     *)
(* violation still to be announced are kept in memory only.                *)
(***************************************************************************)
EXTENDS Naturals, FiniteSets

CONSTANTS
  Games,            \* games the member may play, in order
  Ranked,           \* those of an observed queue
  Nothing,
  StartGrace, InterruptionAllowance,   \* in ticks of the clock
  MaxTime,          \* bound: ticks of the clock
  MaxGeneration,    \* bound: polls of one process that are numbered apart
  MaxRestarts,      \* bound
  MaxVersion        \* bound: identity refreshes of the link

\* The rows of game_incident.
Comparisons == {"compliant", "grace", "interrupted", "violation", "unknown"}
Incidents == [status : {"open", "confirmed", "corrected", "cancelled"}, comparison : Comparisons]

ASSUME ObservationConstants ==
  /\ IsFiniteSet(Games) /\ Games = 1..Cardinality(Games) /\ Ranked \subseteq Games
  /\ Nothing \notin Nat \cup Incidents
  /\ {StartGrace, InterruptionAllowance} \subseteq Nat
  /\ {MaxTime, MaxGeneration, MaxRestarts, MaxVersion} \subseteq Nat

VARIABLES
  now,
  game,         \* the truth: games begun; the last one runs while playing
  playing,
  started,      \* when each game began
  link,         \* riot_account_link: version and whether it is active
  evidence,     \* game_observation: the generations stored for each game
  latest,       \* observed_at of the latest one
  incident,     \* game_incident
  alerts,       \* history: announcements that Discord acknowledged
  tick,         \* a tick that has listed the link
  poll,
  generation,
  activeGame,
  pending,      \* a violation is yet to be announced
  restarts

world == <<now, game, playing, started>>
stored == <<evidence, latest, incident>>
memory == <<tick, poll, generation, activeGame, pending>>
vars == <<world, link, stored, alerts, memory, restarts>>

-----------------------------------------------------------------------------
\* Comparison of the evidence of both sources.

Within(since, allowance) == since # Nothing /\ now - since < allowance

Compare(riot, goLive, gameStartedAt, interruptedAt) ==
  IF riot = "unknown" \/ goLive = "unknown" THEN "unknown"
  ELSE IF riot = "inactive" \/ goLive = "active" THEN "compliant"
  ELSE IF Within(gameStartedAt, StartGrace) THEN "grace"
  ELSE IF Within(interruptedAt, InterruptionAllowance) THEN "interrupted"
  ELSE "violation"

-----------------------------------------------------------------------------
Init ==
  /\ now = 0 /\ game = 0 /\ playing = FALSE /\ started = [g \in Games |-> Nothing]
  /\ link = [version |-> 0, active |-> TRUE]
  /\ evidence = [g \in Games |-> {}] /\ latest = [g \in Games |-> Nothing]
  /\ incident = [g \in Games |-> Nothing] /\ alerts = 0
  /\ tick = Nothing /\ poll = Nothing /\ generation = 0 /\ activeGame = Nothing
  /\ pending = FALSE /\ restarts = 0

-----------------------------------------------------------------------------
\* The world: time, the games and the link.

Asking == poll # Nothing /\ poll.step = "asking"
Recording == poll # Nothing /\ poll.step = "recording"
Announcing == poll # Nothing /\ poll.step = "announcing"

TimePasses ==
  /\ now < MaxTime /\ now' = now + 1
  /\ UNCHANGED <<game, playing, started, link, stored, alerts, memory, restarts>>

GameBegins ==
  /\ ~playing /\ game + 1 \in Games
  /\ game' = game + 1 /\ playing' = TRUE
  /\ started' = [started EXCEPT ![game + 1] = now]
  /\ UNCHANGED <<now, link, stored, alerts, memory, restarts>>

GameEnds ==
  /\ playing /\ playing' = FALSE
  /\ UNCHANGED <<now, game, started, link, stored, alerts, memory, restarts>>

\* The identity behind the link is refreshed, or the member unlinks.
LinkChanges ==
  /\ link.active
  /\ \/ link.version < MaxVersion /\ link' = [link EXCEPT !.version = @ + 1]
     \/ link' = [version |-> link.version + 1, active |-> FALSE]
  /\ UNCHANGED <<world, stored, alerts, memory, restarts>>

\* An administrator corrects or cancels an incident.
Decide(g) ==
  /\ incident[g] # Nothing /\ incident[g].status \in {"open", "confirmed"}
  /\ \E status \in {"corrected", "cancelled"} :
       incident' = [incident EXCEPT ![g].status = status]
  /\ UNCHANGED <<world, link, evidence, latest, alerts, memory, restarts>>

Restart ==
  /\ restarts < MaxRestarts /\ restarts' = restarts + 1
  /\ tick' = Nothing /\ poll' = Nothing /\ generation' = 0 /\ activeGame' = Nothing
  /\ pending' = FALSE
  /\ UNCHANGED <<world, link, stored, alerts>>

-----------------------------------------------------------------------------
\* Polls of Riot.

\* The active links are listed; a reconciliation of the voice evidence may come first.
TickBegins ==
  /\ tick = Nothing /\ link.active
  /\ tick' = [version |-> link.version]
  /\ UNCHANGED <<world, link, stored, alerts, poll, generation, activeGame, pending, restarts>>

\* A link is polled once at a time.
PollBegins ==
  /\ tick # Nothing /\ tick' = Nothing
  /\ IF poll # Nothing THEN UNCHANGED <<poll, generation>>
     ELSE /\ generation' = IF generation < MaxGeneration THEN generation + 1 ELSE generation
          /\ poll' = [step |-> "asking", version |-> tick.version]
  /\ UNCHANGED <<world, link, stored, alerts, activeGame, pending, restarts>>

\* The last part of a poll, whether or not the evidence was stored.
Answered(over) == [step |-> "announcing", over |-> over]

\* Riot names the running game, does not know of one (yet, or any more), or gives no
\* answer that can be used, or not in time.
RiotStates == {"inactive", "unknown"} \cup (IF playing THEN {"active"} ELSE {})

\* The answer is compared at once with what is known of the stream.
RiotAnswers ==
  /\ Asking
  /\ \E riot \in RiotStates, goLive \in {"active", "inactive", "unknown"},
        interruptedAt \in 0..now \cup {Nothing} :
       LET g == IF riot = "active" THEN game ELSE activeGame
           over == riot = "inactive"
       IN  /\ activeGame' = g
           /\ poll' = IF g = Nothing THEN Nothing
                      ELSE IF g \notin Ranked THEN Answered(over)
                      ELSE [step |-> "recording", version |-> poll.version, game |-> g,
                            at |-> now, over |-> over,
                            comparison |-> Compare(riot, goLive, started[g], interruptedAt)]
  /\ UNCHANGED <<world, link, stored, alerts, tick, generation, pending, restarts>>

\* Mutant: the link is only looked at when the tick begins.
Refused_LinkIgnored(p) ==
  \/ latest[p.game] # Nothing /\ latest[p.game] > p.at
  \/ generation \in evidence[p.game]

\* The transaction is refused: the link is another version or gone, or there is newer
\* evidence, or evidence of this generation.
Refused(p) ==
  \/ ~link.active \/ link.version # p.version
  \/ latest[p.game] # Nothing /\ latest[p.game] > p.at
  \/ generation \in evidence[p.game]

\* Mutant: every comparison is written, whatever was decided.
Judged_Overwrites(row, comparison) ==
  [status |-> IF comparison = "violation" THEN "confirmed" ELSE "open", comparison |-> comparison]

\* The incident after a comparison: a decided incident and a violation stay.
Judged(row, comparison) ==
  IF row = Nothing
  THEN [status |-> IF comparison = "violation" THEN "confirmed" ELSE "open",
        comparison |-> comparison]
  ELSE IF row.status # "open" THEN row
  ELSE IF row.comparison = "violation" THEN [row EXCEPT !.status = "confirmed"]
  ELSE [status |-> IF comparison = "violation" THEN "confirmed" ELSE "open",
        comparison |-> comparison]

\* Mutant: every violation counts as the first one.
FirstViolation_Every(row, comparison) == comparison = "violation"

FirstViolation(row, comparison) ==
  /\ comparison = "violation"
  /\ row = Nothing \/ (row.status = "open" /\ row.comparison # "violation")

\* The store refuses, or commits evidence and incident; the answer to the commit may
\* be lost, and then nobody learns of a violation.
Record ==
  /\ Recording
  /\ IF Refused(poll)
     THEN poll' = Answered(poll.over) /\ UNCHANGED <<stored, pending>>
     ELSE /\ evidence' = [evidence EXCEPT ![poll.game] = @ \cup {generation}]
          /\ latest' = [latest EXCEPT ![poll.game] = poll.at]
          /\ incident' = [incident EXCEPT ![poll.game] = Judged(@, poll.comparison)]
          /\ \/ /\ poll' = Answered(poll.over)
                /\ pending' = (pending \/ FirstViolation(incident[poll.game], poll.comparison))
             \/ poll' = Nothing /\ UNCHANGED pending
  /\ UNCHANGED <<world, link, alerts, tick, generation, activeGame, restarts>>

RecordFails ==
  /\ Recording /\ poll' = Nothing
  /\ UNCHANGED <<world, link, stored, alerts, tick, generation, activeGame, pending, restarts>>

\* A violation that is pending is announced with this poll; a game that is over is
\* forgotten.
Announce ==
  /\ Announcing /\ poll' = Nothing
  /\ pending' = FALSE
  /\ alerts' = IF pending THEN alerts + 1 ELSE alerts
  /\ activeGame' = IF poll.over THEN Nothing ELSE activeGame
  /\ UNCHANGED <<world, link, stored, tick, generation, restarts>>

\* Mutant: the game is forgotten although its violation was not announced.
AnnounceFails_Forgets ==
  /\ Announcing /\ pending /\ poll' = Nothing
  /\ activeGame' = IF poll.over THEN Nothing ELSE activeGame
  /\ UNCHANGED <<world, link, stored, alerts, tick, generation, pending, restarts>>

\* Discord refuses the announcement, or its answer is lost: the next poll repeats it.
AnnounceFails ==
  /\ Announcing /\ pending /\ poll' = Nothing
  /\ UNCHANGED <<world, link, stored, alerts, tick, generation, activeGame, pending, restarts>>

-----------------------------------------------------------------------------
Next ==
  \/ TimePasses \/ GameBegins \/ GameEnds \/ LinkChanges \/ Restart
  \/ \E g \in Games : Decide(g)
  \/ TickBegins \/ PollBegins \/ RiotAnswers \/ Record \/ RecordFails
  \/ Announce \/ AnnounceFails

\* The timers of the process begin ticks and end reconciliations and requests to Riot.
\* Of repeated requests to the database and of repeated announcements one succeeds.
Fairness ==
  /\ WF_vars(TickBegins) /\ WF_vars(PollBegins) /\ WF_vars(RiotAnswers)
  /\ SF_vars(Record) /\ SF_vars(Announce)

Spec == Init /\ [][Next]_vars /\ Fairness

-----------------------------------------------------------------------------
Times == Nat \cup {Nothing}
Polls ==
  [step : {"asking"}, version : Nat]
    \cup [step : {"recording"}, version : Nat, game : Ranked, at : Nat, over : BOOLEAN,
          comparison : Comparisons]
    \cup [step : {"announcing"}, over : BOOLEAN]

\* Types; a poll that has its answer has a game, and so has a violation that is still
\* to be announced: without one no poll would get that far.
TypeOK ==
  /\ now \in Nat /\ playing \in BOOLEAN /\ alerts \in Nat /\ restarts \in Nat
  /\ game \in Games \cup {0} /\ started \in [Games -> Times]
  /\ playing => game \in Games
  /\ link \in [version : Nat, active : BOOLEAN]
  /\ evidence \in [Games -> SUBSET Nat] /\ latest \in [Games -> Times]
  /\ incident \in [Games -> Incidents \cup {Nothing}]
  /\ tick \in [version : Nat] \cup {Nothing} /\ poll \in Polls \cup {Nothing}
  /\ generation \in 0..MaxGeneration /\ pending \in BOOLEAN
  /\ activeGame \in Games \cup {Nothing}
  /\ Recording \/ Announcing \/ pending => activeGame # Nothing

Violated == {g \in Games : incident[g] # Nothing /\ incident[g].comparison = "violation"}

\* One acknowledged announcement for the first violation of a game: not for later
\* polls of the same game, after a correction, or after a restart.
AnnouncedOnce == alerts + (IF pending THEN 1 ELSE 0) <= Cardinality(Violated)

\* What an administrator decided stays, and so does a recorded violation, whatever
\* is still observed of the game.
VerdictsStay ==
  [][\A g \in Games : incident[g] # Nothing =>
       /\ incident[g].status \in {"corrected", "cancelled"} => incident'[g] = incident[g]
       /\ incident[g].comparison = "violation" => incident'[g].comparison = "violation"
       /\ incident[g].status = "confirmed" => incident'[g].status # "open"]_vars

\* A member who unlinked is no longer observed, not even by a poll that listed the
\* link before.
UnlinkedIsUnobserved == [][~link.active => UNCHANGED <<evidence, latest>>]_vars

\* Liveness: an announcement that fails is made again, until it succeeds, the bot
\* restarts or the member unlinks.
ViolationsGetAnnounced == (pending /\ link.active) ~> (~pending \/ ~link.active)
=============================================================================
