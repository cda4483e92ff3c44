------------------------ MODULE GameObservationProofs ------------------------
(***************************************************************************)
(* Theorems about GameObservation, for every value of its constants.       *)
(***************************************************************************)
EXTENDS GameObservation, FiniteSetTheorems, TLAPS

\* Games are numbers, and so differ from Nothing.
LEMMA GamesAreNumbers == Games \subseteq Nat /\ Nothing \notin Games /\ 0 \notin Games
  BY FS_CardinalityType, ObservationConstants DEF ObservationConstants

\* A comparison of whatever evidence is one of the five.
LEMMA CompareType ==
  ASSUME NEW riot, NEW goLive, NEW since, NEW interrupted
  PROVE  Compare(riot, goLive, since, interrupted) \in Comparisons
  BY DEF Compare, Comparisons

\* A poll that has its answer is known by its step.
LEMMA PollType ==
  ASSUME TypeOK
  PROVE  /\ Asking => poll.version \in Nat
         /\ Recording => /\ poll.version \in Nat /\ poll.game \in Ranked /\ poll.at \in Nat
                         /\ poll.over \in BOOLEAN /\ poll.comparison \in Comparisons
         /\ Announcing => poll.over \in BOOLEAN
  BY DEF TypeOK, Polls, Asking, Recording, Announcing

\* A comparison judged on a typed incident gives a typed incident.
LEMMA JudgedType ==
  ASSUME NEW row \in Incidents \cup {Nothing}, NEW comparison \in Comparisons
  PROVE  Judged(row, comparison) \in Incidents
  BY DEF Judged, Incidents

\* The tables and the memory of a new bot are empty.
LEMMA InitType == Init => TypeOK
  <1> SUFFICES ASSUME Init PROVE TypeOK
    OBVIOUS
  <1>1. 0 \in 0..MaxGeneration
    BY ObservationConstants DEF ObservationConstants
  <1>2. ~Recording /\ ~Announcing
    BY DEF Init, Recording, Announcing
  <1>3. [version |-> 0, active |-> TRUE] \in [version : Nat, active : BOOLEAN]
    OBVIOUS
  <1> QED
    BY <1>1, <1>2, <1>3 DEF Init, TypeOK, Times

\* Every step keeps the types.
LEMMA NextType ==
  ASSUME TypeOK, [Next]_vars
  PROVE  TypeOK'
  <1> USE ObservationConstants DEF ObservationConstants
  <1>1. CASE UNCHANGED vars
    BY <1>1 DEF TypeOK, vars, world, stored, memory, Recording, Announcing
  <1>2. ASSUME UNCHANGED <<stored, alerts, memory, restarts>>,
               now' \in Nat, playing' \in BOOLEAN, game' \in Games \cup {0},
               playing' => game' \in Games, started' \in [Games -> Times],
               link' \in [version : Nat, active : BOOLEAN]
        PROVE  TypeOK'
    BY <1>2 DEF TypeOK, stored, memory, Recording, Announcing
  <1>2a. CASE TimePasses
    BY <1>2, <1>2a DEF TypeOK, TimePasses
  <1>2b. CASE GameBegins
    <2>1. [started EXCEPT ![game + 1] = now] \in [Games -> Times]
      BY <1>2b DEF TypeOK, GameBegins, Times
    <2> QED
      BY <1>2, <1>2b, <2>1 DEF TypeOK, GameBegins
  <1>2c. CASE GameEnds
    BY <1>2, <1>2c DEF TypeOK, GameEnds
  <1>2d. CASE LinkChanges
    <2>1. [link EXCEPT !.version = link.version + 1] \in [version : Nat, active : BOOLEAN]
          /\ [version |-> link.version + 1, active |-> FALSE] \in [version : Nat, active : BOOLEAN]
      BY DEF TypeOK
    <2>2. link' \in [version : Nat, active : BOOLEAN]
      BY <1>2d, <2>1 DEF LinkChanges
    <2> QED
      BY <1>2, <1>2d, <2>2 DEF TypeOK, LinkChanges, world
  <1>3. CASE Restart
    <2>1. ~Recording' /\ ~Announcing' /\ 0 \in 0..MaxGeneration /\ restarts' \in Nat
      BY <1>3 DEF Restart, Recording, Announcing, TypeOK
    <2> QED
      BY <1>3, <2>1 DEF TypeOK, Restart, world, stored
  <1>4. ASSUME NEW g \in Games, Decide(g) PROVE TypeOK'
    <2>1. \A status \in {"corrected", "cancelled"} :
            [incident EXCEPT ![g].status = status] \in [Games -> Incidents \cup {Nothing}]
      BY <1>4 DEF TypeOK, Decide, Incidents
    <2> QED
      BY <1>4, <2>1 DEF TypeOK, Decide, world, memory, Recording, Announcing
  <1>5. CASE TickBegins \/ PollBegins
    <2>1. tick' \in [version : Nat] \cup {Nothing} /\ generation' \in 0..MaxGeneration
      BY <1>5 DEF TypeOK, TickBegins, PollBegins
    <2>2. poll' = poll \/ (poll' = [step |-> "asking", version |-> tick.version]
                            /\ tick \in [version : Nat])
      BY <1>5 DEF TypeOK, TickBegins, PollBegins
    <2>3. /\ poll' \in Polls \cup {Nothing}
          /\ Recording' => Recording
          /\ Announcing' => Announcing
      BY <2>2 DEF TypeOK, Polls, Recording, Announcing
    <2>4. UNCHANGED <<world, link, stored, alerts, activeGame, pending, restarts>>
      BY <1>5 DEF TickBegins, PollBegins
    <2> QED
      BY <2>1, <2>3, <2>4 DEF TypeOK, world, stored
  <1>6. CASE RiotAnswers
    <2>1. PICK riot \in RiotStates, goLive \in {"active", "inactive", "unknown"},
               interruptedAt \in 0..now \cup {Nothing} :
            LET g == IF riot = "active" THEN game ELSE activeGame
                over == riot = "inactive"
            IN  /\ activeGame' = g
                /\ poll' = IF g = Nothing THEN Nothing
                           ELSE IF g \notin Ranked THEN Answered(over)
                           ELSE [step |-> "recording", version |-> poll.version, game |-> g,
                                 at |-> now, over |-> over,
                                 comparison |-> Compare(riot, goLive, started[g], interruptedAt)]
      BY <1>6 DEF RiotAnswers
    <2>2. activeGame' \in Games \cup {Nothing} /\ (activeGame # Nothing => activeGame' # Nothing)
      BY <2>1, GamesAreNumbers DEF RiotStates, TypeOK
    <2>3. poll.version \in Nat /\ now \in Nat
      BY <1>6, PollType DEF RiotAnswers, TypeOK
    <2>4. poll' \in Polls \cup {Nothing} /\ (poll' # Nothing => activeGame' # Nothing)
      BY <2>1, <2>2, <2>3, CompareType DEF Answered, Polls
    <2> QED
      BY <1>6, <2>2, <2>4 DEF TypeOK, RiotAnswers, world, stored, Recording, Announcing
  <1>7. CASE Record
    <2>1. /\ poll.game \in Games /\ poll.game \in Ranked /\ poll.at \in Nat
          /\ poll.comparison \in Comparisons /\ poll.over \in BOOLEAN
      BY <1>7, PollType DEF Record
    <2>2. Answered(poll.over) \in Polls
      BY <2>1 DEF Answered, Polls
    <2>3. poll' \in Polls \cup {Nothing} /\ pending' \in BOOLEAN
      BY <1>7, <2>2 DEF Record, TypeOK, FirstViolation
    <2>4. evidence' \in [Games -> SUBSET Nat] /\ latest' \in [Games -> Times]
      <3>1. CASE UNCHANGED stored
        BY <3>1 DEF TypeOK, stored
      <3>2. CASE /\ evidence' = [evidence EXCEPT ![poll.game] = @ \cup {generation}]
                 /\ latest' = [latest EXCEPT ![poll.game] = poll.at]
        <4>1. evidence[poll.game] \cup {generation} \in SUBSET Nat
          BY <2>1 DEF TypeOK
        <4> QED
          BY <2>1, <3>2, <4>1 DEF TypeOK, Times
      <3> QED
        BY <1>7, <3>1, <3>2 DEF Record
    <2>5. Judged(incident[poll.game], poll.comparison) \in Incidents
      BY <2>1, JudgedType DEF TypeOK
    <2>6. incident' \in [Games -> Incidents \cup {Nothing}]
      BY <1>7, <2>1, <2>5 DEF Record, TypeOK, stored
    <2>7. activeGame' = activeGame /\ activeGame # Nothing
      BY <1>7 DEF Record, TypeOK
    <2> QED
      BY <1>7, <2>3, <2>4, <2>6, <2>7 DEF TypeOK, Record, world, Recording, Announcing
  <1>8. CASE RecordFails
    BY <1>8 DEF TypeOK, RecordFails, world, stored, Recording, Announcing
  <1>9. CASE Announce
    <2>1. alerts' \in Nat /\ pending' = FALSE /\ poll' = Nothing
      BY <1>9 DEF TypeOK, Announce
    <2>2. activeGame' \in Games \cup {Nothing}
      BY <1>9 DEF TypeOK, Announce
    <2>3. ~Recording' /\ ~Announcing'
      BY <2>1 DEF Recording, Announcing
    <2>4. UNCHANGED <<world, link, stored, tick, generation, restarts>>
      BY <1>9 DEF Announce
    <2> QED
      BY <2>1, <2>2, <2>3, <2>4 DEF TypeOK, world, stored
  <1>10. CASE AnnounceFails
    BY <1>10 DEF TypeOK, AnnounceFails, world, stored, Recording, Announcing
  <1> QED
    BY <1>1, <1>2a, <1>2b, <1>2c, <1>2d, <1>3, <1>4, <1>5, <1>6, <1>7, <1>8, <1>9, <1>10 DEF Next

\* The types, and that a violation still to be announced has a game to be polled with.
THEOREM ObservationTypeOK == Spec => []TypeOK
  <1> QED
    BY InitType, NextType, PTL DEF Spec

-----------------------------------------------------------------------------
\* What a step may do to the incident of a game: nothing, what an administrator
\* decides, or what a comparison that is recorded makes of it.
LEMMA IncidentStep ==
  ASSUME TypeOK, [Next]_vars, NEW g \in Games
  PROVE  \/ incident'[g] = incident[g]
         \/ /\ incident[g] # Nothing /\ incident[g].status \in {"open", "confirmed"}
            /\ \E status \in {"corrected", "cancelled"} :
                 incident'[g] = [incident[g] EXCEPT !.status = status]
         \/ Record /\ poll.game = g /\ incident'[g] = Judged(incident[g], poll.comparison)
  <1>1. CASE incident' = incident
    BY <1>1
  <1>2. ASSUME NEW h \in Games, Decide(h)
        PROVE  \/ incident'[g] = incident[g]
               \/ /\ incident[g] # Nothing /\ incident[g].status \in {"open", "confirmed"}
                  /\ \E status \in {"corrected", "cancelled"} :
                       incident'[g] = [incident[g] EXCEPT !.status = status]
    BY <1>2 DEF Decide, TypeOK
  <1>3. CASE Record
    <2>1. \/ incident' = incident
          \/ incident' = [incident EXCEPT ![poll.game] = Judged(@, poll.comparison)]
      BY <1>3 DEF Record, stored
    <2> QED
      BY <1>1, <1>3, <2>1 DEF TypeOK
  <1> QED
    BY <1>1, <1>2, <1>3 DEF Next, vars, stored, TimePasses, GameBegins, GameEnds, LinkChanges,
       Restart, TickBegins, PollBegins, RiotAnswers, RecordFails, Announce, AnnounceFails

\* A step keeps the verdicts there are.
LEMMA VerdictsStep ==
  ASSUME TypeOK, [Next]_vars, NEW g \in Games, incident[g] # Nothing
  PROVE  /\ incident[g].status \in {"corrected", "cancelled"} => incident'[g] = incident[g]
         /\ incident[g].comparison = "violation" => incident'[g].comparison = "violation"
         /\ incident[g].status = "confirmed" => incident'[g].status # "open"
  <1>1. incident[g] \in Incidents
    BY DEF TypeOK
  <1>2. ASSUME NEW status \in {"corrected", "cancelled"},
               incident[g].status \in {"open", "confirmed"},
               incident'[g] = [incident[g] EXCEPT !.status = status]
        PROVE  /\ incident[g].status \notin {"corrected", "cancelled"}
               /\ incident'[g].comparison = incident[g].comparison
               /\ incident'[g].status # "open"
    BY <1>1, <1>2 DEF Incidents
  <1>3. ASSUME incident'[g] = Judged(incident[g], poll.comparison)
        PROVE  /\ incident[g].status # "open" => incident'[g] = incident[g]
               /\ incident[g].comparison = "violation" => incident'[g].comparison = "violation"
    BY <1>1, <1>3 DEF Judged, Incidents
  <1> QED
    BY <1>2, <1>3, IncidentStep

\* Decisions and violations stay, whatever is still observed.
THEOREM ObservationVerdictsStay == Spec => VerdictsStay
  <1>1. TypeOK /\ [Next]_vars =>
          [\A g \in Games : incident[g] # Nothing =>
             /\ incident[g].status \in {"corrected", "cancelled"} => incident'[g] = incident[g]
             /\ incident[g].comparison = "violation" => incident'[g].comparison = "violation"
             /\ incident[g].status = "confirmed" => incident'[g].status # "open"]_vars
    BY VerdictsStep
  <1> QED
    BY <1>1, ObservationTypeOK, PTL DEF Spec, VerdictsStay

-----------------------------------------------------------------------------
\* Recording is the only step that touches the evidence, and needs an active link.
THEOREM ObservationUnlinked == Spec => UnlinkedIsUnobserved
  <1>1. [Next]_vars => [~link.active => UNCHANGED <<evidence, latest>>]_vars
    BY DEF Next, vars, stored, TimePasses, GameBegins, GameEnds, LinkChanges, Decide, Restart,
       TickBegins, PollBegins, RiotAnswers, Record, Refused, RecordFails, Announce, AnnounceFails
  <1> QED
    BY <1>1, PTL DEF Spec, UnlinkedIsUnobserved

-----------------------------------------------------------------------------
\* The games are finitely many, so those in violation can be counted.
LEMMA ViolatedType ==
  /\ IsFiniteSet(Violated) /\ Cardinality(Violated) \in Nat
  /\ IsFiniteSet(Violated') /\ Cardinality(Violated') \in Nat
  <1>1. Violated \subseteq Games /\ Violated' \subseteq Games
    BY DEF Violated
  <1> QED
    BY <1>1, FS_Subset, FS_CardinalityType, ObservationConstants DEF ObservationConstants

\* A game in violation stays in violation.
LEMMA ViolatedGrows ==
  ASSUME TypeOK, [Next]_vars
  PROVE  Violated \subseteq Violated'
  <1> SUFFICES ASSUME NEW g \in Violated PROVE g \in Violated'
    OBVIOUS
  <1>1. g \in Games /\ incident[g] # Nothing /\ incident[g].comparison = "violation"
    BY DEF Violated
  <1>2. incident[g] \in Incidents
    BY <1>1 DEF TypeOK
  <1>3. incident'[g] # Nothing
    <2>1. ASSUME NEW status \in {"corrected", "cancelled"},
                 incident'[g] = [incident[g] EXCEPT !.status = status]
          PROVE  incident'[g] # Nothing
      BY <1>2, <2>1, ObservationConstants DEF Incidents, ObservationConstants
    <2>2. ASSUME incident'[g] = Judged(incident[g], poll.comparison)
          PROVE  incident'[g] # Nothing
      BY <1>1, <1>2, <2>2, ObservationConstants DEF Judged, Incidents, ObservationConstants
    <2> QED
      BY <1>1, <2>1, <2>2, IncidentStep
  <1> QED
    BY <1>1, <1>3, VerdictsStep DEF Violated

\* Recording the first violation of a game adds a game to those in violation.
LEMMA FirstViolationStep ==
  ASSUME TypeOK, [Next]_vars, Record, poll.game \in Games,
         incident' = [incident EXCEPT ![poll.game] = Judged(@, poll.comparison)],
         FirstViolation(incident[poll.game], poll.comparison)
  PROVE  Cardinality(Violated) + 1 <= Cardinality(Violated')
  <1> DEFINE g == poll.game
  <1>1. g \notin Violated
    BY DEF FirstViolation, Violated
  <1>2. incident[g] \in Incidents \cup {Nothing} /\ incident'[g] = Judged(incident[g], poll.comparison)
    BY DEF TypeOK
  <1>3. incident'[g] = [status |-> "confirmed", comparison |-> "violation"]
    BY <1>2 DEF FirstViolation, Judged
  <1>4. [status |-> "confirmed", comparison |-> "violation"] \in Incidents
    BY DEF Incidents, Comparisons
  <1>5. g \in Violated'
    BY <1>3, <1>4, ObservationConstants DEF Violated, ObservationConstants
  <1>6. Violated \cup {g} \subseteq Violated'
    BY <1>5, ViolatedGrows
  <1>7. Cardinality(Violated \cup {g}) = Cardinality(Violated) + 1
    BY <1>1, ViolatedType, FS_AddElement
  <1> QED
    BY <1>6, <1>7, ViolatedType, FS_Subset

\* A step makes or owes at most as many announcements as it finds games in violation.
LEMMA NextAnnouncedOnce ==
  ASSUME TypeOK, AnnouncedOnce, [Next]_vars
  PROVE  AnnouncedOnce'
  <1> USE DEF AnnouncedOnce
  <1>1. Cardinality(Violated) <= Cardinality(Violated')
    BY ViolatedGrows, ViolatedType, FS_Subset
  <1>2. alerts \in Nat /\ pending \in BOOLEAN
    BY DEF TypeOK
  <1>3. ASSUME alerts' = alerts, pending' = pending \/ pending' = FALSE PROVE AnnouncedOnce'
    BY <1>1, <1>2, <1>3, ViolatedType
  <1>4. CASE Record
    <2>1. poll.game \in Games /\ alerts' = alerts
      BY <1>4, PollType, ObservationConstants DEF Record, ObservationConstants
    <2>2. CASE FirstViolation(incident[poll.game], poll.comparison) /\ ~Refused(poll)
      <3>1. Cardinality(Violated) + 1 <= Cardinality(Violated')
        BY <1>4, <2>1, <2>2, FirstViolationStep DEF Record
      <3>2. pending' \in BOOLEAN
        BY <1>2, <1>4, <2>2 DEF Record
      <3> QED
        BY <1>2, <2>1, <3>1, <3>2, ViolatedType
    <2>3. CASE ~(FirstViolation(incident[poll.game], poll.comparison) /\ ~Refused(poll))
      <3>1. pending' = pending
        BY <1>2, <1>4, <2>3 DEF Record
      <3> QED
        BY <1>3, <2>1, <3>1
    <2> QED
      BY <2>2, <2>3
  <1>5. CASE Announce
    <2>1. pending' = FALSE /\ alerts' = IF pending THEN alerts + 1 ELSE alerts
      BY <1>5 DEF Announce
    <2> QED
      BY <1>1, <1>2, <2>1, ViolatedType
  <1>6. CASE ~Record /\ ~Announce
    <2>1. alerts' = alerts /\ (pending' = pending \/ pending' = FALSE)
      BY <1>6 DEF Next, vars, stored, memory, TimePasses, GameBegins, GameEnds, LinkChanges,
         Decide, Restart, TickBegins, PollBegins, RiotAnswers, RecordFails, AnnounceFails
    <2> QED
      BY <1>3, <2>1
  <1> QED
    BY <1>4, <1>5, <1>6

\* Nobody is announced twice for the same game, nor for a game without a violation.
THEOREM ObservationAnnouncedOnce == Spec => []AnnouncedOnce
  <1>1. Init => AnnouncedOnce
    <2> SUFFICES ASSUME Init PROVE AnnouncedOnce
      OBVIOUS
    <2>1. alerts = 0 /\ pending = FALSE
      BY DEF Init
    <2> QED
      BY <2>1, ViolatedType DEF AnnouncedOnce
  <1> QED
    BY <1>1, NextAnnouncedOnce, ObservationTypeOK, PTL DEF Spec

=============================================================================
