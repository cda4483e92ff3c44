------------------------------ MODULE BotProofs ------------------------------
(***************************************************************************)
(* What the parts of the bot that share no state do for any members,       *)
(* operations, interactions and bounds: its connection to Discord          *)
(* (GatewayRuntime), its summaries (Summaries), the links to Riot accounts *)
(* (RiotLinks) and the evidence of streams (GoLiveEvidence).               *)
(***************************************************************************)
EXTENDS MCBot, SumTheorems, SequenceTheorems, TLAPS

-----------------------------------------------------------------------------
\* GatewayRuntime: the bot that stops.

\* StopRuntime has happened.
Halted == stop \notin {"no", "departures", "commands"}

\* What is in hand belongs to a generation that was, and is over once the runtime stops.
OfGeneration ==
  handling # None /\ handling.for \in {"attempt", "retry"} =>
    /\ handling.generation \in Nat /\ handling.generation <= generation
    /\ Halted => handling.generation < generation

Silent ==
  /\ StoppedBotIsSilent
  /\ generation \in Nat
  /\ Halted => lifecycle \in {"stopping", "stopped"} /\ asked = {}
  /\ OfGeneration

\* At the start nothing has stopped.
LEMMA SilentInit == Gateway!GatewayInit => Silent
  BY DEF Gateway!GatewayInit, Silent, StoppedBotIsSilent, Gateway!StoppedBotIsSilent, Halted,
    OfGeneration

\* An attempt that starts is of the generation it is told.
LEMMA SilentStarts ==
  ASSUME Silent, NEW try, Gateway!Starts(try, generation'), generation' \in Nat, ~Halted',
         stop \notin {"released", "exited"}
  PROVE  OfGeneration'
  BY DEF Gateway!Starts, OfGeneration

\* A failed or late attempt is tried again in its generation, or is forgotten.
LEMMA SilentGives ==
  ASSUME Silent, NEW a, Gateway!Awaited(a), Gateway!Gives(a),
         UNCHANGED <<online, events, asked, stop>>
  PROVE  Silent'
  <1> USE DEF Silent, StoppedBotIsSilent, Gateway!StoppedBotIsSilent, Halted, OfGeneration,
        Gateway!Awaited, Gateway!Gives, Gateway!runtime
  <1>1. CASE handling.try < Tries
    BY <1>1
  <1>2. CASE ~(handling.try < Tries)
    BY <1>2
  <1> QED
    BY <1>1, <1>2

\* Every step keeps it: what has stopped starts nothing, and what ends late is of a generation
\* that is over.
LEMMA SilentStep == Silent /\ [Gateway!GatewayNext]_(Gateway!gatewayVars) => Silent'
  <1> SUFFICES ASSUME Silent, [Gateway!GatewayNext]_(Gateway!gatewayVars) PROVE Silent'
    OBVIOUS
  <1> DEFINE Same == UNCHANGED <<lifecycle, generation, roles, published, handling, stop>>
  <1>1. ASSUME Same, online' => online \/ ~(stop \in {"released", "exited"}),
               stop \in {"released", "exited"} => events' = events,
               Halted => asked' \subseteq asked
        PROVE  Silent'
    BY <1>1 DEF Silent, StoppedBotIsSilent, Gateway!StoppedBotIsSilent, Halted, OfGeneration
  <1>2. CASE UNCHANGED Gateway!gatewayVars
    BY <1>1, <1>2 DEF Gateway!gatewayVars, Gateway!discord, Gateway!runtime, Gateway!betting
  <1>3. CASE Gateway!Connect \/ Gateway!Disconnect
    BY <1>1, <1>3 DEF Gateway!Connect, Gateway!Disconnect, Gateway!Publishes, Gateway!Listening,
      Gateway!runtime, Gateway!betting
  <1>4. CASE Gateway!AcceptReady
    <2>1. /\ handling = None /\ events # <<>> /\ stop' = stop /\ asked' = asked /\ online' = online
      BY <1>4 DEF Gateway!AcceptReady, Gateway!discord, Gateway!betting
    <2>2. stop \notin {"released", "exited"}
      BY <2>1 DEF Silent, StoppedBotIsSilent, Gateway!StoppedBotIsSilent
    <2>3. CASE lifecycle \in {"stopping", "stopped"}
      BY <1>4, <2>1, <2>2, <2>3 DEF Gateway!AcceptReady, Gateway!runtime, Silent, StoppedBotIsSilent,
        Gateway!StoppedBotIsSilent, Halted, OfGeneration
    <2>4. CASE lifecycle \notin {"stopping", "stopped"}
      <3>1. ~Halted /\ ~Halted'
        BY <2>1, <2>4 DEF Silent, Halted
      <3>2. generation' = generation + 1 /\ Gateway!Starts(1, generation')
        BY <1>4, <2>4 DEF Gateway!AcceptReady
      <3>3. OfGeneration'
        BY <2>2, <3>1, <3>2, SilentStarts DEF Silent
      <3> QED
        BY <2>1, <2>2, <3>1, <3>2, <3>3 DEF Silent, StoppedBotIsSilent, Gateway!StoppedBotIsSilent, Halted
    <2> QED
      BY <2>3, <2>4
  <1>5. CASE Gateway!AcceptDisconnected
    BY <1>5 DEF Gateway!AcceptDisconnected, Gateway!discord, Gateway!betting, Gateway!runtime, Silent,
      StoppedBotIsSilent, Gateway!StoppedBotIsSilent, Halted, OfGeneration
  <1>6. CASE Gateway!EndDelay
    BY <1>6 DEF Gateway!EndDelay, Gateway!discord, Gateway!betting, Gateway!runtime, Silent,
      StoppedBotIsSilent, Gateway!StoppedBotIsSilent, Halted, OfGeneration
  <1>7. ASSUME NEW a \in Attempts, Gateway!ReconcileStep(a) PROVE Silent'
    <2>1. CASE Gateway!Quietly
      BY <1>1, <2>1 DEF Gateway!Quietly, Gateway!discord, Gateway!runtime
    <2>2. CASE Gateway!Publish(a)
      <3>1. handling # None /\ handling' = None /\ UNCHANGED <<online, events, asked, stop, lifecycle, generation>>
        BY <2>2 DEF Gateway!Publish, Gateway!Awaited, Gateway!discord, Gateway!betting
      <3>2. CASE Gateway!Current
        BY <3>1, <3>2 DEF Gateway!Current, Silent, StoppedBotIsSilent, Gateway!StoppedBotIsSilent,
          Halted, OfGeneration
      <3>3. CASE ~Gateway!Current
        BY <2>2, <3>1, <3>3 DEF Gateway!Publish, Silent, StoppedBotIsSilent, Gateway!StoppedBotIsSilent,
          Halted, OfGeneration
      <3> QED
        BY <3>2, <3>3
    <2>3. CASE Gateway!AttemptFailed(a) \/ Gateway!Timeout(a)
      BY <2>3, SilentGives DEF Gateway!AttemptFailed, Gateway!Timeout, Gateway!discord, Gateway!betting
    <2> QED
      BY <1>7, <2>1, <2>2, <2>3 DEF Gateway!ReconcileStep, Gateway!FetchMembers, Gateway!RefreshLabels,
        Gateway!ListActive, Gateway!DepartGone, Gateway!AttemptFails, Gateway!EndUnheard
  <1>8. CASE Gateway!Retry
    BY <1>8 DEF Gateway!Retry, Gateway!Starts, Gateway!discord, Gateway!betting, Gateway!runtime, Silent,
      StoppedBotIsSilent, Gateway!StoppedBotIsSilent, Halted, OfGeneration
  <1>9. CASE Gateway!DepartLeft \/ \E m \in Members : Gateway!MemberStep(m)
    BY <1>1, <1>9 DEF Gateway!DepartLeft, Gateway!MemberStep, Gateway!Leave, Gateway!Join,
      Gateway!AskToEnroll, Gateway!Enroll, Gateway!discord, Gateway!betting, Gateway!runtime, Halted
  <1>10. CASE Gateway!BeginStop \/ Gateway!StopCommands \/ Gateway!StopRuntime
    BY <1>10 DEF Gateway!BeginStop, Gateway!StopCommands, Gateway!StopRuntime, Gateway!discord,
      Gateway!betting, Gateway!runtime, Silent, StoppedBotIsSilent, Gateway!StoppedBotIsSilent, Halted,
      OfGeneration
  <1>11. CASE Gateway!ReleaseLease \/ Gateway!Exit
    BY <1>11 DEF Gateway!ReleaseLease, Gateway!Exit, Gateway!Drained, Gateway!betting, Gateway!runtime,
      Silent, StoppedBotIsSilent, Gateway!StoppedBotIsSilent, Halted, OfGeneration
  <1> QED
    BY <1>2, <1>3, <1>4, <1>5, <1>6, <1>7, <1>8, <1>9, <1>10, <1>11 DEF Gateway!GatewayNext

\* Whatever attempt ends late and whatever event is in hand, a bot that stops publishes
\* nobody's role any more, and frees its lease when it is off line and nothing is in hand.
THEOREM StoppedBotTheorem == Gateway!GatewaySpec => []StoppedBotIsSilent
  <1>1. Silent => StoppedBotIsSilent
    BY DEF Silent
  <1> QED
    BY <1>1, SilentInit, SilentStep, PTL DEF Gateway!GatewaySpec

-----------------------------------------------------------------------------
\* GatewayRuntime: who was not seen has departed.

\* The numbers of enrolments.
Numbers == [Members -> Nat]
Upto(numbers, total) == numbers \in Numbers /\ \A m \in Members : numbers[m] <= total[m]

\* Whom a set of members leaves out has not the enrolment of that time, apart from those who
\* are on the list.
Departed(seen, before, list, held) ==
  \A m \in Members \ seen : before[m] = 0 \/ held[m] # before[m] \/ m \in list

Enrolled ==
  /\ present \subseteq Members
  /\ enrollments \in Numbers /\ enrollment \in Numbers
  /\ \A m \in Members : enrollment[m] \in {0, enrollments[m]}
  /\ Upto(basis.enrollment, enrollments)
  /\ roles = "current" => Departed(basis.members, basis.enrollment, {}, enrollment)

\* An attempt: it fetches the members, reads the enrolments, ends those of who is gone.
Attempting ==
  [step : {"fetch", "failed"}]
    \cup [step : {"labels", "list"}, members : SUBSET Members, before : Numbers]
    \cup [step : {"depart"}, members : SUBSET Members, before : Numbers, gone : SUBSET Members]

\* What the attempts have read and not done yet.
Attempted ==
  /\ attempt = [a \in Attempts |-> attempt[a]]
  /\ \A a \in Attempts : attempt[a] # None =>
       /\ attempt[a] \in Attempting
       /\ attempt[a].step \in {"labels", "list", "depart"} => Upto(attempt[a].before, enrollments)
       /\ attempt[a].step = "depart" =>
            Departed(attempt[a].members, attempt[a].before, attempt[a].gone, enrollment)

\* At the start nobody has been seen, and nothing is under way.
LEMMA EnrolledInit == Gateway!GatewayInit => Enrolled /\ Attempted
  BY DEF Gateway!GatewayInit, Gateway!NoBasis, Enrolled, Attempted, Numbers, Upto, Departed

\* An enrolment ends, or is a new one: none of before comes back.
Enrolls ==
  /\ enrollments' \in Numbers /\ enrollment' \in Numbers
  /\ \A m \in Members :
       /\ enrollments'[m] >= enrollments[m] /\ enrollment'[m] \in {0, enrollments'[m]}
       /\ enrollment'[m] \in {0, enrollment[m]} \/ enrollment'[m] > enrollments[m]

\* So who has departed stays so.
LEMMA DepartedStays ==
  ASSUME Enrolled, Enrolls, NEW before, Upto(before, enrollments)
  PROVE  /\ Upto(before, enrollments')
         /\ \A seen, list : Departed(seen, before, list, enrollment) =>
                             Departed(seen, before, list, enrollment')
  BY DEF Enrolled, Enrolls, Numbers, Upto, Departed

\* An attempt that has moved is as it should be, if the others have not moved.
LEMMA OthersAttempted ==
  ASSUME Enrolled, Attempted, Enrolls, NEW a \in Attempts, NEW to, attempt' = [attempt EXCEPT ![a] = to],
         to # None => /\ to \in Attempting
                      /\ to.step \in {"labels", "list", "depart"} => Upto(to.before, enrollments')
                      /\ to.step = "depart" => Departed(to.members, to.before, to.gone, enrollment')
  PROVE  Attempted'
  <1>1. ASSUME NEW b \in Attempts, b # a, attempt[b] # None
        PROVE  /\ attempt[b] \in Attempting
               /\ attempt[b].step \in {"labels", "list", "depart"} => Upto(attempt[b].before, enrollments')
               /\ attempt[b].step = "depart" =>
                    Departed(attempt[b].members, attempt[b].before, attempt[b].gone, enrollment')
    BY <1>1, DepartedStays DEF Attempted
  <1>2. attempt'[a] = to /\ \A b \in Attempts : b # a => attempt'[b] = attempt[b]
    BY DEF Attempted
  <1>3. attempt' = [b \in Attempts |-> attempt'[b]]
    BY DEF Attempted
  <1>4. ASSUME NEW b \in Attempts, attempt'[b] # None
        PROVE  /\ attempt'[b] \in Attempting
               /\ attempt'[b].step \in {"labels", "list", "depart"} => Upto(attempt'[b].before, enrollments')
               /\ attempt'[b].step = "depart" =>
                    Departed(attempt'[b].members, attempt'[b].before, attempt'[b].gone, enrollment')
    <2>1. CASE b = a
      BY <1>2, <1>4, <2>1
    <2>2. CASE b # a
      BY <1>1, <1>2, <1>4, <2>2
    <2> QED
      BY <2>1, <2>2
  <1> QED
    BY <1>3, <1>4 DEF Attempted, Attempting, Upto, Departed, Numbers

\* Nothing is published, and enrolments end or are new.
LEMMA EnrolledStays ==
  ASSUME Enrolled, Enrolls, present' \subseteq Members, basis' = basis,
         roles' = "current" => roles = "current"
  PROVE  Enrolled'
  BY DepartedStays DEF Enrolled, Enrolls, Upto, Departed, Numbers

\* The attempts go on as they were.
LEMMA AttemptedStays ==
  ASSUME Enrolled, Attempted, Enrolls, attempt' = attempt
  PROVE  Attempted'
  BY DepartedStays DEF Attempted, Attempting, Upto, Departed, Numbers

\* An enrolment that no step touches.
LEMMA NobodyEnrolls == ASSUME Enrolled, UNCHANGED <<enrollment, enrollments>> PROVE Enrolls
  BY DEF Enrolled, Enrolls, Numbers

\* One that ends.
LEMMA OneDeparts ==
  ASSUME Enrolled, NEW m, Gateway!Departs(m), enrollments' = enrollments
  PROVE  Enrolls /\ (m \in Members => enrollment'[m] = 0)
  <1>1. enrollment \in [Members -> Nat] /\ enrollment' = [enrollment EXCEPT ![m] = 0]
    BY DEF Enrolled, Numbers, Gateway!Departs
  <1>2. /\ enrollment' \in [Members -> Nat] /\ (m \in Members => enrollment'[m] = 0)
        /\ \A k \in Members : enrollment'[k] \in {0, enrollment[k]}
    BY <1>1
  <1> QED
    BY <1>2 DEF Enrolled, Enrolls, Numbers

\* An attempt that starts has read nothing.
LEMMA AttemptedStarts ==
  ASSUME Enrolled, Attempted, Enrolls, NEW try, NEW g, Gateway!Starts(try, g)
  PROVE  Attempted'
  <1> DEFINE to == [step |-> "fetch"]
  <1>1. attempt' = [attempt EXCEPT ![Gateway!Free] = to]
    BY DEF Gateway!Starts
  <1>2. CASE Gateway!Free \in Attempts
    <2>1. to \in Attempting /\ to.step = "fetch"
      BY DEF Attempting
    <2> HIDE DEF to
    <2> QED
      BY <1>1, <1>2, <2>1, OthersAttempted
  <1>3. CASE Gateway!Free \notin Attempts
    <2>1. attempt' = attempt
      BY <1>1, <1>3 DEF Attempted
    <2> QED
      BY <2>1, AttemptedStays
  <1> QED
    BY <1>2, <1>3

\* Every step of an attempt.
LEMMA ReconcileStepEnrolled ==
  ASSUME Enrolled, Attempted, NEW a \in Attempts, Gateway!ReconcileStep(a)
  PROVE  Enrolled' /\ Attempted'
  <1> USE DEF Gateway!At, Gateway!Moves
  <1> DEFINE me == attempt[a]
  <1>1. CASE Gateway!FetchMembers(a)
    <2> DEFINE to == [step |-> "labels", members |-> present, before |-> enrollment]
    <2>1. Enrolls
      BY <1>1, NobodyEnrolls DEF Gateway!FetchMembers, Gateway!Quietly
    <2>2. /\ to \in Attempting /\ to.step = "labels" /\ Upto(to.before, enrollments')
      BY <1>1 DEF Gateway!FetchMembers, Gateway!Quietly, Enrolled, Attempting, Upto, Numbers
    <2>3. attempt' = [attempt EXCEPT ![a] = to]
      BY <1>1 DEF Gateway!FetchMembers
    <2> HIDE DEF to
    <2>4. Attempted'
      BY <2>1, <2>2, <2>3, OthersAttempted
    <2> QED
      BY <1>1, <2>1, <2>4, EnrolledStays DEF Gateway!FetchMembers, Gateway!Quietly, Gateway!runtime,
        Gateway!discord, Enrolled
  <1>2. CASE Gateway!RefreshLabels(a)
    <2> DEFINE to == [me EXCEPT !.step = "list"]
    <2>1. Enrolls
      BY <1>2, NobodyEnrolls DEF Gateway!RefreshLabels, Gateway!Quietly
    <2>2. me \in Attempting /\ me.step = "labels" /\ Upto(me.before, enrollments)
      BY <1>2 DEF Gateway!RefreshLabels, Attempted
    <2>3. to \in Attempting /\ to.step = "list" /\ to.before = me.before
      BY <2>2 DEF Attempting
    <2>4. attempt' = [attempt EXCEPT ![a] = to] /\ enrollments' = enrollments
      BY <1>2 DEF Gateway!RefreshLabels, Gateway!Quietly
    <2> HIDE DEF to
    <2>5. Attempted'
      BY <2>1, <2>2, <2>3, <2>4, OthersAttempted
    <2> QED
      BY <1>2, <2>1, <2>5, EnrolledStays DEF Gateway!RefreshLabels, Gateway!Quietly, Gateway!runtime,
        Gateway!discord, Enrolled
  <1>3. CASE Gateway!ListActive(a)
    <2> DEFINE gone == {m \in Members : enrollment[m] # 0} \ me.members
               to == [step |-> "depart", members |-> me.members, before |-> me.before, gone |-> gone]
    <2>1. Enrolls
      BY <1>3, NobodyEnrolls DEF Gateway!ListActive, Gateway!Quietly
    <2>2. me \in Attempting /\ me.step = "list" /\ Upto(me.before, enrollments)
      BY <1>3 DEF Gateway!ListActive, Attempted
    <2>3. to \in Attempting /\ Upto(to.before, enrollments)
      BY <2>2 DEF Attempting
    <2>4. attempt' = [attempt EXCEPT ![a] = to] /\ enrollments' = enrollments /\ enrollment' = enrollment
      BY <1>3 DEF Gateway!ListActive, Gateway!Quietly
    <2>5. Departed(to.members, to.before, to.gone, enrollment)
      BY DEF Departed
    <2> HIDE DEF to
    <2>6. Attempted'
      BY <2>1, <2>3, <2>4, <2>5, OthersAttempted
    <2> QED
      BY <1>3, <2>1, <2>6, EnrolledStays DEF Gateway!ListActive, Gateway!Quietly, Gateway!runtime,
        Gateway!discord, Enrolled
  <1>4. ASSUME NEW m \in Members, Gateway!DepartGone(a, m) PROVE Enrolled' /\ Attempted'
    <2> DEFINE to == [me EXCEPT !.gone = @ \ {m}]
    <2>1. Enrolls /\ enrollment'[m] = 0
      BY <1>4, OneDeparts DEF Gateway!DepartGone, Gateway!Quietly
    <2>2. /\ me \in Attempting /\ me.step = "depart" /\ Upto(me.before, enrollments)
          /\ Departed(me.members, me.before, me.gone, enrollment)
      BY <1>4 DEF Gateway!DepartGone, Attempted
    <2>3. /\ to \in Attempting /\ to.before = me.before /\ to.members = me.members
          /\ to.gone = me.gone \ {m}
      BY <2>2 DEF Attempting
    <2>4. attempt' = [attempt EXCEPT ![a] = to] /\ enrollments' = enrollments
      BY <1>4 DEF Gateway!DepartGone, Gateway!Quietly
    <2>5. Departed(me.members, me.before, me.gone, enrollment') /\ Upto(me.before, enrollments')
      BY <2>1, <2>2, DepartedStays
    <2>6. Departed(to.members, to.before, to.gone, enrollment')
      BY <2>1, <2>3, <2>5 DEF Departed
    <2> HIDE DEF to
    <2>7. Attempted'
      BY <2>1, <2>3, <2>4, <2>5, <2>6, OthersAttempted
    <2> QED
      BY <1>4, <2>1, <2>7, EnrolledStays DEF Gateway!DepartGone, Gateway!Quietly, Gateway!runtime,
        Gateway!discord, Enrolled
  <1>5. CASE Gateway!AttemptFails(a) \/ Gateway!EndUnheard(a)
    <2>1. Enrolls
      BY <1>5, NobodyEnrolls DEF Gateway!AttemptFails, Gateway!EndUnheard, Gateway!Quietly
    <2>2. attempt' = [attempt EXCEPT ![a] = [step |-> "failed"]] \/ attempt' = [attempt EXCEPT ![a] = None]
      BY <1>5 DEF Gateway!AttemptFails, Gateway!EndUnheard
    <2>3. [step |-> "failed"] \in Attempting
      BY DEF Attempting
    <2>4. Attempted'
      <3> DEFINE to == [step |-> "failed"]
      <3>1. to \in Attempting /\ to.step = "failed"
        BY <2>3
      <3> HIDE DEF to
      <3>2. CASE attempt' = [attempt EXCEPT ![a] = to]
        BY <2>1, <3>1, <3>2, OthersAttempted
      <3>3. CASE attempt' = [attempt EXCEPT ![a] = None]
        BY <2>1, <3>3, OthersAttempted
      <3> QED
        BY <2>2, <3>2, <3>3 DEF to
    <2> QED
      BY <1>5, <2>1, <2>4, EnrolledStays DEF Gateway!AttemptFails, Gateway!EndUnheard, Gateway!Quietly,
        Gateway!runtime, Gateway!discord, Enrolled
  <1>6. CASE Gateway!Publish(a)
    <2>1. UNCHANGED <<present, enrollment, enrollments>> /\ attempt' = [attempt EXCEPT ![a] = None]
      BY <1>6 DEF Gateway!Publish, Gateway!discord, Gateway!betting
    <2>2. Enrolls
      BY <2>1, NobodyEnrolls
    <2>3. Attempted'
      BY <2>1, <2>2, OthersAttempted
    <2>4. CASE Gateway!Current
      <3>1. /\ me.step = "depart" /\ me.gone = {} /\ Upto(me.before, enrollments)
            /\ Departed(me.members, me.before, me.gone, enrollment)
        BY <1>6 DEF Gateway!Publish, Gateway!Complete, Attempted
      <3>2. basis' = [members |-> me.members, enrollment |-> me.before]
        BY <1>6, <2>4 DEF Gateway!Publish
      <3>3. basis'.members = me.members /\ basis'.enrollment = me.before
        BY <3>2
      <3> QED
        BY <2>1, <2>3, <3>1, <3>3 DEF Enrolled
    <2>5. CASE ~Gateway!Current
      BY <1>6, <2>1, <2>2, <2>3, <2>5, EnrolledStays DEF Gateway!Publish, Enrolled
    <2> QED
      BY <2>4, <2>5
  <1>7. CASE Gateway!AttemptFailed(a) \/ Gateway!Timeout(a)
    <2>1. /\ UNCHANGED <<present, enrollment, enrollments>>
          /\ attempt' = attempt \/ attempt' = [attempt EXCEPT ![a] = None]
      BY <1>7 DEF Gateway!AttemptFailed, Gateway!Timeout, Gateway!discord, Gateway!betting
    <2>2. Enrolls
      BY <2>1, NobodyEnrolls
    <2>3. Attempted'
      BY <2>1, <2>2, OthersAttempted, AttemptedStays
    <2>4. CASE basis' = basis /\ (roles' = roles \/ roles' = "failed")
      BY <2>1, <2>2, <2>3, <2>4, EnrolledStays DEF Enrolled
    <2>5. CASE basis' = Gateway!NoBasis /\ roles' = "failed"
      BY <2>1, <2>3, <2>5 DEF Gateway!NoBasis, Enrolled, Upto, Numbers
    <2> QED
      BY <1>7, <2>4, <2>5 DEF Gateway!AttemptFailed, Gateway!Timeout, Gateway!Gives, Gateway!runtime
  <1> QED
    BY <1>1, <1>2, <1>3, <1>4, <1>5, <1>6, <1>7 DEF Gateway!ReconcileStep

\* Every step.
LEMMA EnrolledStep ==
  Enrolled /\ Attempted /\ [Gateway!GatewayNext]_(Gateway!gatewayVars) => (Enrolled /\ Attempted)'
  <1> SUFFICES ASSUME Enrolled, Attempted, [Gateway!GatewayNext]_(Gateway!gatewayVars)
               PROVE  Enrolled' /\ Attempted'
    OBVIOUS
  <1> USE DEF Gateway!discord, Gateway!betting, Gateway!runtime
  <1>1. ASSUME UNCHANGED <<enrollment, enrollments, attempt, basis, roles>>, present' \subseteq Members
        PROVE  Enrolled' /\ Attempted'
    <2>1. Enrolls
      BY <1>1, NobodyEnrolls
    <2> QED
      BY <1>1, <2>1, AttemptedStays, EnrolledStays
  <1>2. ASSUME UNCHANGED <<enrollment, enrollments, attempt, present>>, basis' = Gateway!NoBasis, roles' = "unknown"
        PROVE  Enrolled' /\ Attempted'
    <2>1. Enrolls
      BY <1>2, NobodyEnrolls
    <2>2. Attempted'
      BY <1>2, <2>1, AttemptedStays
    <2> QED
      BY <1>2, <2>2 DEF Enrolled, Gateway!NoBasis, Upto, Numbers
  <1>3. CASE UNCHANGED Gateway!gatewayVars
    BY <1>1, <1>3 DEF Gateway!gatewayVars, Enrolled
  <1>4. CASE Gateway!Connect \/ Gateway!Disconnect \/ Gateway!EndDelay
    BY <1>1, <1>4 DEF Gateway!Connect, Gateway!Disconnect, Gateway!EndDelay, Enrolled
  <1>5. CASE Gateway!AcceptReady
    <2>1. CASE lifecycle \in {"stopping", "stopped"}
      BY <1>1, <1>5, <2>1 DEF Gateway!AcceptReady, Enrolled
    <2>2. CASE lifecycle \notin {"stopping", "stopped"}
      <3>1. /\ UNCHANGED <<enrollment, enrollments, present, basis>> /\ roles' = "unknown"
            /\ Gateway!Starts(1, generation + 1)
        BY <1>5, <2>2 DEF Gateway!AcceptReady
      <3>2. Enrolls
        BY <3>1, NobodyEnrolls
      <3> QED
        BY <3>1, <3>2, AttemptedStarts, EnrolledStays DEF Enrolled
    <2> QED
      BY <2>1, <2>2
  <1>6. CASE Gateway!AcceptDisconnected
    BY <1>1, <1>2, <1>6 DEF Gateway!AcceptDisconnected, Enrolled
  <1>7. CASE \E a \in Attempts : Gateway!ReconcileStep(a)
    BY <1>7, ReconcileStepEnrolled
  <1>8. CASE Gateway!Retry
    <2>1. Enrolls
      BY <1>8, NobodyEnrolls DEF Gateway!Retry
    <2> QED
      BY <1>8, <2>1, AttemptedStarts, EnrolledStays DEF Gateway!Retry, Enrolled
  <1>9. CASE Gateway!DepartLeft
    <2>1. Enrolls
      BY <1>9, NobodyEnrolls, OneDeparts DEF Gateway!DepartLeft
    <2> QED
      BY <1>9, <2>1, AttemptedStays, EnrolledStays DEF Gateway!DepartLeft, Enrolled
  <1>10. ASSUME NEW m \in Members, Gateway!MemberStep(m) PROVE Enrolled' /\ Attempted'
    <2>1. CASE Gateway!Leave(m) \/ Gateway!Join(m) \/ Gateway!AskToEnroll(m)
      BY <1>1, <1>10, <2>1 DEF Gateway!Leave, Gateway!Join, Gateway!AskToEnroll, Enrolled
    <2>2. CASE Gateway!Enroll(m)
      <3>1. CASE enrollment[m] # 0
        BY <1>1, <2>2, <3>1 DEF Gateway!Enroll, Enrolled
      <3>2. CASE enrollment[m] = 0
        <4>1. /\ enrollments' = [enrollments EXCEPT ![m] = @ + 1]
              /\ enrollment' = [enrollment EXCEPT ![m] = enrollments'[m]]
              /\ UNCHANGED <<present, attempt, basis, roles>>
          BY <2>2, <3>2 DEF Gateway!Enroll
        <4>2. Enrolls
          BY <4>1 DEF Enrolled, Enrolls, Numbers
        <4> QED
          BY <4>1, <4>2, AttemptedStays, EnrolledStays DEF Enrolled
      <3> QED
        BY <3>1, <3>2
    <2> QED
      BY <1>10, <2>1, <2>2 DEF Gateway!MemberStep
  <1>11. CASE Gateway!BeginStop \/ Gateway!StopCommands \/ Gateway!ReleaseLease
    BY <1>1, <1>11 DEF Gateway!BeginStop, Gateway!StopCommands, Gateway!ReleaseLease, Enrolled
  <1>12. CASE Gateway!StopRuntime
    BY <1>2, <1>12 DEF Gateway!StopRuntime
  <1>13. CASE Gateway!Exit
    <2>1. Enrolls
      BY <1>13, NobodyEnrolls DEF Gateway!Exit
    <2>2. Attempted'
      BY <1>13 DEF Gateway!Exit, Attempted
    <2> QED
      BY <1>13, <2>1, <2>2, EnrolledStays DEF Gateway!Exit, Enrolled
  <1> QED
    BY <1>3, <1>4, <1>5, <1>6, <1>7, <1>8, <1>9, <1>10, <1>11, <1>12, <1>13 DEF Gateway!GatewayNext

\* While the runtime says that its members are current, nobody whom the reconciliation did not
\* see has the enrolment of that time: whatever attempt failed, lost its race, went on
\* beside another one or was overtaken by joins, departures and enrolments.
THEOREM CurrentMeansDepartedTheorem == Gateway!GatewaySpec => []CurrentMeansDeparted
  <1>1. Enrolled => CurrentMeansDeparted
    BY DEF Enrolled, Departed, CurrentMeansDeparted, Gateway!CurrentMeansDeparted
  <1> QED
    BY <1>1, EnrolledInit, EnrolledStep, PTL DEF Gateway!GatewaySpec

-----------------------------------------------------------------------------
\* GatewayRuntime: whom a reconciliation departs by mistake.

\* An attempt that has fetched the members: those it has not seen have left since they enrolled,
\* as far as they have the enrolment of that time; whom it goes for it has not seen.
Unseen(me) ==
  /\ \A m \in Members \ me.members :
       me.before[m] # 0 /\ enrollment[m] = me.before[m] => m \in left
  /\ me.step = "depart" => me.gone \cap me.members = {}

Listed(a) == attempt[a] # None /\ attempt[a].step \in {"labels", "list", "depart"}

\* Who is absent has left.
LeaversKnown ==
  /\ Members \ present \subseteq left
  /\ \A a \in Attempts : Listed(a) => Unseen(attempt[a])

\* Action property: who is departed without having left since they enrolled was announced as
\* a leaver by an event before, or has enrolled after the members were read by the attempt
\* that departs them, and they were not seen by it.
OnlyNewcomersAreMistaken ==
  [][\A m \in Members \ left : enrollment[m] # 0 /\ enrollment'[m] = 0 =>
       \/ leaves # <<>> /\ m = Head(leaves)
       \/ \E a \in Attempts :
            /\ Listed(a) /\ attempt[a].step = "depart" /\ m \in attempt[a].gone
            /\ m \notin attempt[a].members /\ enrollment[m] > attempt[a].before[m]]_(Gateway!gatewayVars)

\* At the start nothing is under way.
LEMMA LeaversInit == Gateway!GatewayInit => LeaversKnown
  BY DEF Gateway!GatewayInit, LeaversKnown, Listed

\* Enrolments that change between two states: they end, or are new and of who is in the server.
LeftKept == \A m \in Members : m \in left => m \in left' \/ (m \in present /\ enrollment'[m] > enrollments[m])

\* What an attempt has fetched stays as it is.
LEMMA UnseenStays ==
  ASSUME Enrolled, Attempted, LeaversKnown, Enrolls, LeftKept, NEW a \in Attempts, Listed(a)
  PROVE  \A m \in Members \ attempt[a].members :
           attempt[a].before[m] # 0 /\ enrollment'[m] = attempt[a].before[m] => m \in left'
  BY DEF Enrolled, Attempted, Attempting, LeaversKnown, Enrolls, LeftKept, Listed, Unseen, Upto, Numbers

\* The attempts but one go on as they were.
LEMMA OthersUnseen ==
  ASSUME Enrolled, Attempted, LeaversKnown, Enrolls, LeftKept, Members \ present' \subseteq left',
         NEW a \in Attempts, NEW to, attempt' = [attempt EXCEPT ![a] = to],
         to # None /\ to.step \in {"labels", "list", "depart"} =>
           /\ \A m \in Members \ to.members : to.before[m] # 0 /\ enrollment'[m] = to.before[m] => m \in left'
           /\ to.step = "depart" => to.gone \cap to.members = {}
  PROVE  LeaversKnown'
  <1>1. attempt'[a] = to /\ \A b \in Attempts : b # a => attempt'[b] = attempt[b]
    BY DEF Attempted
  <1>2. ASSUME NEW b \in Attempts, attempt'[b] # None, attempt'[b].step \in {"labels", "list", "depart"}
        PROVE  /\ \A m \in Members \ attempt'[b].members :
                    attempt'[b].before[m] # 0 /\ enrollment'[m] = attempt'[b].before[m] => m \in left'
               /\ attempt'[b].step = "depart" => attempt'[b].gone \cap attempt'[b].members = {}
    <2>1. CASE b = a
      BY <1>1, <1>2, <2>1
    <2>2. CASE b # a
      <3>1. Listed(b) /\ attempt'[b] = attempt[b]
        BY <1>1, <1>2, <2>2 DEF Listed
      <3> QED
        BY <3>1, UnseenStays DEF LeaversKnown, Unseen
    <2> QED
      BY <2>1, <2>2
  <1> QED
    BY <1>2 DEF LeaversKnown, Listed, Unseen

\* All attempts go on as they were.
LEMMA AllUnseen ==
  ASSUME Enrolled, Attempted, LeaversKnown, Enrolls, LeftKept, Members \ present' \subseteq left', attempt' = attempt
  PROVE  LeaversKnown'
  <1>1. ASSUME NEW b \in Attempts, Listed(b)
        PROVE  /\ \A m \in Members \ attempt[b].members :
                    attempt[b].before[m] # 0 /\ enrollment'[m] = attempt[b].before[m] => m \in left'
               /\ attempt[b].step = "depart" => attempt[b].gone \cap attempt[b].members = {}
    BY <1>1, UnseenStays DEF LeaversKnown, Unseen
  <1> QED
    BY <1>1 DEF LeaversKnown, Listed, Unseen

\* An attempt that starts has fetched nothing.
LEMMA UnseenStarts ==
  ASSUME Enrolled, Attempted, LeaversKnown, Enrolls, LeftKept, Members \ present' \subseteq left',
         NEW try, NEW g, Gateway!Starts(try, g)
  PROVE  LeaversKnown'
  <1> DEFINE to == [step |-> "fetch"]
  <1>1. attempt' = [attempt EXCEPT ![Gateway!Free] = to] /\ to.step = "fetch"
    BY DEF Gateway!Starts
  <1> HIDE DEF to
  <1>2. CASE Gateway!Free \in Attempts
    BY <1>1, <1>2, OthersUnseen
  <1>3. CASE Gateway!Free \notin Attempts
    <2>1. attempt' = attempt
      BY <1>1, <1>3 DEF Attempted
    <2> QED
      BY <2>1, AllUnseen
  <1> QED
    BY <1>2, <1>3

\* Nobody comes, goes or enrols.
LEMMA NobodyMoves == ASSUME UNCHANGED left PROVE LeftKept
  BY DEF LeftKept

\* Every step of an attempt.
LEMMA ReconcileStepLeavers ==
  ASSUME Enrolled, Attempted, LeaversKnown, NEW a \in Attempts, Gateway!ReconcileStep(a)
  PROVE  LeaversKnown'
  <1> USE DEF Gateway!At, Gateway!Moves
  <1> DEFINE me == attempt[a]
  <1>0. UNCHANGED <<left, present, enrollments>> /\ LeftKept /\ Members \ present' \subseteq left'
    BY NobodyMoves DEF Gateway!ReconcileStep, Gateway!FetchMembers, Gateway!RefreshLabels, Gateway!ListActive,
       Gateway!DepartGone, Gateway!AttemptFails, Gateway!EndUnheard, Gateway!Publish, Gateway!AttemptFailed,
       Gateway!Timeout, Gateway!Quietly, Gateway!discord, Gateway!betting, LeaversKnown
  <1>1. CASE Gateway!FetchMembers(a)
    <2> DEFINE to == [step |-> "labels", members |-> present, before |-> enrollment]
    <2>1. Enrolls
      BY <1>0, <1>1, NobodyEnrolls DEF Gateway!FetchMembers
    <2>2. /\ to.step = "labels" /\ to.members = present /\ to.before = enrollment
          /\ attempt' = [attempt EXCEPT ![a] = to]
      BY <1>1 DEF Gateway!FetchMembers
    <2> HIDE DEF to
    <2> QED
      BY <1>0, <2>1, <2>2, OthersUnseen DEF LeaversKnown
  <1>2. CASE Gateway!RefreshLabels(a)
    <2> DEFINE to == [me EXCEPT !.step = "list"]
    <2>1. Enrolls
      BY <1>0, <1>2, NobodyEnrolls DEF Gateway!RefreshLabels
    <2>2. me \in Attempting /\ me.step = "labels" /\ Listed(a)
      BY <1>2 DEF Gateway!RefreshLabels, Attempted, Listed
    <2>3. to.step = "list" /\ to.before = me.before /\ to.members = me.members
      BY <2>2 DEF Attempting
    <2>4. attempt' = [attempt EXCEPT ![a] = to]
      BY <1>2 DEF Gateway!RefreshLabels
    <2>5. \A m \in Members \ me.members : me.before[m] # 0 /\ enrollment'[m] = me.before[m] => m \in left'
      BY <1>0, <2>1, <2>2, UnseenStays
    <2> HIDE DEF to
    <2> QED
      BY <1>0, <2>1, <2>3, <2>4, <2>5, OthersUnseen
  <1>3. CASE Gateway!ListActive(a)
    <2> DEFINE gone == {m \in Members : enrollment[m] # 0} \ me.members
               to == [step |-> "depart", members |-> me.members, before |-> me.before, gone |-> gone]
    <2>1. Enrolls
      BY <1>0, <1>3, NobodyEnrolls DEF Gateway!ListActive
    <2>2. Listed(a)
      BY <1>3 DEF Gateway!ListActive, Listed
    <2>3. to.before = me.before /\ to.members = me.members /\ to.gone \cap to.members = {}
      OBVIOUS
    <2>4. attempt' = [attempt EXCEPT ![a] = to]
      BY <1>3 DEF Gateway!ListActive
    <2>5. \A m \in Members \ me.members : me.before[m] # 0 /\ enrollment'[m] = me.before[m] => m \in left'
      BY <1>0, <2>1, <2>2, UnseenStays
    <2> HIDE DEF to
    <2> QED
      BY <1>0, <2>1, <2>3, <2>4, <2>5, OthersUnseen
  <1>4. ASSUME NEW m \in Members, Gateway!DepartGone(a, m) PROVE LeaversKnown'
    <2> DEFINE to == [me EXCEPT !.gone = @ \ {m}]
    <2>1. Enrolls
      BY <1>0, <1>4, OneDeparts DEF Gateway!DepartGone
    <2>2. me \in Attempting /\ me.step = "depart" /\ Listed(a) /\ me.gone \cap me.members = {}
      BY <1>4 DEF Gateway!DepartGone, Attempted, Listed, LeaversKnown, Unseen
    <2>3. to.before = me.before /\ to.members = me.members /\ to.gone \subseteq me.gone
      BY <2>2 DEF Attempting
    <2>4. attempt' = [attempt EXCEPT ![a] = to]
      BY <1>4 DEF Gateway!DepartGone
    <2>5. \A k \in Members \ me.members : me.before[k] # 0 /\ enrollment'[k] = me.before[k] => k \in left'
      BY <1>0, <2>1, <2>2, UnseenStays
    <2> HIDE DEF to
    <2> QED
      BY <1>0, <2>1, <2>2, <2>3, <2>4, <2>5, OthersUnseen
  <1>5. CASE UNCHANGED enrollment /\ (attempt' = [attempt EXCEPT ![a] = [step |-> "failed"]]
                                      \/ attempt' = [attempt EXCEPT ![a] = None] \/ attempt' = attempt)
    <2>1. Enrolls
      BY <1>0, <1>5, NobodyEnrolls
    <2> DEFINE to == [step |-> "failed"]
    <2>2. to.step = "failed"
      OBVIOUS
    <2>3. CASE attempt' = [attempt EXCEPT ![a] = to]
      <3> HIDE DEF to
      <3> QED
        BY <1>0, <2>1, <2>2, <2>3, OthersUnseen
    <2>4. CASE attempt' = [attempt EXCEPT ![a] = None]
      BY <1>0, <2>1, <2>4, OthersUnseen
    <2>5. CASE attempt' = attempt
      BY <1>0, <2>1, <2>5, AllUnseen
    <2> QED
      BY <1>5, <2>3, <2>4, <2>5
  <1>6. CASE Gateway!AttemptFails(a) \/ Gateway!EndUnheard(a) \/ Gateway!Publish(a)
              \/ Gateway!AttemptFailed(a) \/ Gateway!Timeout(a)
    BY <1>5, <1>6 DEF Gateway!AttemptFails, Gateway!EndUnheard, Gateway!Publish, Gateway!AttemptFailed,
       Gateway!Timeout, Gateway!Quietly, Gateway!betting
  <1> QED
    BY <1>1, <1>2, <1>3, <1>4, <1>6 DEF Gateway!ReconcileStep

\* Every step.
LEMMA LeaversStep ==
  ASSUME Enrolled, Attempted, LeaversKnown, [Gateway!GatewayNext]_(Gateway!gatewayVars)
  PROVE  LeaversKnown'
  <1> USE DEF Gateway!discord, Gateway!betting, Gateway!runtime
  <1>0. Members \ present \subseteq left
    BY DEF LeaversKnown
  <1>1. ASSUME UNCHANGED <<enrollment, enrollments, attempt>>, left \subseteq left', Members \ present' \subseteq left'
        PROVE  LeaversKnown'
    <2>1. Enrolls /\ LeftKept
      BY <1>1, NobodyEnrolls DEF LeftKept
    <2> QED
      BY <1>1, <2>1, AllUnseen
  <1>2. CASE UNCHANGED Gateway!gatewayVars
    BY <1>0, <1>1, <1>2 DEF Gateway!gatewayVars
  <1>3. CASE Gateway!Connect \/ Gateway!Disconnect \/ Gateway!EndDelay \/ Gateway!AcceptDisconnected
    BY <1>0, <1>1, <1>3 DEF Gateway!Connect, Gateway!Disconnect, Gateway!EndDelay, Gateway!AcceptDisconnected
  <1>4. CASE Gateway!AcceptReady
    <2>1. CASE lifecycle \in {"stopping", "stopped"}
      BY <1>0, <1>1, <1>4, <2>1 DEF Gateway!AcceptReady
    <2>2. CASE lifecycle \notin {"stopping", "stopped"}
      <3>1. UNCHANGED <<enrollment, enrollments, left, present>> /\ Gateway!Starts(1, generation + 1)
        BY <1>4, <2>2 DEF Gateway!AcceptReady
      <3> QED
        BY <1>0, <3>1, NobodyEnrolls, NobodyMoves, UnseenStarts
    <2> QED
      BY <2>1, <2>2
  <1>5. CASE \E a \in Attempts : Gateway!ReconcileStep(a)
    BY <1>5, ReconcileStepLeavers
  <1>6. CASE Gateway!Retry
    <2>1. /\ UNCHANGED <<enrollment, enrollments, left, present>>
          /\ Gateway!Starts(handling.try, handling.generation)
      BY <1>6 DEF Gateway!Retry
    <2> QED
      BY <1>0, <2>1, NobodyEnrolls, NobodyMoves, UnseenStarts
  <1>7. CASE Gateway!DepartLeft
    <2>1. Enrolls
      BY <1>7, NobodyEnrolls, OneDeparts DEF Gateway!DepartLeft
    <2> QED
      BY <1>0, <1>7, <2>1, NobodyMoves, AllUnseen DEF Gateway!DepartLeft
  <1>8. ASSUME NEW m \in Members, Gateway!MemberStep(m) PROVE LeaversKnown'
    <2>1. CASE Gateway!Leave(m) \/ Gateway!Join(m) \/ Gateway!AskToEnroll(m)
      BY <1>0, <1>1, <2>1 DEF Gateway!Leave, Gateway!Join, Gateway!AskToEnroll
    <2>2. CASE Gateway!Enroll(m)
      <3>1. CASE enrollment[m] # 0
        BY <1>0, <1>1, <2>2, <3>1 DEF Gateway!Enroll
      <3>2. CASE enrollment[m] = 0
        <4>1. /\ enrollments' = [enrollments EXCEPT ![m] = @ + 1]
              /\ enrollment' = [enrollment EXCEPT ![m] = enrollments'[m]]
              /\ left' = IF m \in present THEN left \ {m} ELSE left
              /\ UNCHANGED <<present, attempt>>
          BY <2>2, <3>2 DEF Gateway!Enroll
        <4>2. Enrolls
          BY <4>1 DEF Enrolled, Enrolls, Numbers
        <4>3. LeftKept
          BY <4>1 DEF Enrolled, LeftKept, Numbers
        <4>4. Members \ present' \subseteq left'
          BY <1>0, <4>1
        <4> QED
          BY <4>1, <4>2, <4>3, <4>4, AllUnseen
      <3> QED
        BY <3>1, <3>2
    <2> QED
      BY <1>8, <2>1, <2>2 DEF Gateway!MemberStep
  <1>9. CASE Gateway!BeginStop \/ Gateway!StopCommands \/ Gateway!StopRuntime \/ Gateway!ReleaseLease
    BY <1>0, <1>1, <1>9 DEF Gateway!BeginStop, Gateway!StopCommands, Gateway!StopRuntime, Gateway!ReleaseLease
  <1>10. CASE Gateway!Exit
    BY <1>0, <1>10 DEF Gateway!Exit, LeaversKnown, Listed
  <1> QED
    BY <1>2, <1>3, <1>4, <1>5, <1>6, <1>7, <1>8, <1>9, <1>10 DEF Gateway!GatewayNext

\* Only two steps end an enrolment, and both know whose.
LEMMA MistakesStep ==
  ASSUME Enrolled, Attempted, LeaversKnown, [Gateway!GatewayNext]_(Gateway!gatewayVars),
         NEW m \in Members \ left, enrollment[m] # 0, enrollment'[m] = 0
  PROVE  \/ leaves # <<>> /\ m = Head(leaves)
         \/ \E a \in Attempts :
              /\ Listed(a) /\ attempt[a].step = "depart" /\ m \in attempt[a].gone
              /\ m \notin attempt[a].members /\ enrollment[m] > attempt[a].before[m]
  <1>1. enrollment \in Numbers /\ enrollments \in Numbers /\ enrollment[m] = enrollments[m]
    BY DEF Enrolled
  <1>2. Gateway!DepartLeft \/ \E a \in Attempts, k \in Members : Gateway!DepartGone(a, k)
    <2>1. CASE UNCHANGED enrollment
      BY <2>1
    <2>2. ASSUME NEW k \in Members, Gateway!Enroll(k) PROVE FALSE
      BY <1>1, <2>2 DEF Gateway!Enroll, Numbers
    <2> QED
      BY <2>1, <2>2 DEF Gateway!GatewayNext, Gateway!ReconcileStep, Gateway!MemberStep, Gateway!gatewayVars,
        Gateway!betting, Gateway!Connect, Gateway!Disconnect, Gateway!AcceptReady,
        Gateway!AcceptDisconnected, Gateway!EndDelay, Gateway!Quietly, Gateway!FetchMembers,
        Gateway!RefreshLabels, Gateway!ListActive, Gateway!AttemptFails, Gateway!EndUnheard,
        Gateway!Publish, Gateway!AttemptFailed, Gateway!Timeout, Gateway!Retry, Gateway!Leave, Gateway!Join,
        Gateway!AskToEnroll, Gateway!BeginStop, Gateway!StopCommands, Gateway!StopRuntime,
        Gateway!ReleaseLease, Gateway!Exit
  <1>3. CASE Gateway!DepartLeft
    <2>1. leaves # <<>> /\ enrollment' = [enrollment EXCEPT ![Head(leaves)] = 0]
      BY <1>3 DEF Gateway!DepartLeft, Gateway!Departs
    <2> QED
      BY <1>1, <2>1 DEF Numbers
  <1>4. ASSUME NEW a \in Attempts, NEW k \in Members, Gateway!DepartGone(a, k)
        PROVE  /\ Listed(a) /\ attempt[a].step = "depart" /\ m \in attempt[a].gone
               /\ m \notin attempt[a].members /\ enrollment[m] > attempt[a].before[m]
    <2>1. /\ attempt[a] # None /\ attempt[a].step = "depart" /\ k \in attempt[a].gone
          /\ enrollment' = [enrollment EXCEPT ![k] = 0]
      BY <1>4 DEF Gateway!DepartGone, Gateway!At, Gateway!Departs
    <2>2. Listed(a) /\ k = m
      BY <1>1, <2>1 DEF Listed, Numbers
    <2>3. m \notin attempt[a].members
      BY <2>1, <2>2 DEF LeaversKnown, Unseen
    <2>4. attempt[a].before \in Numbers /\ attempt[a].before[m] <= enrollments[m]
      BY <2>1 DEF Attempted, Upto
    <2>5. attempt[a].before[m] # enrollment[m]
      BY <2>2, <2>3 DEF LeaversKnown, Unseen
    <2> QED
      BY <1>1, <2>1, <2>2, <2>3, <2>4, <2>5 DEF Numbers
  <1> QED
    BY <1>2, <1>3, <1>4

\* GatewayRuntime: OnlyLeaversDepart, which run "departure" refutes, fails in two ways only.
\* Whoever is departed without having left since they enrolled was announced as a leaver
\* before, or was not in the server when an attempt fetched the members and has enrolled since.
THEOREM OnlyNewcomersTheorem == Gateway!GatewaySpec => OnlyNewcomersAreMistaken
  <1>1. ASSUME Enrolled, Attempted, LeaversKnown, [Gateway!GatewayNext]_(Gateway!gatewayVars)
        PROVE  LeaversKnown' /\ [\A m \in Members \ left : enrollment[m] # 0 /\ enrollment'[m] = 0 =>
       \/ leaves # <<>> /\ m = Head(leaves)
       \/ \E a \in Attempts :
            /\ Listed(a) /\ attempt[a].step = "depart" /\ m \in attempt[a].gone
            /\ m \notin attempt[a].members /\ enrollment[m] > attempt[a].before[m]]_(Gateway!gatewayVars)
    BY <1>1, LeaversStep, MistakesStep
  <1> QED
    BY <1>1, EnrolledInit, EnrolledStep, LeaversInit, PTL DEF Gateway!GatewaySpec, OnlyNewcomersAreMistaken

-----------------------------------------------------------------------------
\* Summaries: pages of a channel.

\* Cardinality and finiteness of the instance are those of the theorems.
LEMMA SameCardinality ==
  /\ \A S : Summary!Cardinality(S) = Cardinality(S) /\ Riot!Cardinality(S) = Cardinality(S)
  /\ \A S : Summary!IsFiniteSet(S) <=> IsFiniteSet(S)
  BY DEF Summary!Cardinality, Riot!Cardinality, Cardinality, Summary!IsFiniteSet, IsFiniteSet

\* The ids of messages are finitely many natural numbers from 1.
LEMMA IdsAreNumbers == IsFiniteSet(Ids) /\ Ids \subseteq Nat \ {0} /\ \E b \in Nat : \A i \in Ids : i <= b
  <1>1. IsFiniteSet(Ids) /\ Ids = 1..Cardinality(Ids)
    BY BotConstants, SameCardinality DEF Summary!SummaryConstants
  <1>2. Cardinality(Ids) \in Nat
    BY <1>1, FS_CardinalityType
  <1> HIDE DEF Cardinality
  <1>3. Ids \subseteq Nat \ {0} /\ \A i \in Ids : i <= Cardinality(Ids)
    BY <1>1, <1>2
  <1> QED
    BY <1>1, <1>2, <1>3

\* A set of natural numbers with a bound has a greatest element.
LEMMA GreatestNatural ==
  ASSUME NEW S \in SUBSET Nat, S # {}, NEW b \in Nat, \A i \in S : i <= b
  PROVE  \E m \in S : \A i \in S : m >= i
  <1> DEFINE bounds == {n \in Nat : \A i \in S : i <= n}
  <1>1. PICK m \in bounds : \A n \in bounds : m <= n
    <2>1. b \in bounds
      OBVIOUS
    <2> QED
      BY <2>1, LeastNatural
  <1>2. CASE m \in S
    BY <1>2
  <1>3. CASE m \notin S
    <2>1. PICK i \in S : TRUE
      OBVIOUS
    <2>2. m - 1 \in Nat /\ \A j \in S : j <= m - 1
      BY <1>1, <1>3, <2>1
    <2>3. m - 1 \in bounds
      BY <2>2
    <2> QED
      BY <1>1, <2>2, <2>3
  <1> QED
    BY <1>2, <1>3

\* Max and Min of the community modules.
LEMMA MaxIsGreatest ==
  ASSUME NEW S \in SUBSET Nat, S # {}, NEW b \in Nat, \A i \in S : i <= b
  PROVE  Summary!Max(S) \in S /\ \A i \in S : Summary!Max(S) >= i
  BY GreatestNatural DEF Summary!Max

\* ... and the least one.
LEMMA MinIsLeast ==
  ASSUME NEW S \in SUBSET Nat, S # {}
  PROVE  Summary!Min(S) \in S /\ \A i \in S : Summary!Min(S) <= i
  BY LeastNatural DEF Summary!Min

\* A page has with a message all newer ones.
LEMMA PageIsUpward ==
  ASSUME NEW ids \in SUBSET Ids, NEW i \in Summary!Newest(ids), NEW j \in ids, j >= i
  PROVE  j \in Summary!Newest(ids)
  <1> DEFINE above(k) == {x \in ids : x > k}
  <1>1. IsFiniteSet(ids) /\ ids \subseteq Nat /\ PageLimit \in Nat
    BY IdsAreNumbers, FS_Subset, BotConstants DEF Summary!SummaryConstants
  <1>2. IsFiniteSet(above(i)) /\ i \in ids
    BY <1>1, FS_Subset DEF Summary!Newest
  <1>3. above(j) \subseteq above(i)
    <2>1. i \in Nat /\ j \in Nat /\ j >= i
      BY <1>1, <1>2
    <2>2. \A x \in ids : x \in Nat /\ (x > j => x > i)
      BY <1>1, <2>1
    <2> QED
      BY <2>2
  <1>4. IsFiniteSet(above(j)) /\ Cardinality(above(j)) <= Cardinality(above(i))
    BY <1>2, <1>3, FS_Subset
  <1>5. Cardinality(above(i)) \in Nat /\ Cardinality(above(j)) \in Nat
    BY <1>2, <1>4, FS_CardinalityType
  <1>6. Cardinality(above(i)) < PageLimit
    BY SameCardinality DEF Summary!Newest
  <1>7. Cardinality(above(j)) < PageLimit
    BY <1>1, <1>4, <1>5, <1>6
  <1> QED
    BY <1>7, SameCardinality DEF Summary!Newest

\* A page that is not full is all there is.
LEMMA ShortPageIsAll ==
  ASSUME NEW ids \in SUBSET Ids, Summary!Cardinality(Summary!Newest(ids)) < PageLimit
  PROVE  Summary!Newest(ids) = ids
  <1> DEFINE shown == Summary!Newest(ids)
             rest == ids \ shown
  <1>1. IsFiniteSet(ids) /\ ids \subseteq Nat /\ PageLimit \in Nat
    BY IdsAreNumbers, FS_Subset, BotConstants DEF Summary!SummaryConstants
  <1>2. shown \subseteq ids
    BY DEF Summary!Newest
  <1>3. ASSUME rest # {} PROVE FALSE
    <2>1. PICK m \in rest : \A i \in rest : m >= i
      BY <1>1, <1>3, IdsAreNumbers, GreatestNatural
    <2> DEFINE above == {x \in ids : x > m}
    <2>2. above \subseteq shown
      <3>1. m \in Nat /\ \A x \in rest : x \in Nat /\ m >= x /\ ~(x > m)
        BY <1>1, <2>1
      <3> QED
        BY <3>1
    <2>3. IsFiniteSet(shown) /\ Cardinality(shown) < PageLimit
      BY <1>1, <1>2, FS_Subset, SameCardinality
    <2>4. Cardinality(above) <= Cardinality(shown) /\ IsFiniteSet(above)
      BY <2>2, <2>3, FS_Subset
    <2>5. Cardinality(above) \in Nat /\ Cardinality(shown) \in Nat
      BY <2>3, <2>4, FS_CardinalityType
    <2>6. Cardinality(above) < PageLimit
      BY <1>1, <2>3, <2>4, <2>5
    <2>7. m \in shown
      BY <2>6, SameCardinality DEF Summary!Newest
    <2> QED
      BY <2>1, <2>7
  <1> QED
    BY <1>2, <1>3

-----------------------------------------------------------------------------
\* Summaries: types, and what a summary is of.

Decisions == [decision : {"reserved", "cooldown"}, at : Nat]
Calls == [id : Interactions, messages : SUBSET Ids, from : Int, to : Int, there : SUBSET Ids]

Collecting == [step : {"read"}, id : Interactions, from : Int, to : Int, before : Nat,
            collected : SUBSET Ids, there : SUBSET Ids]
Checking == [step : {"check"}, id : Interactions, collected : SUBSET Ids, from : Int, to : Int,
             there : SUBSET Ids]
Calling == [step : {"reserve", "summarize"}, id : Interactions, call : Calls]
Locking == [step : {"lock"}, id : Interactions, call : Calls, at : Nat]
Committing == [step : {"commit"}, id : Interactions, call : Calls, row : Decisions]
Closing == [step : {"audit"}, id : Interactions, outcome : {"failure", "denied", "success"}]
             \cup [step : {"reply"}, id : Interactions]

SummaryTypeOK ==
  /\ now \in Nat
  /\ posted \in [Ids -> Nat \cup {None}]
  /\ inbox \in Seq(Interactions)
  /\ command # None =>
       command \in Collecting \cup Checking \cup Calling \cup Locking \cup Committing \cup Closing
  /\ reservation \in [Interactions -> Decisions \cup {None}]
  /\ \A r \in unsettled : r \in [id : Interactions, row : Decisions]

\* The channel: messages are posted in the order of their ids.
Posted(i) == i \in Ids /\ posted[i] # None
Chronicle ==
  /\ \A i \in channel : Posted(i)
  /\ \A i \in Ids : posted[i] # None => posted[i] <= now
  /\ \A i, j \in Ids : i < j /\ posted[j] # None => posted[i] # None /\ posted[i] <= posted[j]

\* Messages of a range.
Ranged(ids, from, to) == \A i \in ids : Posted(i) /\ Summary!InRange(i, from, to)

\* What a reader has of its range: all there was, from the oldest message it has seen on.
Complete(m) ==
  /\ Ranged(m.collected, m.from, m.to) /\ Ranged(m.there, m.from, m.to)
  /\ \A i \in m.there \cap channel :
       (m.step = "read" => m.before # 0 /\ i >= m.before) => i \in m.collected

\* What is reserved for, and sent away: all there was.
Whole(call) == Ranged(call.messages, call.from, call.to) /\ call.there \subseteq call.messages

Reads ==
  /\ SummaryTypeOK /\ Chronicle
  /\ Summary!At("read") => Complete(command)
  /\ Summary!At("check") => Complete(command) /\ command.there \subseteq command.collected
  /\ Summary!At("reserve") \/ Summary!At("lock") \/ Summary!At("commit") \/ Summary!At("summarize") =>
       Whole(command.call) /\ command.call.id = command.id
  /\ \A call \in provided : Whole(call)

\* What a command is at each of its steps.
LEMMA CommandTypes ==
  ASSUME SummaryTypeOK
  PROVE  /\ Summary!At("read") => command \in Collecting
         /\ Summary!At("check") => command \in Checking
         /\ Summary!At("reserve") \/ Summary!At("summarize") => command \in Calling
         /\ Summary!At("lock") => command \in Locking
         /\ Summary!At("commit") => command \in Committing
         /\ command # None => command.id \in Interactions
  BY DEF SummaryTypeOK, Summary!At, Collecting, Checking, Calling, Locking, Committing, Closing

\* A bot that has just started reads nothing.
LEMMA ReadsInit == Summary!SummaryInit => Reads
  <1> SUFFICES ASSUME Summary!SummaryInit PROVE Reads
    OBVIOUS
  <1>1. PICK n \in {0} \cup Ids : /\ channel = {i \in Ids : i <= n}
                                  /\ posted \in [Ids -> 0..(Hour - 1) \cup {None}]
                                  /\ \A i \in Ids : (posted[i] = None) = (i > n)
                                  /\ \A i, j \in channel : i < j => posted[i] <= posted[j]
    BY DEF Summary!SummaryInit
  <1>2. Hour \in Nat \ {0} /\ now = Hour /\ n \in Nat /\ Ids \subseteq Nat /\ None \notin Nat
    BY IdsAreNumbers, BotConstants DEF Summary!SummaryInit, Summary!SummaryConstants
  <1>3. /\ inbox = <<>> /\ command = None /\ unsettled = {} /\ provided = {}
        /\ reservation = [i \in Interactions |-> None]
    BY DEF Summary!SummaryInit
  <1>4. posted \in [Ids -> Nat \cup {None}] /\ \A i \in Ids : posted[i] # None => posted[i] <= now
    BY <1>1, <1>2
  <1>5. SummaryTypeOK
    BY <1>2, <1>3, <1>4 DEF SummaryTypeOK
  <1>6. Chronicle
    <2>1. \A i \in Ids : Posted(i) <=> i \in channel
      BY <1>1, <1>2 DEF Posted
    <2>2. ASSUME NEW i \in Ids, NEW j \in Ids, i < j, posted[j] # None
          PROVE  posted[i] # None /\ posted[i] <= posted[j]
      <3>1. i \in channel /\ j \in channel
        BY <1>1, <1>2, <2>1, <2>2 DEF Posted
      <3> QED
        BY <1>1, <2>1, <2>2, <3>1 DEF Posted
    <2> QED
      BY <1>1, <1>4, <2>1, <2>2 DEF Chronicle
  <1> QED
    BY <1>3, <1>5, <1>6 DEF Reads, Summary!At

\* What has been posted stays where it was said.
LEMMA ChronicleStays ==
  ASSUME SummaryTypeOK, Chronicle, UNCHANGED posted, channel' \subseteq channel, now' \in Nat, now' >= now
  PROVE  /\ Chronicle'
         /\ \A ids, from, to : Ranged(ids, from, to) => Ranged(ids, from, to)'
  BY DEF SummaryTypeOK, Chronicle, Posted, Ranged, Summary!InRange

\* A command that moves on keeps the types if it and the rows it writes have them.
LEMMA TypesMove ==
  ASSUME SummaryTypeOK, NEW to, Summary!Moves(to),
         to = None \/ to \in Collecting \cup Checking \cup Calling \cup Locking \cup Committing \cup Closing,
         reservation' \in [Interactions -> Decisions \cup {None}], unsettled' = unsettled
  PROVE  SummaryTypeOK'
  BY DEF SummaryTypeOK, Summary!Moves, Summary!conversation, Summary!outside

\* Decided for, a command is over but for its outcome and its answer.
LEMMA TypesDecide ==
  ASSUME SummaryTypeOK, NEW outcome \in {"failure", "denied", "success"}, Summary!Decides(outcome),
         command # None,
         reservation' \in [Interactions -> Decisions \cup {None}], unsettled' = unsettled
  PROVE  SummaryTypeOK' /\ command' \in Closing /\ command'.step = "audit"
  <1> DEFINE to == [step |-> "audit", id |-> command.id, outcome |-> outcome]
  <1>1. to \in Closing /\ to.step = "audit"
    BY CommandTypes DEF Closing
  <1>2. Summary!Moves(to)
    BY DEF Summary!Decides
  <1> HIDE DEF to
  <1>3. command' = to
    BY <1>2 DEF Summary!Moves
  <1> QED
    BY <1>1, <1>2, <1>3, TypesMove

\* What a decision means for a command: it goes on to be summarised, or is denied.
LEMMA MeantTypes ==
  ASSUME NEW decision, NEW call \in Calls
  PROVE  /\ Summary!Meant(decision, call) \in Calling \cup Closing
         /\ Summary!Meant(decision, call).step \in {"summarize", "audit"}
         /\ Summary!Meant(decision, call).id = call.id
         /\ Summary!Meant(decision, call).step = "summarize" =>
              decision = "reserved" /\ Summary!Meant(decision, call).call = call
  BY DEF Summary!Meant, Calling, Closing, Calls

\* Nothing is read, decided or sent away: time passes, messages go, interactions arrive.
LEMMA ReadsStay ==
  ASSUME Reads, SummaryTypeOK', now' >= now, channel' \subseteq channel,
         UNCHANGED <<posted, command, provided>>
  PROVE  Reads'
  <1>1. SummaryTypeOK /\ Chronicle /\ now' \in Nat
    BY DEF Reads, SummaryTypeOK
  <1>2. Chronicle' /\ \A ids, from, to : Ranged(ids, from, to) => Ranged(ids, from, to)'
    BY <1>1, ChronicleStays
  <1>3. Summary!At("read") \/ Summary!At("check") => Complete(command)'
    BY <1>2 DEF Reads, Complete
  <1>4. \A call : Whole(call) => Whole(call)'
    BY <1>2 DEF Whole
  <1> QED
    BY <1>2, <1>3, <1>4 DEF Reads, Summary!At

\* A command moves on over the same messages.
LEMMA ReadsMove ==
  ASSUME Reads, SummaryTypeOK', NEW to, Summary!Moves(to), provided' = provided,
         to # None =>
           /\ to.step = "read" => Complete(to)
           /\ to.step = "check" => Complete(to) /\ to.there \subseteq to.collected
           /\ to.step \in {"reserve", "lock", "commit", "summarize"} => Whole(to.call) /\ to.call.id = to.id
  PROVE  Reads'
  <1>1. SummaryTypeOK /\ Chronicle /\ UNCHANGED <<now, posted, channel>> /\ command' = to
    BY DEF Reads, Summary!Moves, Summary!conversation
  <1>2. Chronicle'
    BY <1>1 DEF Chronicle, Posted
  <1>3. \A call : Whole(call) => Whole(call)'
    BY <1>1 DEF Whole, Ranged, Posted, Summary!InRange
  <1>4. command' # None /\ command'.step \in {"read", "check"} => Complete(command)'
    BY <1>1 DEF Complete, Ranged, Posted, Summary!InRange
  <1>5. command' # None /\ command'.step \in {"reserve", "lock", "commit", "summarize"} => Whole(command.call)'
    BY <1>1 DEF Whole, Ranged, Posted, Summary!InRange
  <1>6. \A call \in provided' : Whole(call)'
    BY <1>3 DEF Reads
  <1> QED
    BY <1>1, <1>2, <1>4, <1>5, <1>6 DEF Reads, Summary!At

\* It is decided.
LEMMA ReadsDecide ==
  ASSUME Reads, NEW outcome \in {"failure", "denied", "success"}, Summary!Decides(outcome),
         command # None, provided' = provided,
         reservation' \in [Interactions -> Decisions \cup {None}], unsettled' = unsettled
  PROVE  Reads'
  <1> DEFINE to == [step |-> "audit", id |-> command.id, outcome |-> outcome]
  <1>1. SummaryTypeOK'
    BY TypesDecide DEF Reads
  <1>2. Summary!Moves(to) /\ to.step = "audit"
    BY DEF Summary!Decides
  <1> HIDE DEF to
  <1> QED
    BY <1>1, <1>2, ReadsMove

\* A message is posted: the range of a command in hand has ended or does not reach it, and
\* what was there is there.
LEMMA PostReads == ASSUME Reads, NEW i \in Ids, Summary!Post(i) PROVE Reads'
  <1>1. /\ posted[i] = None /\ (\A j \in Ids : j < i => posted[j] # None)
        /\ posted' = [posted EXCEPT ![i] = now] /\ channel' = channel \cup {i}
        /\ UNCHANGED <<now, inbox, command, unsettled, reservation, provided>>
    BY DEF Summary!Post, Summary!outside, Summary!quota, Summary!outcomes
  <1>2. SummaryTypeOK /\ Chronicle /\ Ids \subseteq Nat /\ None \notin Nat
    BY IdsAreNumbers, BotConstants DEF Reads, Summary!SummaryConstants
  <1>3. SummaryTypeOK'
    BY <1>1, <1>2 DEF SummaryTypeOK
  <1>4. \A j \in Ids : posted'[j] = IF j = i THEN now ELSE posted[j]
    BY <1>1, <1>2 DEF SummaryTypeOK
  <1>5. now \in Nat /\ \A j \in Ids : posted[j] # None => posted[j] \in Nat
    BY <1>2 DEF SummaryTypeOK
  <1>6. Chronicle'
    <2>1. (\A j \in channel : Posted(j))' /\ (\A j \in Ids : posted[j] # None => posted[j] <= now)'
      BY <1>1, <1>2, <1>4, <1>5 DEF Chronicle, Posted
    <2>2. ASSUME NEW j \in Ids, NEW k \in Ids, j < k, posted'[k] # None
          PROVE  posted'[j] # None /\ posted'[j] <= posted'[k]
      <3>1. CASE k = i
        BY <1>1, <1>2, <1>4, <1>5, <2>2, <3>1 DEF Chronicle
      <3>2. CASE k # i
        <4>1. posted[k] # None /\ posted[j] # None /\ posted[j] <= posted[k]
          BY <1>2, <1>4, <2>2, <3>2 DEF Chronicle
        <4> QED
          BY <1>1, <1>4, <2>2, <3>2, <4>1
      <3> QED
        BY <3>1, <3>2
    <2> QED
      BY <2>1, <2>2 DEF Chronicle
  <1>7. \A ids, from, to : Ranged(ids, from, to) => Ranged(ids, from, to)' /\ i \notin ids
    BY <1>1, <1>4 DEF Ranged, Posted, Summary!InRange
  <1>8. Summary!At("read") \/ Summary!At("check") => Complete(command)'
    BY <1>1, <1>7 DEF Reads, Complete
  <1>9. \A call : Whole(call) => Whole(call)'
    BY <1>7 DEF Whole
  <1> QED
    BY <1>1, <1>3, <1>6, <1>8, <1>9 DEF Reads, Summary!At

\* A command begins: all of its range is still to be read.
LEMMA BeginReads == ASSUME Reads, Summary!Begin PROVE Reads'
  <1>1. PICK span \in Spans :
          command' = [step |-> "read", id |-> Head(inbox), from |-> now - span, to |-> now,
                      before |-> 0, collected |-> {},
                      there |-> {i \in channel : Summary!InRange(i, now - span, now)}]
    BY DEF Summary!Begin
  <1> DEFINE there == {i \in channel : Summary!InRange(i, now - span, now)}
             to == [step |-> "read", id |-> Head(inbox), from |-> now - span, to |-> now,
                    before |-> 0, collected |-> {}, there |-> there]
  <1>2. /\ inbox # <<>> /\ inbox' = Tail(inbox) /\ UNCHANGED <<now, posted, channel, unsettled, reservation, provided>>
    BY DEF Summary!Begin, Summary!conversation, Summary!quota, Summary!outcomes
  <1>3. SummaryTypeOK /\ Chronicle /\ span \in Nat
    BY BotConstants DEF Reads, Summary!SummaryConstants
  <1>4. Head(inbox) \in Interactions /\ Tail(inbox) \in Seq(Interactions)
    BY <1>2, <1>3 DEF SummaryTypeOK
  <1>5. there \subseteq Ids /\ Ranged(there, now - span, now)
    BY <1>3 DEF Chronicle, Posted, Ranged
  <1> HIDE DEF there
  <1>6. to \in Collecting
    BY <1>3, <1>4, <1>5 DEF Collecting, SummaryTypeOK
  <1>7. SummaryTypeOK'
    BY <1>1, <1>2, <1>3, <1>4, <1>6 DEF SummaryTypeOK, there
  <1>8. /\ command' = to /\ to.step = "read" /\ to.before = 0 /\ to.collected = {} /\ to.there = there
        /\ to.from = now - span /\ to.to = now
    BY <1>1 DEF there
  <1> HIDE DEF to
  <1>9. Complete(to)
    BY <1>5, <1>8 DEF Complete, Ranged
  <1>10. Complete(command)'
    BY <1>2, <1>8, <1>9 DEF Complete, Ranged, Posted, Summary!InRange
  <1>11. Chronicle'
    BY <1>2, <1>3 DEF Chronicle, Posted
  <1>12. \A call \in provided' : Whole(call)'
    BY <1>2 DEF Reads, Whole, Ranged, Posted, Summary!InRange
  <1> QED
    BY <1>7, <1>8, <1>10, <1>11, <1>12 DEF Reads, Summary!At

\* A page is read: with it, all there was from its oldest message on, or from the beginning of
\* the range if it is the last one.
LEMMA ReadPageReads == ASSUME Reads, Summary!ReadPage PROVE Reads'
  <1> DEFINE ids == {i \in channel : command.before = 0 \/ i < command.before}
             shown == Summary!Newest(ids)
             new == {i \in shown : Summary!InRange(i, command.from, command.to)}
             collected == command.collected \cup new
             there == command.there \cap channel
             last == [step |-> "check", id |-> command.id, collected |-> collected,
                      from |-> command.from, to |-> command.to, there |-> there]
             next == [command EXCEPT !.before = Summary!Min(shown), !.collected = collected]
  <1>1. /\ Summary!At("read") /\ UNCHANGED <<unsettled, reservation, provided>>
        /\ Summary!Moves(IF Summary!Last(shown, command.from) THEN last ELSE next)
    BY DEF Summary!ReadPage, Summary!quota, Summary!outcomes
  <1>2. SummaryTypeOK /\ Chronicle /\ command \in Collecting /\ Complete(command) /\ command # None
        /\ command.step = "read"
    BY <1>1, CommandTypes DEF Reads, Summary!At
  <1>3. /\ Ids \subseteq Nat \ {0} /\ PageLimit \in Nat \ {0} /\ None \notin Nat
        /\ \A i \in Ids : posted[i] # None => posted[i] \in Nat
    BY <1>2, IdsAreNumbers, BotConstants DEF Summary!SummaryConstants, SummaryTypeOK
  <1>4. ids \subseteq Ids /\ shown \subseteq ids /\ channel \subseteq Ids
    BY <1>2 DEF Chronicle, Posted, Summary!Newest
  <1>5. /\ command.id \in Interactions /\ command.from \in Int /\ command.to \in Int
        /\ command.before \in Nat /\ command.collected \subseteq Ids /\ command.there \subseteq Ids
    BY <1>2 DEF Collecting
  <1>6. collected \subseteq Ids /\ there \subseteq Ids
    BY <1>4, <1>5
  <1>7. Ranged(new, command.from, command.to)
    BY <1>2, <1>4 DEF Ranged, Chronicle
  <1>8. Ranged(collected, command.from, command.to) /\ Ranged(there, command.from, command.to)
    BY <1>2, <1>7 DEF Complete, Ranged
  <1>9. ASSUME NEW i \in there PROVE i \in command.collected \/ i \in ids
    <2>1. i \in channel /\ i \in command.there /\ i \in Nat
      BY <1>3, <1>5
    <2>2. command.before # 0 /\ i >= command.before => i \in command.collected
      BY <1>2, <2>1 DEF Complete
    <2>3. CASE command.before # 0 /\ i >= command.before
      BY <2>2, <2>3
    <2>4. CASE command.before = 0 \/ i < command.before
      BY <2>1, <2>4
    <2> QED
      BY <1>5, <2>1, <2>3, <2>4
  <1>10. \A i \in there : i \in shown => i \in collected
    BY <1>8 DEF Ranged
  <1>11. CASE Summary!Last(shown, command.from)
    <2>1. ASSUME NEW i \in there, i \in ids, i \notin shown PROVE FALSE
      <3>1. ~(Summary!Cardinality(shown) < PageLimit)
        BY <1>4, <2>1, ShortPageIsAll
      <3>2. posted[Summary!Min(shown)] < command.from
        BY <1>11, <3>1 DEF Summary!Last
      <3>3. shown # {}
        BY <1>3, <3>1, SameCardinality, FS_EmptySet
      <3>4. Summary!Min(shown) \in shown
        BY <1>3, <1>4, <3>3, MinIsLeast
      <3>5. i < Summary!Min(shown)
        <4> DEFINE oldest == Summary!Min(shown)
        <4>1. i \in Nat /\ oldest \in Nat /\ oldest \in shown
          BY <1>3, <1>4, <2>1, <3>4
        <4>2. ~(i >= oldest)
          BY <1>4, <2>1, <4>1, PageIsUpward
        <4> HIDE DEF oldest
        <4>3. i < oldest
          BY <4>1, <4>2
        <4> QED
          BY <4>3 DEF oldest
      <3>6. Posted(i) /\ Posted(Summary!Min(shown)) /\ posted[i] >= command.from
        BY <1>2, <1>4, <1>8, <2>1, <3>4 DEF Ranged, Chronicle, Summary!InRange
      <3>7. posted[i] <= posted[Summary!Min(shown)]
        BY <1>2, <3>5, <3>6 DEF Chronicle, Posted
      <3>8. posted[i] \in Nat /\ posted[Summary!Min(shown)] \in Nat
        BY <1>3, <3>6 DEF Posted
      <3> QED
        BY <1>5, <3>2, <3>6, <3>7, <3>8
    <2>2. there \subseteq collected
      BY <1>9, <1>10, <2>1
    <2> HIDE DEF collected, there
    <2>3. last \in Checking
      BY <1>5, <1>6 DEF Checking
    <2>4. /\ last.step = "check" /\ last.collected = collected /\ last.there = there
          /\ last.from = command.from /\ last.to = command.to
      OBVIOUS
    <2>5. Summary!Moves(last)
      BY <1>1, <1>11 DEF collected, there
    <2> HIDE DEF last
    <2>6. SummaryTypeOK'
      BY <1>1, <1>2, <2>3, <2>5, TypesMove DEF SummaryTypeOK
    <2>7. Complete(last)
      BY <1>8, <2>2, <2>4 DEF Complete
    <2> QED
      BY <1>1, <2>2, <2>4, <2>5, <2>6, <2>7, ReadsMove
  <1>12. CASE ~Summary!Last(shown, command.from)
    <2>1. ~(Summary!Cardinality(shown) < PageLimit)
      BY <1>12 DEF Summary!Last
    <2>2. shown # {}
      BY <1>3, <2>1, SameCardinality, FS_EmptySet
    <2>3. Summary!Min(shown) \in shown /\ Summary!Min(shown) \in Nat \ {0}
      BY <1>3, <1>4, <2>2, MinIsLeast
    <2>4. ASSUME NEW i \in there, i >= Summary!Min(shown) PROVE i \in collected
      <3>1. CASE i \in command.collected
        BY <3>1
      <3>2. CASE i \in ids
        BY <1>4, <1>10, <2>3, <2>4, <3>2, PageIsUpward
      <3> QED
        BY <1>9, <3>1, <3>2
    <2> DEFINE oldest == Summary!Min(shown)
    <2>5. oldest \in Nat \ {0} /\ \A i \in there : i >= oldest => i \in collected
      BY <2>3, <2>4
    <2> HIDE DEF collected, oldest
    <2>6. next \in Collecting
      BY <1>2, <1>6, <2>5 DEF Collecting, oldest
    <2>7. /\ next.step = "read" /\ next.collected = collected /\ next.there = command.there
          /\ next.from = command.from /\ next.to = command.to /\ next.before = oldest
      BY <1>2 DEF Collecting, oldest
    <2>8. Summary!Moves(next)
      BY <1>1, <1>12 DEF collected
    <2> HIDE DEF next
    <2>9. SummaryTypeOK'
      BY <1>1, <1>2, <2>6, <2>8, TypesMove DEF SummaryTypeOK
    <2>10. Complete(next)
      BY <1>2, <1>8, <2>5, <2>7 DEF Complete
    <2> QED
      BY <1>1, <2>7, <2>8, <2>9, <2>10, ReadsMove
  <1> QED
    BY <1>11, <1>12

\* What there was in the range is reserved for if it is not too much.
LEMMA CheckSizeReads == ASSUME Reads, Summary!CheckSize PROVE Reads'
  <1> DEFINE call == [id |-> command.id, messages |-> command.collected, from |-> command.from,
                      to |-> command.to, there |-> command.there]
             to == [step |-> "reserve", id |-> command.id, call |-> call]
  <1>1. /\ Summary!At("check") /\ UNCHANGED <<unsettled, reservation, provided>>
        /\ Summary!Decides("failure") \/ Summary!Moves(to)
    BY DEF Summary!CheckSize, Summary!quota, Summary!outcomes
  <1>2. SummaryTypeOK /\ command \in Checking /\ Complete(command) /\ command # None
        /\ command.there \subseteq command.collected
    BY <1>1, CommandTypes DEF Reads, Summary!At
  <1>3. call \in Calls /\ Whole(call) /\ call.id = command.id /\ command.id \in Interactions
    BY <1>2 DEF Checking, Calls, Complete, Whole
  <1> HIDE DEF call
  <1>4. to \in Calling /\ to.step = "reserve" /\ to.call = call /\ to.id = command.id
    BY <1>3 DEF Calling
  <1> HIDE DEF to
  <1>5. CASE Summary!Moves(to)
    <2>1. SummaryTypeOK'
      BY <1>1, <1>2, <1>4, <1>5, TypesMove DEF SummaryTypeOK
    <2> QED
      BY <1>1, <1>3, <1>4, <1>5, <2>1, ReadsMove
  <1>6. CASE Summary!Decides("failure")
    BY <1>1, <1>2, <1>6, ReadsDecide DEF SummaryTypeOK
  <1> QED
    BY <1>1, <1>5, <1>6

\* A call that is decided: it is still of all there was.
LEMMA MeantReads ==
  ASSUME Reads, NEW decision, Summary!Moves(Summary!Meant(decision, command.call)),
         command.call \in Calls, Whole(command.call), unsettled' = unsettled, provided' = provided,
         reservation' \in [Interactions -> Decisions \cup {None}]
  PROVE  Reads'
  <1> DEFINE to == Summary!Meant(decision, command.call)
  <1>1. /\ to \in Calling \cup Closing /\ to.step \in {"summarize", "audit"} /\ to.id = command.call.id
        /\ to.step = "summarize" => to.call = command.call
    BY MeantTypes
  <1> HIDE DEF to
  <1>2. Summary!Moves(to)
    BY DEF to
  <1>3. SummaryTypeOK'
    BY <1>1, <1>2, TypesMove DEF Reads
  <1> QED
    BY <1>1, <1>2, <1>3, ReadsMove

\* The transaction of a reservation.
LEMMA ReserveReads ==
  ASSUME Reads, Summary!FindReservation \/ Summary!WriteReservation \/ Summary!Commit \/ Summary!ReserveFails
  PROVE  Reads'
  <1>1. SummaryTypeOK /\ now \in Nat /\ reservation \in [Interactions -> Decisions \cup {None}]
    BY DEF Reads, SummaryTypeOK
  <1>2. CASE Summary!FindReservation
    <2> DEFINE to == [step |-> "lock", id |-> command.id, call |-> command.call, at |-> now]
    <2>1. /\ Summary!At("reserve") /\ UNCHANGED <<unsettled, reservation, provided>>
          /\ \/ Summary!Moves(Summary!Meant(reservation[command.id].decision, command.call))
             \/ Summary!Moves(to)
      BY <1>2 DEF Summary!FindReservation, Summary!quota, Summary!outcomes
    <2>2. /\ command.id \in Interactions /\ command.call \in Calls
          /\ Whole(command.call) /\ command.call.id = command.id
      BY <1>1, <2>1, CommandTypes DEF Reads, Calling
    <2>3. to \in Locking /\ to.step = "lock" /\ to.call = command.call /\ to.id = command.id
      BY <1>1, <2>2 DEF Locking
    <2> HIDE DEF to
    <2>4. CASE Summary!Moves(to)
      <3>1. SummaryTypeOK'
        BY <1>1, <2>1, <2>3, <2>4, TypesMove
      <3> QED
        BY <2>1, <2>2, <2>3, <2>4, <3>1, ReadsMove
    <2> QED
      BY <1>1, <2>1, <2>2, <2>4, MeantReads
  <1>3. CASE Summary!WriteReservation
    <2>1. /\ Summary!At("lock") /\ UNCHANGED <<unsettled, reservation, provided>>
          /\ \/ Summary!Decides("failure")
             \/ \E decision \in {"reserved", "cooldown"} :
                  Summary!Moves([step |-> "commit", id |-> command.id, call |-> command.call,
                                 row |-> [decision |-> decision, at |-> command.at]])
      BY <1>3 DEF Summary!WriteReservation, Summary!quota, Summary!outcomes
    <2>2. /\ command # None /\ command.id \in Interactions /\ command.call \in Calls /\ command.at \in Nat
          /\ Whole(command.call) /\ command.call.id = command.id
      BY <1>1, <2>1, CommandTypes DEF Reads, Locking, Summary!At
    <2>3. ASSUME NEW decision \in {"reserved", "cooldown"},
                 Summary!Moves([step |-> "commit", id |-> command.id, call |-> command.call,
                                row |-> [decision |-> decision, at |-> command.at]])
          PROVE  Reads'
      <3> DEFINE row == [decision |-> decision, at |-> command.at]
                 to == [step |-> "commit", id |-> command.id, call |-> command.call, row |-> row]
      <3>1. row \in Decisions
        BY <2>2 DEF Decisions
      <3> HIDE DEF row
      <3>2. to \in Committing /\ to.step = "commit" /\ to.call = command.call /\ to.id = command.id
        BY <2>2, <3>1 DEF Committing
      <3>3. Summary!Moves(to)
        BY <2>3 DEF row
      <3> HIDE DEF to
      <3>4. SummaryTypeOK'
        BY <1>1, <2>1, <3>2, <3>3, TypesMove
      <3> QED
        BY <2>1, <2>2, <3>2, <3>3, <3>4, ReadsMove
    <2> QED
      BY <1>1, <2>1, <2>2, <2>3, ReadsDecide
  <1>4. CASE Summary!Commit
    <2>1. /\ Summary!At("commit") /\ UNCHANGED <<unsettled, provided>>
          /\ reservation' = [reservation EXCEPT ![command.id] = command.row]
          /\ Summary!Moves(Summary!Meant(command.row.decision, command.call))
      BY <1>4 DEF Summary!Commit, Summary!outcomes
    <2>2. command.call \in Calls /\ Whole(command.call) /\ command.row \in Decisions
      BY <1>1, <2>1, CommandTypes DEF Reads, Committing
    <2>3. reservation' \in [Interactions -> Decisions \cup {None}]
      BY <1>1, <2>1, <2>2
    <2> QED
      BY <2>1, <2>2, <2>3, MeantReads
  <1>5. CASE Summary!ReserveFails
    <2>1. /\ command # None /\ Summary!Decides("failure") /\ UNCHANGED <<unsettled, provided>>
          /\ \/ reservation' = reservation
             \/ Summary!At("commit") /\ reservation' = [reservation EXCEPT ![command.id] = command.row]
      BY <1>5 DEF Summary!ReserveFails, Summary!outcomes, Summary!At
    <2>2. Summary!At("commit") => command.row \in Decisions
      BY <1>1, CommandTypes DEF Committing
    <2>3. reservation' \in [Interactions -> Decisions \cup {None}]
      BY <1>1, <2>1, <2>2
    <2> QED
      BY <2>1, <2>3, ReadsDecide
  <1> QED
    BY <1>2, <1>3, <1>4, <1>5

\* All there was is sent away.
LEMMA SummarizeReads == ASSUME Reads, Summary!Summarize PROVE Reads'
  <1>1. /\ Summary!At("summarize") /\ UNCHANGED <<unsettled, reservation>>
        /\ provided' = provided \cup {command.call}
        /\ Summary!Decides("success") \/ Summary!Decides("failure")
    BY DEF Summary!Summarize, Summary!quota
  <1>2. /\ SummaryTypeOK /\ Chronicle /\ command # None /\ Whole(command.call)
        /\ \A call \in provided : Whole(call)
    BY <1>1 DEF Reads, Summary!At
  <1>3. SummaryTypeOK' /\ command'.step = "audit"
    BY <1>1, <1>2, TypesDecide DEF SummaryTypeOK
  <1>4. UNCHANGED <<now, posted, channel>>
    BY <1>1 DEF Summary!Decides, Summary!Moves, Summary!conversation
  <1>5. Chronicle' /\ \A call : Whole(call) => Whole(call)'
    BY <1>2, <1>4 DEF Chronicle, Whole, Ranged, Posted, Summary!InRange
  <1>6. \A call \in provided' : Whole(call)'
    BY <1>1, <1>2, <1>5
  <1> QED
    BY <1>3, <1>5, <1>6 DEF Reads, Summary!At

\* The outcome and the answer.
LEMMA CloseReads ==
  ASSUME Reads, Summary!AppendAudit \/ Summary!Reply \/ Summary!GiveUp
  PROVE  Reads'
  <1>1. SummaryTypeOK
    BY DEF Reads
  <1>2. CASE Summary!AppendAudit
    <2> DEFINE to == [step |-> "reply", id |-> command.id]
    <2>1. Summary!At("audit") /\ Summary!Moves(to) /\ UNCHANGED <<unsettled, reservation, provided>>
      BY <1>2 DEF Summary!AppendAudit, Summary!quota
    <2>2. to \in Closing /\ to.step = "reply"
      BY <1>1, <2>1, CommandTypes DEF Summary!At, Closing
    <2> HIDE DEF to
    <2>3. SummaryTypeOK'
      BY <1>1, <2>1, <2>2, TypesMove DEF SummaryTypeOK
    <2> QED
      BY <2>1, <2>2, <2>3, ReadsMove
  <1>3. CASE Summary!Reply \/ Summary!GiveUp
    <2>1. Summary!Moves(None) /\ UNCHANGED <<unsettled, reservation, provided>>
      BY <1>3 DEF Summary!Reply, Summary!GiveUp, Summary!quota, Summary!outcomes
    <2>2. SummaryTypeOK'
      BY <1>1, <2>1, TypesMove DEF SummaryTypeOK
    <2> QED
      BY <2>1, <2>2, ReadsMove
  <1> QED
    BY <1>2, <1>3

\* A bot that restarts has nothing in hand; a commit it had sent is executed, or not.
LEMMA RestartReads == ASSUME Reads, Summary!Restart \/ Summary!Settle PROVE Reads'
  <1>1. /\ SummaryTypeOK /\ Chronicle /\ UNCHANGED <<now, posted, channel, provided>>
    BY DEF Reads, Summary!Restart, Summary!Settle, Summary!conversation, Summary!outcomes
  <1>2. Chronicle' /\ \A call \in provided' : Whole(call)'
    BY <1>1 DEF Reads, Chronicle, Whole, Ranged, Posted, Summary!InRange
  <1>3. CASE Summary!Restart
    <2>1. /\ inbox' = <<>> /\ command' = None /\ reservation' = reservation
          /\ \/ unsettled' = unsettled
             \/ /\ Summary!At("commit")
                /\ unsettled' = unsettled \cup {[id |-> command.id, row |-> command.row]}
      BY <1>3 DEF Summary!Restart
    <2>2. Summary!At("commit") => [id |-> command.id, row |-> command.row] \in [id : Interactions, row : Decisions]
      BY <1>1, CommandTypes DEF Committing
    <2>3. \A r \in unsettled' : r \in [id : Interactions, row : Decisions]
      BY <1>1, <2>1, <2>2 DEF SummaryTypeOK
    <2>4. SummaryTypeOK'
      BY <1>1, <2>1, <2>3 DEF SummaryTypeOK
    <2> QED
      BY <1>2, <2>1, <2>4 DEF Reads, Summary!At
  <1>4. CASE Summary!Settle
    <2>1. PICK r \in unsettled :
            /\ unsettled' = unsettled \ {r} /\ UNCHANGED <<inbox, command>>
            /\ reservation' = [reservation EXCEPT ![r.id] = r.row] \/ reservation' = reservation
      BY <1>4 DEF Summary!Settle, Summary!outside
    <2>2. reservation' \in [Interactions -> Decisions \cup {None}]
      BY <1>1, <2>1 DEF SummaryTypeOK
    <2>3. SummaryTypeOK'
      BY <1>1, <2>1, <2>2 DEF SummaryTypeOK
    <2> QED
      BY <1>1, <2>1, <2>3, ReadsStay DEF SummaryTypeOK
  <1> QED
    BY <1>3, <1>4

\* Every step.
LEMMA ReadsStep == Reads /\ [Summary!SummaryNext]_(Summary!summaryVars) => Reads'
  <1> SUFFICES ASSUME Reads, [Summary!SummaryNext]_(Summary!summaryVars) PROVE Reads'
    OBVIOUS
  <1>1. SummaryTypeOK /\ now \in Nat
    BY DEF Reads, SummaryTypeOK
  <1> DEFINE Rests == UNCHANGED <<posted, command, unsettled, reservation, provided>>
  <1>2. ASSUME Rests, channel' \subseteq channel, now' \in Nat, now' >= now, inbox' \in Seq(Interactions)
        PROVE  Reads'
    <2>1. SummaryTypeOK'
      BY <1>1, <1>2 DEF SummaryTypeOK
    <2> QED
      BY <1>2, <2>1, ReadsStay
  <1> USE DEF Summary!conversation, Summary!outside, Summary!quota, Summary!outcomes
  <1>3. CASE UNCHANGED Summary!summaryVars
    BY <1>1, <1>2, <1>3 DEF Summary!summaryVars, SummaryTypeOK
  <1>4. CASE Summary!Tick
    BY <1>1, <1>2, <1>4 DEF Summary!Tick, SummaryTypeOK
  <1>5. ASSUME NEW i \in Ids, Summary!Delete(i) PROVE Reads'
    BY <1>1, <1>2, <1>5 DEF Summary!Delete, SummaryTypeOK
  <1>6. ASSUME NEW i \in Interactions, Summary!Deliver(i) PROVE Reads'
    <2>1. Rests /\ UNCHANGED <<channel, now>> /\ inbox' = Append(inbox, i)
      BY <1>6 DEF Summary!Deliver
    <2>2. inbox' \in Seq(Interactions)
      BY <1>1, <2>1 DEF SummaryTypeOK
    <2> QED
      BY <1>1, <1>2, <2>1, <2>2
  <1>7. CASE Summary!NotDeferred
    <2>1. Rests /\ UNCHANGED <<channel, now>> /\ inbox # <<>> /\ inbox' = Tail(inbox)
      BY <1>7 DEF Summary!NotDeferred
    <2>2. inbox' \in Seq(Interactions)
      BY <1>1, <2>1 DEF SummaryTypeOK
    <2> QED
      BY <1>1, <1>2, <2>1, <2>2
  <1>8. CASE Summary!ReadFails
    BY <1>1, <1>8, ReadsDecide DEF Summary!ReadFails, Summary!At, SummaryTypeOK
  <1> QED
    BY <1>3, <1>4, <1>5, <1>6, <1>7, <1>8, PostReads, BeginReads, ReadPageReads, CheckSizeReads, ReserveReads,
      SummarizeReads, CloseReads, RestartReads DEF Summary!SummaryNext

\* A summary is of all that was said in its range and stayed, and of nothing else, however
\* many pages there are, whatever is posted and deleted while they are read, and wherever
\* the bot restarts.
THEOREM SummaryIsWholeTheorem == Summary!SummarySpec => []SummaryIsWhole
  <1>1. Reads => SummaryIsWhole
    BY DEF Reads, Whole, Ranged, SummaryIsWhole, Summary!SummaryIsWhole
  <1> QED
    BY <1>1, ReadsInit, ReadsStep, PTL DEF Summary!SummarySpec

-----------------------------------------------------------------------------
\* Summaries: the hour of a member.

Granted(table, i) == table[i] # None /\ table[i].decision = "reserved"

Spaced(table) ==
  \A i, j \in Interactions :
    Granted(table, i) /\ Granted(table, j) /\ Asker[i] = Asker[j] /\ i # j =>
      table[i].at >= table[j].at + Hour \/ table[j].at >= table[i].at + Hour

\* A row that may be written at any time: it is the first one of its interaction, and grants
\* nothing in an hour that is granted.
Lands(table, id, row) ==
  /\ table[id] = None
  /\ row.decision = "reserved" =>
       \A i \in Interactions : Granted(table, i) /\ Asker[i] = Asker[id] => row.at >= table[i].at + Hour

Booked ==
  /\ Spaced(reservation) /\ \A i \in Interactions : reservation[i] # None => reservation[i].at <= now
  /\ \A r \in unsettled : Lands(reservation, r.id, r.row) /\ r.row.at <= now
  /\ \A r, q \in unsettled : r # q => Asker[r.id] # Asker[q.id]
  /\ \A call \in provided : call.id \in Interactions /\ Granted(reservation, call.id)

InHand ==
  /\ Summary!At("lock") => command.at <= now
  /\ Summary!At("commit") =>
       /\ Lands(reservation, command.id, command.row) /\ command.row.at <= now
       /\ \A r \in unsettled : Asker[r.id] # Asker[command.id]
  /\ Summary!At("summarize") => Granted(reservation, command.id)

\* Nobody has reserved anything at the start.
LEMMA BookedInit == Summary!SummaryInit => Booked /\ InHand
  BY DEF Summary!SummaryInit, Booked, InHand, Spaced, Granted, Summary!At

\* Nothing is written.
LEMMA BookedStays ==
  ASSUME SummaryTypeOK, Booked, UNCHANGED <<reservation, provided>>, unsettled' \subseteq unsettled,
         now' \in Nat, now' >= now
  PROVE  Booked'
  <1>1. now \in Nat /\ \A i \in Interactions : reservation[i] # None => reservation[i].at \in Nat
    BY DEF SummaryTypeOK, Decisions
  <1>2. \A r \in unsettled : r.row.at \in Nat
    BY DEF SummaryTypeOK, Decisions
  <1> QED
    BY <1>1, <1>2 DEF Booked

\* A row is written while none of its member is under way.
LEMMA BookedWrites ==
  ASSUME SummaryTypeOK, Booked, NEW id \in Interactions, NEW row \in Decisions,
         Lands(reservation, id, row), row.at <= now, reservation' = [reservation EXCEPT ![id] = row],
         unsettled' \subseteq unsettled, \A r \in unsettled' : Asker[r.id] # Asker[id],
         UNCHANGED <<now, provided>>
  PROVE  /\ Booked' /\ reservation'[id] = row
         /\ \A i \in Interactions : Granted(reservation, i) => Granted(reservation', i)
         /\ \A i \in Interactions : \A q : Asker[i] # Asker[id] /\ Lands(reservation, i, q) => Lands(reservation', i, q)
  <1>1. /\ None \notin Decisions /\ Hour \in Nat
        /\ \A i \in Interactions : reservation[i] # None => reservation[i] \in Decisions
    BY BotConstants DEF SummaryTypeOK, Summary!SummaryConstants, Decisions
  <1>2. \A i \in Interactions : reservation'[i] = IF i = id THEN row ELSE reservation[i]
    BY DEF SummaryTypeOK
  <1>3. \A i \in Interactions : Granted(reservation, i) => Granted(reservation', i)
    BY <1>2 DEF Lands, Granted
  <1>4. \A i \in Interactions : \A q : Asker[i] # Asker[id] /\ Lands(reservation, i, q) => Lands(reservation', i, q)
    BY <1>2 DEF Lands, Granted
  <1>5. Spaced(reservation')
    <2> SUFFICES ASSUME NEW i \in Interactions, NEW j \in Interactions, Granted(reservation', i),
                        Granted(reservation', j), Asker[i] = Asker[j], i # j
                 PROVE  \/ reservation'[i].at >= reservation'[j].at + Hour
                        \/ reservation'[j].at >= reservation'[i].at + Hour
      BY DEF Spaced
    <2>1. CASE i = id
      BY <1>2, <2>1 DEF Lands, Granted
    <2>2. CASE j = id
      BY <1>2, <2>2 DEF Lands, Granted
    <2>3. CASE i # id /\ j # id
      BY <1>2, <2>3 DEF Booked, Spaced, Granted
    <2> QED
      BY <2>1, <2>2, <2>3
  <1>6. \A i \in Interactions : reservation'[i] # None => reservation'[i].at <= now'
    BY <1>2 DEF Booked
  <1>7. \A r \in unsettled' : Lands(reservation', r.id, r.row) /\ r.row.at <= now'
    BY <1>4 DEF Booked, SummaryTypeOK
  <1>8. \A call \in provided' : call.id \in Interactions /\ Granted(reservation', call.id)
    BY <1>3 DEF Booked
  <1> QED
    BY <1>2, <1>3, <1>4, <1>5, <1>6, <1>7, <1>8 DEF Booked

\* Without a row to be written a command needs nothing.
LEMMA DecidedInHand ==
  ASSUME NEW to, command' = to, to = None \/ to.step \notin {"lock", "commit", "summarize"}
  PROVE  InHand'
  BY DEF InHand, Summary!At

\* A member who is not cooling down has no reservation of the hour before.
LEMMA NotCooling ==
  ASSUME SummaryTypeOK, Booked, NEW user, NEW at \in Nat,
         ~(/\ Summary!Reserved(user) # {}
           /\ at < Summary!Max({reservation[i].at : i \in Summary!Reserved(user)}) + Hour)
  PROVE  \A i \in Interactions : Granted(reservation, i) /\ Asker[i] = user => at >= reservation[i].at + Hour
  <1> SUFFICES ASSUME NEW i \in Interactions, Granted(reservation, i), Asker[i] = user
               PROVE  at >= reservation[i].at + Hour
    OBVIOUS
  <1> DEFINE times == {reservation[j].at : j \in Summary!Reserved(user)}
  <1>1. i \in Summary!Reserved(user)
    BY DEF Granted, Summary!Reserved
  <1>2. now \in Nat /\ Hour \in Nat /\ times \in SUBSET Nat /\ \A t \in times : t <= now
    BY BotConstants DEF SummaryTypeOK, Decisions, Booked, Summary!Reserved, Summary!SummaryConstants
  <1>3. reservation[i].at \in times
    BY <1>1
  <1>4. at >= Summary!Max(times) + Hour
    <2>1. Summary!Max(times) \in Nat
      BY <1>2, <1>3, MaxIsGreatest
    <2> QED
      BY <1>1, <1>2, <2>1
  <1>5. Summary!Max(times) >= reservation[i].at /\ Summary!Max(times) \in Nat
    BY <1>2, <1>3, MaxIsGreatest
  <1>6. reservation[i].at \in Nat
    BY <1>2, <1>3
  <1> HIDE DEF times
  <1> QED
    BY <1>2, <1>4, <1>5, <1>6

\* The steps of the transaction.
LEMMA FindBooks == ASSUME Reads, Booked, InHand, Summary!FindReservation PROVE Booked' /\ InHand'
  <1>1. SummaryTypeOK /\ now \in Nat
    BY DEF Reads, SummaryTypeOK
  <1>2. Summary!At("reserve") /\ UNCHANGED <<now, unsettled, reservation, provided>>
    BY DEF Summary!FindReservation, Summary!quota, Summary!outcomes, Summary!Moves
  <1>3. Booked'
    BY <1>1, <1>2, BookedStays
  <1>4. CASE reservation[command.id] # None
    <2> DEFINE to == Summary!Meant(reservation[command.id].decision, command.call)
    <2>1. command' = to
      BY <1>4 DEF Summary!FindReservation, Summary!Moves
    <2>2. command.call \in Calls /\ command.call.id = command.id
      BY <1>1, <1>2, CommandTypes DEF Reads, Calling
    <2>3. /\ to.step \in {"summarize", "audit"} /\ to.id = command.id
          /\ to.step = "summarize" => reservation[command.id].decision = "reserved"
      BY <2>2, MeantTypes
    <2> HIDE DEF to
    <2> QED
      BY <1>2, <1>3, <1>4, <2>1, <2>3 DEF InHand, Granted, Summary!At
  <1>5. CASE reservation[command.id] = None
    <2>1. command' = [step |-> "lock", id |-> command.id, call |-> command.call, at |-> now]
      BY <1>5 DEF Summary!FindReservation, Summary!Moves
    <2>2. command'.step = "lock" /\ command'.at = now
      BY <2>1
    <2> QED
      BY <1>1, <1>2, <1>3, <2>2 DEF InHand, Summary!At
  <1> QED
    BY <1>4, <1>5

\* With the member's row free, what is decided stays right until it is written.
LEMMA WriteBooks == ASSUME Reads, Booked, InHand, Summary!WriteReservation PROVE Booked' /\ InHand'
  <1>1. SummaryTypeOK /\ now \in Nat
    BY DEF Reads, SummaryTypeOK
  <1>2. /\ Summary!At("lock") /\ UNCHANGED <<now, unsettled, reservation, provided>>
        /\ \A r \in unsettled : Asker[r.id] # Asker[command.id]
    BY DEF Summary!WriteReservation, Summary!quota, Summary!outcomes, Summary!Moves, Summary!Decides,
      Summary!RowFree, Summary!Me
  <1>3. Booked'
    BY <1>1, <1>2, BookedStays
  <1> DEFINE cooling == /\ Summary!Reserved(Asker[command.id]) # {}
                        /\ command.at < Summary!Max({reservation[i].at : i \in Summary!Reserved(Asker[command.id])}) + Hour
             row == [decision |-> IF cooling THEN "cooldown" ELSE "reserved", at |-> command.at]
  <1>4. CASE reservation[command.id] # None
    BY <1>3, <1>4, DecidedInHand DEF Summary!WriteReservation, Summary!Decides, Summary!Moves
  <1>5. CASE reservation[command.id] = None
    <2>1. command' = [step |-> "commit", id |-> command.id, call |-> command.call, row |-> row]
      BY <1>5 DEF Summary!WriteReservation, Summary!Moves, Summary!Me
    <2>2. command.at \in Nat /\ command.at <= now
      BY <1>1, <1>2, CommandTypes DEF Locking, InHand
    <2>3. row.at = command.at /\ (row.decision = "reserved" => ~cooling)
      OBVIOUS
    <2>4. ~cooling => \A i \in Interactions :
                        Granted(reservation, i) /\ Asker[i] = Asker[command.id] => command.at >= reservation[i].at + Hour
      BY <1>1, <2>2, NotCooling
    <2> HIDE DEF cooling
    <2>5. Lands(reservation, command.id, row)
      BY <1>5, <2>3, <2>4 DEF Lands
    <2> HIDE DEF row
    <2>6. command'.step = "commit" /\ command'.id = command.id /\ command'.row = row
      BY <2>1
    <2> QED
      BY <1>2, <1>3, <2>2, <2>3, <2>5, <2>6 DEF InHand, Summary!At
  <1> QED
    BY <1>4, <1>5

\* The row is written, and the answer may be lost.
LEMMA CommitBooks ==
  ASSUME Reads, Booked, InHand, Summary!Commit \/ Summary!ReserveFails
  PROVE  Booked' /\ InHand'
  <1>1. SummaryTypeOK /\ now \in Nat
    BY DEF Reads, SummaryTypeOK
  <1>2. UNCHANGED <<now, unsettled, provided>>
    BY DEF Summary!Commit, Summary!ReserveFails, Summary!outcomes, Summary!Moves, Summary!Decides
  <1> DEFINE Writes == Summary!At("commit") /\ reservation' = [reservation EXCEPT ![command.id] = command.row]
  <1>3. Writes => Booked' /\ reservation'[command.id] = command.row /\ command.row \in Decisions
    <2> SUFFICES ASSUME Writes PROVE Booked' /\ reservation'[command.id] = command.row /\ command.row \in Decisions
      OBVIOUS
    <2>1. command.id \in Interactions /\ command.row \in Decisions
      BY <1>1, CommandTypes DEF Committing
    <2>2. /\ Lands(reservation, command.id, command.row) /\ command.row.at <= now
          /\ \A r \in unsettled : Asker[r.id] # Asker[command.id]
      BY DEF InHand
    <2> QED
      BY <1>1, <1>2, <2>1, <2>2, BookedWrites
  <1>4. CASE Summary!Commit
    <2> DEFINE to == Summary!Meant(command.row.decision, command.call)
    <2>1. Writes /\ command' = to
      BY <1>4 DEF Summary!Commit, Summary!Moves
    <2>2. command.call \in Calls /\ command.call.id = command.id
      BY <1>1, <2>1, CommandTypes DEF Reads, Committing
    <2>3. /\ to.step \in {"summarize", "audit"} /\ to.id = command.id
          /\ to.step = "summarize" => command.row.decision = "reserved"
      BY <2>2, MeantTypes
    <2>4. None \notin Decisions
      BY BotConstants DEF Decisions, Summary!SummaryConstants
    <2> HIDE DEF to
    <2> QED
      BY <1>3, <2>1, <2>3, <2>4 DEF InHand, Granted, Summary!At
  <1>5. CASE Summary!ReserveFails
    <2>1. command' = [step |-> "audit", id |-> command.id, outcome |-> "failure"]
      BY <1>5 DEF Summary!ReserveFails, Summary!Decides, Summary!Moves
    <2>2. InHand'
      BY <2>1, DecidedInHand
    <2>3. Writes \/ reservation' = reservation
      BY <1>5 DEF Summary!ReserveFails
    <2> QED
      BY <1>1, <1>2, <1>3, <2>2, <2>3, BookedStays
  <1> QED
    BY <1>4, <1>5

\* What is sent away was reserved.
LEMMA SummarizeBooks == ASSUME Reads, Booked, InHand, Summary!Summarize PROVE Booked' /\ InHand'
  <1>1. /\ Summary!At("summarize") /\ UNCHANGED <<now, unsettled, reservation>>
        /\ provided' = provided \cup {command.call}
    BY DEF Summary!Summarize, Summary!quota, Summary!Decides, Summary!Moves
  <1>2. \/ command' = [step |-> "audit", id |-> command.id, outcome |-> "success"]
        \/ command' = [step |-> "audit", id |-> command.id, outcome |-> "failure"]
    BY DEF Summary!Summarize, Summary!Decides, Summary!Moves
  <1>3. InHand'
    BY <1>2, DecidedInHand
  <1>4. command.call.id = command.id /\ command.id \in Interactions /\ Granted(reservation, command.id)
    BY <1>1, CommandTypes DEF Reads, InHand, Calling
  <1>5. Booked'
    BY <1>1, <1>4 DEF Booked
  <1> QED
    BY <1>3, <1>5

\* A commit that the stopped bot had sent is the only one of its member under way; it is
\* executed before the member's row is free, or never.
LEMMA RestartBooks ==
  ASSUME Reads, Booked, InHand, Summary!Restart \/ Summary!Settle
  PROVE  Booked' /\ InHand'
  <1>1. SummaryTypeOK /\ UNCHANGED <<now, provided>> /\ now \in Nat
    BY DEF Reads, SummaryTypeOK, Summary!Restart, Summary!Settle, Summary!outcomes
  <1>2. CASE Summary!Restart
    <2>1. command' = None /\ reservation' = reservation
      BY <1>2 DEF Summary!Restart
    <2>2. InHand'
      BY <2>1, DecidedInHand
    <2>3. CASE ~Summary!At("commit")
      BY <1>1, <1>2, <2>1, <2>2, <2>3, BookedStays DEF Summary!Restart
    <2>4. CASE Summary!At("commit")
      <3> DEFINE sent == [id |-> command.id, row |-> command.row]
      <3>1. unsettled' = unsettled \cup {sent} /\ sent.id = command.id /\ sent.row = command.row
        BY <1>2, <2>4 DEF Summary!Restart
      <3> HIDE DEF sent
      <3>2. /\ Lands(reservation, command.id, command.row) /\ command.row.at <= now
            /\ \A r \in unsettled : Asker[r.id] # Asker[command.id]
        BY <2>4 DEF InHand
      <3>3. \A r \in unsettled' : Lands(reservation, r.id, r.row) /\ r.row.at <= now
        BY <3>1, <3>2 DEF Booked
      <3>4. \A r, q \in unsettled' : r # q => Asker[r.id] # Asker[q.id]
        BY <3>1, <3>2 DEF Booked
      <3>5. Booked'
        BY <1>1, <2>1, <3>3, <3>4 DEF Booked
      <3> QED
        BY <2>2, <3>5
    <2> QED
      BY <2>3, <2>4
  <1>3. CASE Summary!Settle
    <2>1. PICK r \in unsettled :
            /\ unsettled' = unsettled \ {r} /\ command' = command
            /\ reservation' = [reservation EXCEPT ![r.id] = r.row] \/ reservation' = reservation
      BY <1>3 DEF Summary!Settle
    <2>2. /\ r.id \in Interactions /\ r.row \in Decisions /\ r.row.at <= now
          /\ Lands(reservation, r.id, r.row) /\ \A q \in unsettled' : Asker[q.id] # Asker[r.id]
      BY <1>1, <2>1 DEF Booked, SummaryTypeOK
    <2>3. command # None => command.id \in Interactions
      BY <1>1, CommandTypes
    <2>4. CASE reservation' = [reservation EXCEPT ![r.id] = r.row]
      <3>1. /\ Booked'
            /\ \A i \in Interactions : Granted(reservation, i) => Granted(reservation', i)
            /\ \A i \in Interactions : \A q :
                 Asker[i] # Asker[r.id] /\ Lands(reservation, i, q) => Lands(reservation', i, q)
        BY <1>1, <2>1, <2>2, <2>4, BookedWrites
      <3> QED
        BY <1>1, <2>1, <2>3, <3>1 DEF InHand, Summary!At
    <2>5. CASE reservation' = reservation
      <3>1. Booked'
        BY <1>1, <2>1, <2>5, BookedStays
      <3> QED
        BY <1>1, <2>1, <2>5, <3>1 DEF InHand, Summary!At
    <2> QED
      BY <2>1, <2>4, <2>5
  <1> QED
    BY <1>2, <1>3

\* Every step.
LEMMA BookedStep ==
  Reads /\ Booked /\ InHand /\ [Summary!SummaryNext]_(Summary!summaryVars) => Booked' /\ InHand'
  <1> SUFFICES ASSUME Reads, Booked, InHand, [Summary!SummaryNext]_(Summary!summaryVars)
               PROVE  Booked' /\ InHand'
    OBVIOUS
  <1>1. SummaryTypeOK /\ now \in Nat
    BY DEF Reads, SummaryTypeOK
  <1> DEFINE Rests == UNCHANGED <<unsettled, reservation, provided>>
  <1> USE DEF Summary!conversation, Summary!outside, Summary!quota, Summary!outcomes
  <1>2. ASSUME Rests, command' = command, now' \in Nat, now' >= now PROVE Booked' /\ InHand'
    <2>1. Booked'
      BY <1>1, <1>2, BookedStays
    <2>2. /\ Summary!At("lock") => command.at \in Nat
          /\ Summary!At("commit") => command.row.at \in Nat
      BY <1>1, CommandTypes DEF Locking, Committing, Decisions
    <2> QED
      BY <1>1, <1>2, <2>1, <2>2 DEF InHand, Summary!At
  <1>3. ASSUME Rests, now' = now, NEW to, command' = to,
               to = None \/ to.step \notin {"lock", "commit", "summarize"}
        PROVE  Booked' /\ InHand'
    BY <1>1, <1>3, BookedStays, DecidedInHand
  <1>4. ASSUME Rests, NEW outcome, Summary!Decides(outcome) PROVE Booked' /\ InHand'
    <2>1. now' = now /\ command' = [step |-> "audit", id |-> command.id, outcome |-> outcome]
      BY <1>4 DEF Summary!Decides, Summary!Moves
    <2> QED
      BY <1>3, <1>4, <2>1
  <1>5. CASE UNCHANGED Summary!summaryVars \/ Summary!Tick \/ Summary!NotDeferred
    BY <1>1, <1>2, <1>5 DEF Summary!summaryVars, Summary!Tick, Summary!NotDeferred
  <1>6. CASE \/ \E i \in Ids : Summary!Post(i) \/ Summary!Delete(i)
             \/ \E i \in Interactions : Summary!Deliver(i)
    BY <1>1, <1>2, <1>6 DEF Summary!Post, Summary!Delete, Summary!Deliver
  <1>7. CASE Summary!Begin
    <2>1. Rests /\ now' = now /\ command'.step = "read"
      BY <1>7 DEF Summary!Begin
    <2> QED
      BY <1>3, <2>1
  <1>8. CASE Summary!ReadPage
    <2>1. Rests /\ now' = now /\ command.step = "read"
      BY <1>8 DEF Summary!ReadPage, Summary!Moves, Summary!At
    <2>2. command \in Collecting
      BY <1>1, <1>8, CommandTypes DEF Summary!ReadPage
    <2>3. \/ command'.step = "check"
          \/ \E before, collected : command' = [command EXCEPT !.before = before, !.collected = collected]
      BY <1>8 DEF Summary!ReadPage, Summary!Moves
    <2>4. command'.step \in {"check", "read"}
      BY <2>1, <2>2, <2>3 DEF Collecting
    <2> QED
      BY <1>3, <2>1, <2>4
  <1>9. CASE Summary!ReadFails
    BY <1>4, <1>9 DEF Summary!ReadFails
  <1>10. CASE Summary!CheckSize
    <2>1. \/ Summary!Decides("failure")
          \/ now' = now /\ command'.step = "reserve"
      BY <1>10 DEF Summary!CheckSize, Summary!Moves
    <2> QED
      BY <1>3, <1>4, <1>10, <2>1 DEF Summary!CheckSize
  <1>11. CASE Summary!AppendAudit
    <2>1. Rests /\ now' = now /\ command'.step = "reply"
      BY <1>11 DEF Summary!AppendAudit, Summary!Moves
    <2> QED
      BY <1>3, <2>1
  <1>12. CASE Summary!Reply \/ Summary!GiveUp
    <2>1. Rests /\ now' = now /\ command' = None
      BY <1>12 DEF Summary!Reply, Summary!GiveUp, Summary!Moves
    <2> QED
      BY <1>3, <2>1
  <1> QED
    BY <1>5, <1>6, <1>7, <1>8, <1>9, <1>10, <1>11, <1>12, FindBooks, WriteBooks, CommitBooks, SummarizeBooks,
      RestartBooks DEF Summary!SummaryNext

\* A member has the messages of one interaction per hour sent away, however often it is
\* delivered, wherever the bot restarts and whenever the commit it had sent is executed;
\* and nothing is sent away that was not reserved first.
THEOREM OneSummaryPerHourTheorem == Summary!SummarySpec => []OneSummaryPerHour
  <1>1. Booked => OneSummaryPerHour
    BY DEF Booked, Spaced, Granted, OneSummaryPerHour, Summary!OneSummaryPerHour, Summary!Reserved
  <1> QED
    BY <1>1, ReadsInit, ReadsStep, BookedInit, BookedStep, PTL DEF Summary!SummarySpec

-----------------------------------------------------------------------------
\* RiotLinks: types.

Asking == [step : {"request"}, user : Users, name : Names]
Resolving == [step : {"resolve"}, request : Operations]
Approving == [step : {"lock"}, request : Operations, account : Accounts, read : Nat]
Inserting == [step : {"index", "commit"}, request : Operations, account : Accounts, read : Nat,
              primary : BOOLEAN]
Removing == [step : {"remove"}, link : Operations, version : Nat, name : Names]
Running == Asking \cup Resolving \cup Approving \cup Inserting \cup Removing

Targets == [link : Operations, account : Accounts, version : Nat]
Answers == [name : Names, read : Nat]

RowsOK ==
  /\ request \in [Operations -> Riot!Requested \cup {Nothing}]
  /\ link \in [Operations -> Riot!Linked \cup {Nothing}]
RunningOK == running \in [Operations -> Running \cup {Nothing}]
NamesOK == riotName \in [Accounts -> Names] /\ renames \in [Accounts -> Nat]

\* What the refresh has to do, and what a stopped bot had sent.
RefreshOK ==
  /\ refresh \in [cursor : {refresh.cursor}, targets : SUBSET Targets, last : {refresh.last},
                  answer : Answers \cup {Nothing}]
  /\ late \subseteq [target : Targets, answer : Answers]

RiotTypeOK == RowsOK /\ RunningOK /\ NamesOK /\ RefreshOK

\* No row is Nothing.
LEMMA RowsAreNotNothing ==
  /\ Nothing \notin Riot!Requested /\ Nothing \notin Riot!Linked
  /\ Operations \subseteq Nat \ {0} /\ Nothing \notin Operations
  BY BotConstants DEF Riot!RiotConstants

\* What commands are at their steps.
LEMMA RunningTypes ==
  ASSUME RunningOK, NEW o \in Operations
  PROVE  /\ Riot!At(o, "request") => running[o] \in Asking
         /\ Riot!At(o, "resolve") => running[o] \in Resolving
         /\ Riot!At(o, "lock") => running[o] \in Approving
         /\ Riot!At(o, "index") \/ Riot!At(o, "commit") => running[o] \in Inserting
         /\ Riot!At(o, "remove") => running[o] \in Removing
  BY DEF RunningOK, Riot!At, Running, Asking, Resolving, Approving, Inserting, Removing

\* A command goes on, and the others stay.
LEMMA RunningGoes ==
  ASSUME RunningOK, NEW o \in Operations, NEW to \in Running \cup {Nothing}, Riot!Goes(o, to)
  PROVE  RunningOK' /\ running'[o] = to /\ \A p \in Operations : p # o => running'[p] = running[p]
  BY DEF RunningOK, Riot!Goes

-----------------------------------------------------------------------------
\* RiotLinks: what approvals leave.

\* No request has led to this link yet.
Unmade(l) == link[l] = Nothing /\ \A q \in Operations : request[q] # Nothing => request[q].link # l

\* What a command in hand relies on.
Underway(o, mine) ==
  /\ mine.step = "request" => request[o] = Nothing
  /\ mine.step \in {"resolve", "lock", "index", "commit"} => request[mine.request] # Nothing
  /\ mine.step \in {"index", "commit"} => request[mine.request].status = "pending"

\* The locks of the requests keep approvals apart.
Inserts(o) == Riot!At(o, "index") \/ Riot!At(o, "commit")
Exclusive ==
  \A o, p \in Operations :
    Inserts(o) /\ Inserts(p) /\ running[o].request = running[p].request => o = p

Issued ==
  /\ \A o \in Operations : o \notin begun => running[o] = Nothing /\ request[o] = Nothing
  /\ \A o \in Operations : o \notin begun \/ running[o] # Nothing => Unmade(o)
  /\ \A o \in Operations : running[o] # Nothing => Underway(o, running[o])
  /\ Exclusive

\* A link is of one request, and a request that was approved has one, of its member.
Tied ==
  /\ \A l \in Operations : link[l] # Nothing =>
       \E q \in Operations : request[q] # Nothing /\ request[q].link = l
  /\ \A q, r \in Operations : request[q] # Nothing /\ request[r] # Nothing
       /\ request[q].link = request[r].link /\ request[q].link # Nothing => q = r
  /\ \A q \in Operations : request[q] # Nothing =>
       /\ (request[q].status = "approved") = (request[q].link # Nothing)
       /\ request[q].status = "approved" =>
            link[request[q].link] # Nothing /\ link[request[q].link].user = request[q].user

\* What the unique indexes keep apart: links that are there, and links about to be.
ClashOfLinks(l, m) ==
  Riot!Clash(link[l].account, link[l].user, link[l].primary, link[m].account, link[m].user, link[m].primary)
ClashWithLink(mine, l) ==
  Riot!Clash(mine.account, request[mine.request].user, mine.primary,
             link[l].account, link[l].user, link[l].primary)
ClashWithCommand(mine, other) ==
  Riot!Clash(mine.account, request[mine.request].user, mine.primary,
             other.account, request[other.request].user, other.primary)

Apart ==
  /\ \A l, m \in Riot!Active : l # m => ~ClashOfLinks(l, m)
  /\ \A o \in Operations : Riot!At(o, "commit") => \A l \in Riot!Active : ~ClashWithLink(running[o], l)
  /\ \A o, p \in Operations : Riot!At(o, "commit") /\ Riot!At(p, "commit") /\ o # p =>
       ~ClashWithCommand(running[o], running[p])

Approved == RiotTypeOK /\ Issued /\ Tied /\ Apart

\* At the start nothing is asked for, and nothing linked.
LEMMA ApprovedInit == Riot!RiotInit => Approved
  <1> SUFFICES ASSUME Riot!RiotInit PROVE Approved
    OBVIOUS
  <1>1. /\ request = [o \in Operations |-> Nothing] /\ link = [o \in Operations |-> Nothing]
        /\ running = [o \in Operations |-> Nothing] /\ begun = {} /\ late = {}
        /\ refresh = [cursor |-> 0, targets |-> {}, last |-> 0, answer |-> Nothing]
    BY DEF Riot!RiotInit, Riot!Idle
  <1>2. NamesOK
    BY DEF Riot!RiotInit, NamesOK
  <1>3. RefreshOK
    BY <1>1 DEF RefreshOK
  <1>4. RowsOK /\ RunningOK
    BY <1>1 DEF RowsOK, RunningOK
  <1>5. \A o \in Operations : request[o] = Nothing /\ link[o] = Nothing /\ running[o] = Nothing
    BY <1>1
  <1>6. Issued
    <2>1. \A o \in Operations : Unmade(o)
      BY <1>5 DEF Unmade
    <2>2. Exclusive
      BY <1>5 DEF Exclusive, Inserts, Riot!At
    <2> QED
      BY <1>5, <2>1, <2>2 DEF Issued
  <1>7. Tied /\ Apart
    BY <1>5 DEF Tied, Apart, Riot!At, Riot!Active
  <1> QED
    BY <1>2, <1>3, <1>4, <1>6, <1>7 DEF Approved, RiotTypeOK

\* A command goes on, or begins, and no row changes.
LEMMA ApprovedGoes ==
  ASSUME Approved, NEW o \in Operations, NEW to \in Running \cup {Nothing}, Riot!Goes(o, to),
         UNCHANGED <<request, link>>, begun' = begun \cup {o}, NamesOK', RefreshOK',
         o \notin begun \/ running[o] # Nothing,
         to # Nothing => Underway(o, to),
         to # Nothing /\ to.step \in {"index", "commit"} =>
           \A p \in Operations : p # o /\ Inserts(p) => running[p].request # to.request,
         to # Nothing /\ to.step = "commit" =>
           /\ \A l \in Riot!Active : ~ClashWithLink(to, l)
           /\ \A p \in Operations : p # o /\ Riot!At(p, "commit") => ~ClashWithCommand(to, running[p])
  PROVE  Approved'
  <1>1. /\ RunningOK' /\ running'[o] = to
        /\ \A p \in Operations : p # o => running'[p] = running[p]
    BY RunningGoes DEF Approved, RiotTypeOK
  <1>2. RiotTypeOK'
    BY <1>1 DEF Approved, RiotTypeOK, RowsOK
  <1>3. Issued'
    <2>1. \A p \in Operations : p \notin begun' => running'[p] = Nothing /\ request'[p] = Nothing
      BY <1>1 DEF Approved, Issued
    <2>2. \A p \in Operations : Unmade(p) => Unmade(p)'
      BY DEF Unmade
    <2>3. \A p \in Operations : p \notin begun' \/ running'[p] # Nothing => Unmade(p)'
      BY <1>1, <2>2 DEF Approved, Issued
    <2>4. \A p \in Operations : running'[p] # Nothing => Underway(p, running[p])'
      BY <1>1 DEF Approved, Issued, Underway
    <2>5. Exclusive'
      <3>1. Inserts(o)' => to # Nothing /\ to.step \in {"index", "commit"}
        BY <1>1 DEF Inserts, Riot!At
      <3>2. \A p \in Operations : p # o => (Inserts(p)' <=> Inserts(p))
        BY <1>1 DEF Inserts, Riot!At
      <3>3. Exclusive
        BY DEF Approved, Issued
      <3> HIDE DEF Inserts
      <3> QED
        BY <1>1, <3>1, <3>2, <3>3 DEF Exclusive
    <2> QED
      BY <2>1, <2>3, <2>4, <2>5 DEF Issued
  <1>4. Tied'
    BY DEF Approved, Tied
  <1>5. Apart'
    <2>1. Riot!Active' = Riot!Active
      BY DEF Riot!Active
    <2>2. \A l, m \in Riot!Active : l # m => ~ClashOfLinks(l, m)'
      BY DEF Approved, Apart, ClashOfLinks
    <2>3. /\ \A p \in Operations : p # o => (Riot!At(p, "commit")' <=> Riot!At(p, "commit"))
          /\ Riot!At(o, "commit")' => to # Nothing /\ to.step = "commit"
      BY <1>1 DEF Riot!At
    <2>4. ASSUME NEW p \in Operations, Riot!At(p, "commit")', NEW l \in Riot!Active
          PROVE  ~ClashWithLink(running[p], l)'
      <3>1. ~ClashWithLink(running'[p], l)
        BY <1>1, <2>3, <2>4 DEF Approved, Apart
      <3> QED
        BY <3>1 DEF ClashWithLink
    <2>5. ASSUME NEW p \in Operations, NEW q \in Operations, p # q,
                 Riot!At(p, "commit")', Riot!At(q, "commit")'
          PROVE  ~ClashWithCommand(running[p], running[q])'
      <3>1. ~ClashWithCommand(running'[p], running'[q])
        <4>1. CASE p = o
          BY <1>1, <2>3, <2>5, <4>1
        <4>2. CASE q = o
          <5>1. ~ClashWithCommand(to, running[p])
            BY <2>3, <2>5, <4>2
          <5> QED
            BY <1>1, <2>5, <4>2, <5>1 DEF ClashWithCommand, Riot!Clash
        <4>3. CASE p # o /\ q # o
          BY <1>1, <2>3, <2>5, <4>3 DEF Approved, Apart
        <4> QED
          BY <4>1, <4>2, <4>3
      <3> QED
        BY <3>1 DEF ClashWithCommand
    <2> QED
      BY <2>1, <2>2, <2>4, <2>5 DEF Apart
  <1> QED
    BY <1>2, <1>3, <1>4, <1>5 DEF Approved

\* Links that are there change their names, or are removed.
LinksAlter ==
  /\ link' \in [Operations -> Riot!Linked \cup {Nothing}]
  /\ \A l \in Operations : (link'[l] = Nothing) = (link[l] = Nothing)
  /\ \A l \in Operations : link[l] # Nothing =>
       /\ link'[l].user = link[l].user /\ link'[l].account = link[l].account
       /\ link'[l].primary => link[l].primary
       /\ link[l].removed => link'[l].removed

\* Links alter, and commands may be gone: nothing new can clash.
LEMMA ApprovedAlters ==
  ASSUME Approved, LinksAlter, request' = request, begun \subseteq begun', NamesOK', RefreshOK', RunningOK',
         \A p \in Operations : running'[p] = running[p] \/ running'[p] = Nothing
  PROVE  Approved'
  <1>1. RiotTypeOK'
    BY DEF Approved, RiotTypeOK, RowsOK, LinksAlter
  <1>2. Issued'
    <2>1. \A p \in Operations : p \notin begun' => running'[p] = Nothing /\ request'[p] = Nothing
      BY DEF Approved, Issued
    <2>2. \A p \in Operations : Unmade(p) => Unmade(p)'
      BY DEF Unmade, LinksAlter
    <2>3. \A p \in Operations : p \notin begun' \/ running'[p] # Nothing => Unmade(p)'
      BY <2>2 DEF Approved, Issued
    <2>4. \A p \in Operations : running'[p] # Nothing => Underway(p, running[p])'
      BY DEF Approved, Issued, Underway
    <2>5. Exclusive'
      <3>1. \A p \in Operations : Inserts(p)' => Inserts(p) /\ running'[p] = running[p]
        BY DEF Inserts, Riot!At
      <3>2. Exclusive
        BY DEF Approved, Issued
      <3> QED
        BY <3>1, <3>2 DEF Exclusive
    <2> QED
      BY <2>1, <2>3, <2>4, <2>5 DEF Issued
  <1>3. Tied'
    <2>1. Tied
      BY DEF Approved
    <2>2. \A l \in Operations : link'[l] # Nothing =>
            \E q \in Operations : request'[q] # Nothing /\ request'[q].link = l
      BY <2>1 DEF Tied, LinksAlter
    <2>3. \A q \in Operations : request[q] # Nothing => request[q].link \in Operations \cup {Nothing}
      BY DEF Approved, RiotTypeOK, RowsOK, Riot!Requested
    <2>4. \A q \in Operations : request'[q] # Nothing =>
            /\ (request'[q].status = "approved") = (request'[q].link # Nothing)
            /\ request'[q].status = "approved" =>
                 link'[request'[q].link] # Nothing /\ link'[request'[q].link].user = request'[q].user
      BY <2>1, <2>3 DEF Tied, LinksAlter
    <2>5. \A q, r \in Operations : request'[q] # Nothing /\ request'[r] # Nothing
            /\ request'[q].link = request'[r].link /\ request'[q].link # Nothing => q = r
      BY <2>1 DEF Tied
    <2> QED
      BY <2>2, <2>4, <2>5 DEF Tied
  <1>4. Apart'
    <2>1. Riot!Active' \subseteq Riot!Active
      BY DEF Riot!Active, LinksAlter, Approved, RiotTypeOK, RowsOK
    <2>2. \A p \in Operations : Riot!At(p, "commit")' => Riot!At(p, "commit") /\ running'[p] = running[p]
      BY DEF Riot!At
    <2>3. \A l \in Riot!Active : /\ link'[l].user = link[l].user /\ link'[l].account = link[l].account
                                 /\ link'[l].primary => link[l].primary
      BY DEF Riot!Active, LinksAlter
    <2>4. \A l, m \in Riot!Active' : l # m => ~ClashOfLinks(l, m)'
      BY <2>1, <2>3 DEF Approved, Apart, ClashOfLinks, Riot!Clash
    <2>5. ASSUME NEW p \in Operations, Riot!At(p, "commit")', NEW l \in Riot!Active'
          PROVE  ~ClashWithLink(running[p], l)'
      BY <2>1, <2>2, <2>3, <2>5 DEF Approved, Apart, ClashWithLink, Riot!Clash
    <2>6. \A p, q \in Operations : Riot!At(p, "commit")' /\ Riot!At(q, "commit")' /\ p # q =>
            ~ClashWithCommand(running[p], running[q])'
      BY <2>2 DEF Approved, Apart, ClashWithCommand
    <2> QED
      BY <2>4, <2>5, <2>6 DEF Apart
  <1> QED
    BY <1>1, <1>2, <1>3, <1>4 DEF Approved

\* A member asks for a link.
LEMMA ApprovedInserts ==
  ASSUME Approved, NEW o \in Operations, Riot!InsertRequest(o) PROVE Approved'
  <1>1. /\ Riot!At(o, "request") /\ Riot!Goes(o, Nothing) /\ UNCHANGED <<link, begun, riotName, renames, refresh, late>>
    BY DEF Riot!InsertRequest, Riot!Ends, Riot!riot, Riot!scheduler
  <1> DEFINE new == [user |-> running[o].user, name |-> running[o].name, status |-> "pending", link |-> Nothing]
  <1>2. request' = request \/ request' = [request EXCEPT ![o] = new]
    BY DEF Riot!InsertRequest
  <1>3. /\ RunningOK' /\ running'[o] = Nothing /\ \A p \in Operations : p # o => running'[p] = running[p]
        /\ NamesOK' /\ RefreshOK'
    BY <1>1, RunningGoes DEF Approved, RiotTypeOK, NamesOK, RefreshOK
  <1>4. running[o] # Nothing /\ request[o] = Nothing /\ o \in begun
    BY <1>1 DEF Riot!At, Approved, Issued, Underway
  <1>5. CASE request' = request
    <2>1. begun' = begun \cup {o}
      BY <1>1, <1>4
    <2> QED
      BY <1>1, <1>3, <1>4, <1>5, <2>1, ApprovedGoes
  <1>6. CASE request' = [request EXCEPT ![o] = new]
    <2>1. new \in Riot!Requested /\ new.status = "pending" /\ new.link = Nothing
      BY <1>1, RunningTypes DEF Approved, RiotTypeOK, Asking, Riot!Requested
    <2> HIDE DEF new
    <2>2. \A p \in Operations : request'[p] = IF p = o THEN new ELSE request[p]
      BY <1>6 DEF Approved, RiotTypeOK, RowsOK
    <2>3. RiotTypeOK'
      BY <1>1, <1>3, <1>6, <2>1 DEF Approved, RiotTypeOK, RowsOK
    <2>4. \A p \in Operations : request[p] # Nothing => request'[p] = request[p] /\ p # o
      BY <1>4, <2>2
    <2>5. Issued'
      <3>1. \A p \in Operations : p \notin begun' => running'[p] = Nothing /\ request'[p] = Nothing
        BY <1>1, <1>3, <1>4, <2>2 DEF Approved, Issued
      <3>2. \A p \in Operations : Unmade(p) => Unmade(p)'
        BY <1>1, <2>1, <2>2, RowsAreNotNothing DEF Unmade
      <3>3. \A p \in Operations : p \notin begun' \/ running'[p] # Nothing => Unmade(p)'
        BY <1>1, <1>3, <3>2 DEF Approved, Issued
      <3>4. ASSUME NEW p \in Operations, running'[p] # Nothing PROVE Underway(p, running[p])'
        <4>1. p # o /\ running'[p] = running[p] /\ Underway(p, running[p])
          BY <1>3, <3>4 DEF Approved, Issued
        <4>2. running[p].step \in {"resolve", "lock", "index", "commit"} => running[p].request \in Operations
          BY <1>3, <3>4, <4>1 DEF Approved, RiotTypeOK, RunningOK, Running, Asking, Resolving, Approving, Inserting, Removing
        <4> QED
          BY <2>2, <2>4, <4>1, <4>2 DEF Underway
      <3>5. Exclusive'
        <4>1. \A p \in Operations : Inserts(p)' => Inserts(p) /\ running'[p] = running[p]
          BY <1>3 DEF Inserts, Riot!At
        <4>2. Exclusive
          BY DEF Approved, Issued
        <4> QED
          BY <4>1, <4>2 DEF Exclusive
      <3> QED
        BY <3>1, <3>3, <3>4, <3>5 DEF Issued
    <2>6. Tied'
      <3>1. \A l \in Operations : link'[l] # Nothing =>
              \E q \in Operations : request'[q] # Nothing /\ request'[q].link = l
        BY <1>1, <2>4 DEF Approved, Tied
      <3>2. \A q, r \in Operations : request'[q] # Nothing /\ request'[r] # Nothing
              /\ request'[q].link = request'[r].link /\ request'[q].link # Nothing => q = r
        BY <2>1, <2>2 DEF Approved, Tied
      <3>3. \A q \in Operations : request'[q] # Nothing =>
              /\ (request'[q].status = "approved") = (request'[q].link # Nothing)
              /\ request'[q].status = "approved" =>
                   link'[request'[q].link] # Nothing /\ link'[request'[q].link].user = request'[q].user
        BY <1>1, <2>1, <2>2 DEF Approved, Tied
      <3> QED
        BY <3>1, <3>2, <3>3 DEF Tied
    <2>7. Apart'
      <3>1. Riot!Active' = Riot!Active
        BY <1>1 DEF Riot!Active
      <3>2. \A p \in Operations : Riot!At(p, "commit")' =>
              /\ Riot!At(p, "commit") /\ running'[p] = running[p]
              /\ request'[running[p].request] = request[running[p].request]
        <4>1. \A p \in Operations : Riot!At(p, "commit")' => Riot!At(p, "commit") /\ running'[p] = running[p]
          BY <1>3 DEF Riot!At
        <4>2. \A p \in Operations : Riot!At(p, "commit") =>
                running[p].request \in Operations /\ request[running[p].request] # Nothing
          BY RunningTypes DEF Approved, RiotTypeOK, Issued, Underway, Riot!At, Inserting
        <4> QED
          BY <2>4, <4>1, <4>2
      <3>3. \A l, m \in Riot!Active : l # m => ~ClashOfLinks(l, m)'
        BY <1>1 DEF Approved, Apart, ClashOfLinks
      <3>4. \A p \in Operations : Riot!At(p, "commit")' => \A l \in Riot!Active : ~ClashWithLink(running[p], l)'
        BY <1>1, <3>2 DEF Approved, Apart, ClashWithLink
      <3>5. \A p, q \in Operations : Riot!At(p, "commit")' /\ Riot!At(q, "commit")' /\ p # q =>
              ~ClashWithCommand(running[p], running[q])'
        BY <3>2 DEF Approved, Apart, ClashWithCommand
      <3> QED
        BY <3>1, <3>3, <3>4, <3>5 DEF Apart
    <2> QED
      BY <2>3, <2>5, <2>6, <2>7 DEF Approved
  <1> QED
    BY <1>2, <1>5, <1>6

\* A request that no approval has locked is rejected.
LEMMA ApprovedRejects ==
  ASSUME Approved, NEW o \in Operations, NEW q \in Operations, Riot!Reject(o, q) PROVE Approved'
  <1>1. /\ o \notin begun /\ begun' = begun \cup {o} /\ Riot!Goes(o, Nothing)
        /\ UNCHANGED <<link, riotName, renames, refresh, late>>
        /\ ~Riot!Locked(q) /\ request[q] # Nothing
        /\ request' = request \/ (q \in Riot!Pending /\ request' = [request EXCEPT ![q].status = "rejected"])
    BY DEF Riot!Reject, Riot!Begins, Riot!Ends, Riot!riot, Riot!scheduler
  <1>2. /\ RunningOK' /\ running'[o] = Nothing /\ \A p \in Operations : p # o => running'[p] = running[p]
        /\ NamesOK' /\ RefreshOK'
    BY <1>1, RunningGoes DEF Approved, RiotTypeOK, NamesOK, RefreshOK
  <1>3. CASE request' = request
    BY <1>1, <1>2, <1>3, ApprovedGoes
  <1>4. CASE q \in Riot!Pending /\ request' = [request EXCEPT ![q].status = "rejected"]
    <2>1. /\ request[q] \in Riot!Requested /\ request[q].status = "pending" /\ request[q].link = Nothing
      BY <1>4 DEF Approved, RiotTypeOK, RowsOK, Tied, Riot!Pending
    <2> DEFINE new == [request[q] EXCEPT !.status = "rejected"]
    <2>2. /\ new \in Riot!Requested /\ new.status = "rejected" /\ new.link = Nothing /\ new.user = request[q].user
      BY <2>1 DEF Riot!Requested
    <2>3. \A p \in Operations : request'[p] = IF p = q THEN new ELSE request[p]
      BY <1>4 DEF Approved, RiotTypeOK, RowsOK
    <2>4. request' \in [Operations -> Riot!Requested \cup {Nothing}]
      BY <1>4, <2>2 DEF Approved, RiotTypeOK, RowsOK
    <2> HIDE DEF new
    <2>5. RiotTypeOK'
      BY <1>1, <1>2, <2>4 DEF Approved, RiotTypeOK, RowsOK
    <2>6. new # Nothing
      BY <2>2, RowsAreNotNothing
    <2>7. \A p \in Operations : /\ (request'[p] = Nothing) = (request[p] = Nothing)
                                /\ request[p] # Nothing => /\ request'[p].link = request[p].link
                                                           /\ request'[p].user = request[p].user
                                                           /\ p # q => request'[p].status = request[p].status
      BY <2>1, <2>2, <2>3, <2>6, <1>1
    <2>8. \A p \in Operations : Inserts(p) => running[p].request # q
      BY <1>1 DEF Inserts, Riot!Locked
    <2>9. \A p \in Operations : running'[p] # Nothing => running'[p] = running[p]
      BY <1>2
    <2>10. \A p \in Operations : running[p] # Nothing /\ running[p].step \in {"resolve", "lock", "index", "commit"} =>
              running[p].request \in Operations
      BY DEF Approved, RiotTypeOK, RunningOK, Running, Asking, Resolving, Approving, Inserting, Removing
    <2>11. Issued'
      <3>1. \A p \in Operations : p \notin begun' => running'[p] = Nothing /\ request'[p] = Nothing
        BY <1>1, <1>2, <2>7 DEF Approved, Issued
      <3>2. \A p \in Operations : Unmade(p) => Unmade(p)'
        BY <1>1, <2>7 DEF Unmade
      <3>3. \A p \in Operations : p \notin begun' \/ running'[p] # Nothing => Unmade(p)'
        BY <1>1, <2>9, <3>2 DEF Approved, Issued
      <3>4. ASSUME NEW p \in Operations, running'[p] # Nothing PROVE Underway(p, running[p])'
        <4>1. running'[p] = running[p] /\ Underway(p, running[p])
          BY <2>9, <3>4 DEF Approved, Issued
        <4>2. running[p].step \in {"index", "commit"} => running[p].request # q
          BY <2>8, <2>9, <3>4 DEF Inserts, Riot!At
        <4> QED
          BY <2>7, <2>9, <2>10, <3>4, <4>1, <4>2 DEF Underway
      <3>5. Exclusive'
        <4>1. \A p \in Operations : Inserts(p)' => Inserts(p) /\ running'[p] = running[p]
          BY <2>9 DEF Inserts, Riot!At
        <4>2. Exclusive
          BY DEF Approved, Issued
        <4> QED
          BY <4>1, <4>2 DEF Exclusive
      <3> QED
        BY <3>1, <3>3, <3>4, <3>5 DEF Issued
    <2>12. Tied'
      <3>1. Tied
        BY DEF Approved
      <3>2. \A l \in Operations : link'[l] # Nothing =>
              \E r \in Operations : request'[r] # Nothing /\ request'[r].link = l
        BY <1>1, <2>7, <3>1 DEF Tied
      <3>3. \A p, r \in Operations : request'[p] # Nothing /\ request'[r] # Nothing
              /\ request'[p].link = request'[r].link /\ request'[p].link # Nothing => p = r
        BY <2>7, <3>1 DEF Tied
      <3>4. \A p \in Operations : request'[p] # Nothing =>
              /\ (request'[p].status = "approved") = (request'[p].link # Nothing)
              /\ request'[p].status = "approved" =>
                   link'[request'[p].link] # Nothing /\ link'[request'[p].link].user = request'[p].user
        BY <1>1, <2>2, <2>3, <3>1 DEF Tied
      <3> QED
        BY <3>2, <3>3, <3>4 DEF Tied
    <2>13. Apart'
      <3>1. Riot!Active' = Riot!Active
        BY <1>1 DEF Riot!Active
      <3>2. \A p \in Operations : Riot!At(p, "commit")' =>
              /\ Riot!At(p, "commit") /\ running'[p] = running[p]
              /\ request'[running[p].request].user = request[running[p].request].user
        <4>1. \A p \in Operations : Riot!At(p, "commit")' => Riot!At(p, "commit") /\ running'[p] = running[p]
          BY <2>9 DEF Riot!At
        <4>2. \A p \in Operations : Riot!At(p, "commit") =>
                running[p].request \in Operations /\ request[running[p].request] # Nothing
          BY RunningTypes DEF Approved, RiotTypeOK, Issued, Underway, Riot!At, Inserting
        <4> QED
          BY <2>7, <4>1, <4>2
      <3>3. \A l, m \in Riot!Active : l # m => ~ClashOfLinks(l, m)'
        BY <1>1 DEF Approved, Apart, ClashOfLinks
      <3>4. \A p \in Operations : Riot!At(p, "commit")' => \A l \in Riot!Active : ~ClashWithLink(running[p], l)'
        BY <1>1, <3>2 DEF Approved, Apart, ClashWithLink
      <3>5. \A p, r \in Operations : Riot!At(p, "commit")' /\ Riot!At(r, "commit")' /\ p # r =>
              ~ClashWithCommand(running[p], running[r])'
        BY <3>2 DEF Approved, Apart, ClashWithCommand
      <3> QED
        BY <3>1, <3>3, <3>4, <3>5 DEF Apart
    <2> QED
      BY <2>5, <2>11, <2>12, <2>13 DEF Approved
  <1> QED
    BY <1>1, <1>3, <1>4

\* The link and the decision commit.
LEMMA ApprovedCommits ==
  ASSUME Approved, NEW o \in Operations, Riot!CommitApproval(o) PROVE Approved'
  <1> DEFINE me == running[o]
             q == me.request
             row == [user |-> request[q].user, account |-> me.account, name |-> request[q].name,
                     read |-> me.read, primary |-> me.primary, removed |-> FALSE, version |-> 0]
             new == [request[q] EXCEPT !.status = "approved", !.link = o]
  <1>1. /\ Riot!At(o, "commit") /\ Riot!Goes(o, Nothing) /\ UNCHANGED <<begun, riotName, renames, refresh, late>>
        /\ link' = [link EXCEPT ![o] = row]
        /\ request' = [request EXCEPT ![q].status = "approved", ![q].link = o]
    BY DEF Riot!CommitApproval, Riot!Ends, Riot!riot, Riot!scheduler
  <1>2. /\ RunningOK' /\ running'[o] = Nothing /\ \A p \in Operations : p # o => running'[p] = running[p]
        /\ NamesOK' /\ RefreshOK'
    BY <1>1, RunningGoes DEF Approved, RiotTypeOK, NamesOK, RefreshOK
  <1>3. me \in Inserting /\ me # Nothing /\ me.step = "commit" /\ q \in Operations
    BY <1>1, RunningTypes DEF Approved, RiotTypeOK, Riot!At, Inserting
  <1>4. /\ Unmade(o) /\ o \in begun /\ request[q] # Nothing /\ request[q].status = "pending"
    BY <1>3 DEF Approved, Issued, Underway
  <1>5. request[q] \in Riot!Requested /\ request[q].link = Nothing
    BY <1>3, <1>4 DEF Approved, RiotTypeOK, RowsOK, Tied
  <1>6. row \in Riot!Linked /\ row.user = request[q].user /\ row.account = me.account /\ row.primary = me.primary
    BY <1>3, <1>5 DEF Inserting, Riot!Requested, Riot!Linked
  <1>7. /\ new \in Riot!Requested /\ new.status = "approved" /\ new.link = o /\ new.user = request[q].user
    BY <1>5 DEF Riot!Requested
  <1>8. row # Nothing /\ new # Nothing /\ o # Nothing
    BY <1>6, <1>7, RowsAreNotNothing
  <1>9. \A p \in Operations : request'[p] = IF p = q THEN new ELSE request[p]
    BY <1>1, <1>3, <1>5 DEF Approved, RiotTypeOK, RowsOK
  <1>10. \A l \in Operations : link'[l] = IF l = o THEN row ELSE link[l]
    BY <1>1 DEF Approved, RiotTypeOK, RowsOK
  <1>11. request' \in [Operations -> Riot!Requested \cup {Nothing}]
    <2>1. request' = [request EXCEPT ![q] = new]
      BY <1>1, <1>3, <1>5 DEF Approved, RiotTypeOK, RowsOK
    <2> HIDE DEF new
    <2> QED
      BY <1>7, <2>1 DEF Approved, RiotTypeOK, RowsOK
  <1>12. link' \in [Operations -> Riot!Linked \cup {Nothing}]
    <2> HIDE DEF row
    <2> QED
      BY <1>1, <1>6 DEF Approved, RiotTypeOK, RowsOK
  <1> HIDE DEF row, new, q, me
  <1>13. RiotTypeOK'
    BY <1>2, <1>11, <1>12 DEF RiotTypeOK, RowsOK
  <1>14. \A p \in Operations : running'[p] # Nothing => running'[p] = running[p] /\ p # o
    BY <1>2
  <1>15. \A p \in Operations : Inserts(p) /\ p # o => running[p].request # q
    BY <1>1 DEF Approved, Issued, Exclusive, Inserts, q, me
  <1>16. \A p \in Operations : /\ (request'[p] = Nothing) = (request[p] = Nothing)
                               /\ p # q => request'[p] = request[p]
                               /\ request[p] # Nothing => request'[p].user = request[p].user
    BY <1>4, <1>7, <1>8, <1>9
  <1>17. \A p \in Operations : running[p] # Nothing /\ running[p].step \in {"resolve", "lock", "index", "commit"} =>
           running[p].request \in Operations
    BY DEF Approved, RiotTypeOK, RunningOK, Running, Asking, Resolving, Approving, Inserting, Removing
  <1>18. Issued'
    <2>1. \A p \in Operations : p \notin begun' => running'[p] = Nothing /\ request'[p] = Nothing
      BY <1>1, <1>2, <1>4, <1>16 DEF Approved, Issued
    <2>2. \A p \in Operations : p # o /\ Unmade(p) => Unmade(p)'
      BY <1>7, <1>9, <1>10 DEF Unmade
    <2>3. \A p \in Operations : p \notin begun' \/ running'[p] # Nothing => Unmade(p)'
      BY <1>1, <1>4, <1>14, <2>2 DEF Approved, Issued
    <2>4. ASSUME NEW p \in Operations, running'[p] # Nothing PROVE Underway(p, running[p])'
      <3>1. running'[p] = running[p] /\ p # o /\ Underway(p, running[p])
        BY <1>14, <2>4 DEF Approved, Issued
      <3>2. running[p].step \in {"index", "commit"} => running[p].request # q
        BY <1>14, <1>15, <2>4 DEF Inserts, Riot!At
      <3> QED
        BY <1>14, <1>16, <1>17, <2>4, <3>1, <3>2 DEF Underway
    <2>5. Exclusive'
      <3>1. \A p \in Operations : Inserts(p)' => Inserts(p) /\ running'[p] = running[p]
        BY <1>14 DEF Inserts, Riot!At
      <3>2. Exclusive
        BY DEF Approved, Issued
      <3> QED
        BY <3>1, <3>2 DEF Exclusive
    <2> QED
      BY <2>1, <2>3, <2>4, <2>5 DEF Issued
  <1>19. Tied'
    <2>1. Tied
      BY DEF Approved
    <2>2. ASSUME NEW l \in Operations, link'[l] # Nothing
          PROVE  \E r \in Operations : request'[r] # Nothing /\ request'[r].link = l
      <3>1. CASE l = o
        BY <1>3, <1>7, <1>8, <1>9, <3>1 DEF q
      <3>2. CASE l # o
        <4>1. PICK r \in Operations : request[r] # Nothing /\ request[r].link = l
          BY <1>10, <2>1, <2>2, <3>2 DEF Tied
        <4>2. r # q
          BY <1>5, <4>1, RowsAreNotNothing
        <4> QED
          BY <1>16, <4>1, <4>2
      <3> QED
        BY <3>1, <3>2
    <2>3. ASSUME NEW p \in Operations, NEW r \in Operations, request'[p] # Nothing, request'[r] # Nothing,
                 request'[p].link = request'[r].link, request'[p].link # Nothing
          PROVE  p = r
      <3>1. \A x \in Operations : request[x] # Nothing => request[x].link # o
        BY <1>4 DEF Unmade
      <3>2. CASE p # q /\ r # q
        BY <1>16, <2>1, <2>3, <3>2 DEF Tied
      <3>3. CASE p = q \/ r = q
        BY <1>7, <1>9, <1>16, <2>3, <3>1, <3>3
      <3> QED
        BY <3>2, <3>3
    <2>4. \A p \in Operations : request[p] # Nothing => request[p].link \in Operations \cup {Nothing}
      BY DEF Approved, RiotTypeOK, RowsOK, Riot!Requested
    <2>5. ASSUME NEW p \in Operations, request'[p] # Nothing
          PROVE  /\ (request'[p].status = "approved") = (request'[p].link # Nothing)
                 /\ request'[p].status = "approved" =>
                      link'[request'[p].link] # Nothing /\ link'[request'[p].link].user = request'[p].user
      <3>1. CASE p = q
        BY <1>6, <1>7, <1>8, <1>9, <1>10, <3>1
      <3>2. CASE p # q
        <4>1. request'[p] = request[p] /\ request[p].link # o
          BY <1>4, <1>16, <2>5, <3>2 DEF Unmade
        <4> QED
          BY <1>10, <2>1, <2>4, <2>5, <4>1 DEF Tied
      <3> QED
        BY <3>1, <3>2
    <2> QED
      BY <2>2, <2>3, <2>5 DEF Tied
  <1>20. Apart'
    <2>1. Riot!Active' \subseteq Riot!Active \cup {o}
      BY <1>10 DEF Riot!Active
    <2>2. /\ link'[o].account = me.account /\ link'[o].user = request[q].user /\ link'[o].primary = me.primary
          /\ \A l \in Riot!Active : l # o /\ link'[l] = link[l]
      BY <1>4, <1>6, <1>10 DEF Unmade, Riot!Active
    <2>3. \A l \in Riot!Active : ~ClashWithLink(me, l)
      BY <1>1 DEF Approved, Apart, me
    <2>4. ASSUME NEW l \in Riot!Active', NEW m \in Riot!Active', l # m PROVE ~ClashOfLinks(l, m)'
      <3>1. CASE l \in Riot!Active /\ m \in Riot!Active
        BY <2>2, <2>4, <3>1 DEF Approved, Apart, ClashOfLinks
      <3>2. CASE l = o
        BY <2>1, <2>2, <2>3, <2>4, <3>2 DEF ClashOfLinks, ClashWithLink, Riot!Clash, q
      <3>3. CASE m = o
        BY <2>1, <2>2, <2>3, <2>4, <3>3 DEF ClashOfLinks, ClashWithLink, Riot!Clash, q
      <3> QED
        BY <2>1, <3>1, <3>2, <3>3
    <2>5. \A p \in Operations : Riot!At(p, "commit")' =>
            /\ Riot!At(p, "commit") /\ running'[p] = running[p] /\ p # o
            /\ request'[running[p].request].user = request[running[p].request].user
      <3>1. \A p \in Operations : Riot!At(p, "commit")' =>
              Riot!At(p, "commit") /\ running'[p] = running[p] /\ p # o
        BY <1>14 DEF Riot!At
      <3>2. \A p \in Operations : Riot!At(p, "commit") =>
              running[p].request \in Operations /\ request[running[p].request] # Nothing
        BY RunningTypes DEF Approved, RiotTypeOK, Issued, Underway, Riot!At, Inserting
      <3> QED
        BY <1>16, <3>1, <3>2
    <2>6. ASSUME NEW p \in Operations, Riot!At(p, "commit")', NEW l \in Riot!Active'
          PROVE  ~ClashWithLink(running[p], l)'
      <3>1. CASE l \in Riot!Active
        BY <2>2, <2>5, <2>6, <3>1 DEF Approved, Apart, ClashWithLink
      <3>2. CASE l = o
        <4>1. ~ClashWithCommand(running[p], me)
          BY <1>1, <2>5, <2>6 DEF Approved, Apart, me
        <4> QED
          BY <2>2, <2>5, <2>6, <3>2, <4>1 DEF ClashWithLink, ClashWithCommand, Riot!Clash, q
      <3> QED
        BY <2>1, <3>1, <3>2
    <2>7. \A p, r \in Operations : Riot!At(p, "commit")' /\ Riot!At(r, "commit")' /\ p # r =>
            ~ClashWithCommand(running[p], running[r])'
      BY <2>5 DEF Approved, Apart, ClashWithCommand
    <2> QED
      BY <2>4, <2>6, <2>7 DEF Apart
  <1> QED
    BY <1>13, <1>18, <1>19, <1>20 DEF Approved

\* A command that is begun goes on.
LEMMA ApprovedProceeds ==
  ASSUME Approved, NEW o \in Operations,
         Riot!Resolve(o) \/ Riot!LockRequest(o) \/ Riot!InsertLink(o) \/ Riot!Fail(o)
  PROVE  Approved'
  <1>1. /\ running[o] # Nothing /\ UNCHANGED <<request, link, begun, riotName, renames, refresh, late>>
        /\ \E to : Riot!Goes(o, to)
    BY DEF Riot!Resolve, Riot!LockRequest, Riot!InsertLink, Riot!Fail, Riot!Ends, Riot!riot, Riot!tables,
      Riot!scheduler, Riot!At
  <1>2. /\ RiotTypeOK /\ Underway(o, running[o]) /\ begun' = begun \cup {o} /\ NamesOK' /\ RefreshOK'
    BY <1>1 DEF Approved, Issued, RiotTypeOK, NamesOK, RefreshOK
  <1>3. Riot!Goes(o, Nothing) => Approved'
    BY <1>1, <1>2, ApprovedGoes
  <1>4. CASE Riot!Resolve(o)
    <2>1. /\ Riot!At(o, "resolve") /\ running[o] \in Resolving /\ request[running[o].request] # Nothing
      BY <1>2, <1>4, RunningTypes DEF RiotTypeOK, Riot!Resolve, Underway, Riot!At
    <2>2. CASE ~Riot!Ends(o)
      <3>1. PICK a \in Accounts : Riot!Goes(o, [step |-> "lock", request |-> running[o].request,
                                                 account |-> a, read |-> renames[a]])
        BY <1>4, <2>2 DEF Riot!Resolve
      <3> DEFINE to == [step |-> "lock", request |-> running[o].request, account |-> a, read |-> renames[a]]
      <3>2. to \in Approving /\ to.step = "lock" /\ to.request = running[o].request
        BY <1>2, <2>1 DEF RiotTypeOK, NamesOK, Resolving, Approving
      <3> HIDE DEF to
      <3>3. Riot!Goes(o, to) /\ Underway(o, to) /\ to \in Running
        BY <2>1, <3>1, <3>2 DEF to, Underway, Running
      <3> QED
        BY <1>1, <1>2, <3>2, <3>3, ApprovedGoes
    <2> QED
      BY <1>3, <2>2 DEF Riot!Ends
  <1>5. CASE Riot!LockRequest(o)
    <2>1. Riot!At(o, "lock") /\ running[o] \in Approving /\ ~Riot!Locked(running[o].request)
      BY <1>2, <1>5, RunningTypes DEF RiotTypeOK, Riot!LockRequest
    <2> DEFINE to == [step |-> "index", request |-> running[o].request, account |-> running[o].account,
                      read |-> running[o].read,
                      primary |-> Riot!LinksOf(request[running[o].request].user) = {}]
    <2>2. Riot!Ends(o) \/ (running[o].request \in Riot!Pending /\ Riot!Goes(o, to))
      BY <1>5 DEF Riot!LockRequest
    <2>3. to \in Inserting /\ to.step = "index" /\ to.request = running[o].request
      <3>1. to.primary \in BOOLEAN
        OBVIOUS
      <3> QED
        BY <2>1, <3>1 DEF Approving, Inserting
    <2> HIDE DEF to
    <2>4. CASE running[o].request \in Riot!Pending /\ Riot!Goes(o, to)
      <3>1. Underway(o, to) /\ to \in Running
        BY <2>3, <2>4 DEF Underway, Riot!Pending, Running
      <3>2. \A p \in Operations : Inserts(p) => running[p].request # to.request
        BY <2>1, <2>3 DEF Inserts, Riot!Locked
      <3> QED
        BY <1>1, <1>2, <2>3, <2>4, <3>1, <3>2, ApprovedGoes
    <2> QED
      BY <1>3, <2>2, <2>4 DEF Riot!Ends
  <1>6. CASE Riot!InsertLink(o)
    <2>1. Riot!At(o, "index") /\ running[o] \in Inserting
      BY <1>2, <1>6, RunningTypes DEF RiotTypeOK, Riot!InsertLink
    <2> DEFINE to == [running[o] EXCEPT !.step = "commit"]
    <2>2. /\ to \in Inserting /\ to.step = "commit" /\ to.request = running[o].request
          /\ to.account = running[o].account /\ to.primary = running[o].primary
      BY <2>1 DEF Inserting
    <2> HIDE DEF to
    <2>3. CASE ~Riot!Ends(o)
      <3>1. /\ Riot!Goes(o, to)
            /\ \A l \in Riot!Active : ~Riot!Clash(running[o].account, request[running[o].request].user,
                 running[o].primary, link[l].account, link[l].user, link[l].primary)
            /\ \A p \in Operations : Riot!At(p, "commit") =>
                 ~Riot!Clash(running[o].account, request[running[o].request].user, running[o].primary,
                             running[p].account, request[running[p].request].user, running[p].primary)
        BY <1>6, <2>3 DEF Riot!InsertLink, to
      <3>2. \A l \in Riot!Active : ~ClashWithLink(to, l)
        BY <2>2, <3>1 DEF ClashWithLink
      <3>3. \A p \in Operations : Riot!At(p, "commit") => ~ClashWithCommand(to, running[p])
        BY <2>2, <3>1 DEF ClashWithCommand
      <3>4. Underway(o, to) /\ to \in Running
        BY <1>2, <2>1, <2>2 DEF Underway, Riot!At, Running
      <3>5. \A p \in Operations : p # o /\ Inserts(p) => running[p].request # to.request
        BY <2>1, <2>2 DEF Approved, Issued, Exclusive, Inserts
      <3> QED
        BY <1>1, <1>2, <2>2, <3>1, <3>2, <3>3, <3>4, <3>5, ApprovedGoes
    <2> QED
      BY <1>3, <2>3 DEF Riot!Ends
  <1>7. CASE Riot!Fail(o)
    BY <1>3, <1>7 DEF Riot!Fail, Riot!Ends
  <1> QED
    BY <1>4, <1>5, <1>6, <1>7

\* A command begins.
LEMMA ApprovedBegins ==
  ASSUME Approved, NEW o \in Operations,
         \/ \E u \in Users, n \in Names : Riot!RequestLink(o, u, n)
         \/ \E q \in Operations : Riot!FindPending(o, q)
         \/ \E l \in Operations : Riot!ShowLink(o, l)
  PROVE  Approved'
  <1>1. /\ o \notin begun /\ begun' = begun \cup {o}
        /\ UNCHANGED <<request, link, riotName, renames, refresh, late>>
    BY DEF Riot!RequestLink, Riot!FindPending, Riot!ShowLink, Riot!Begins, Riot!riot, Riot!tables, Riot!scheduler
  <1>2. RiotTypeOK /\ NamesOK' /\ RefreshOK' /\ request[o] = Nothing
    BY <1>1 DEF Approved, Issued, RiotTypeOK, NamesOK, RefreshOK
  <1>3. ASSUME NEW u \in Users, NEW n \in Names, Riot!RequestLink(o, u, n) PROVE Approved'
    <2> DEFINE to == [step |-> "request", user |-> u, name |-> n]
    <2>1. to \in Running /\ to.step = "request"
      BY DEF Running, Asking
    <2>2. Riot!Goes(o, Nothing) \/ Riot!Goes(o, to)
      BY <1>3 DEF Riot!RequestLink, Riot!Ends
    <2> HIDE DEF to
    <2>3. Underway(o, to)
      BY <1>2, <2>1 DEF Underway
    <2> QED
      BY <1>1, <1>2, <2>1, <2>2, <2>3, ApprovedGoes
  <1>4. ASSUME NEW q \in Operations, Riot!FindPending(o, q) PROVE Approved'
    <2> DEFINE to == [step |-> "resolve", request |-> q]
    <2>1. to \in Running /\ to.step = "resolve" /\ to.request = q
      BY DEF Running, Resolving
    <2>2. Riot!Goes(o, to) /\ request[q] # Nothing
      BY <1>4 DEF Riot!FindPending, Riot!Pending
    <2> HIDE DEF to
    <2>3. Underway(o, to)
      BY <2>1, <2>2 DEF Underway
    <2> QED
      BY <1>1, <1>2, <2>1, <2>2, <2>3, ApprovedGoes
  <1>5. ASSUME NEW l \in Operations, Riot!ShowLink(o, l) PROVE Approved'
    <2> DEFINE to == [step |-> "remove", link |-> l, version |-> link[l].version, name |-> link[l].name]
    <2>1. Riot!Goes(o, to) /\ link[l] \in Riot!Linked
      BY <1>2, <1>5 DEF Riot!ShowLink, Riot!Active, RiotTypeOK, RowsOK
    <2>2. to \in Running /\ to.step = "remove"
      BY <2>1 DEF Running, Removing, Riot!Linked
    <2> HIDE DEF to
    <2>3. Underway(o, to)
      BY <2>2 DEF Underway
    <2> QED
      BY <1>1, <1>2, <2>1, <2>2, <2>3, ApprovedGoes
  <1> QED
    BY <1>3, <1>4, <1>5

\* A removal and a new name alter one link that is there.
LEMMA RemovedAlters ==
  ASSUME RowsOK, NEW l \in Riot!Active, link' = Riot!Removed(l) PROVE LinksAlter
  <1> DEFINE version == link[l].version + 1
             new == [link[l] EXCEPT !.removed = TRUE, !.primary = FALSE, !.version = version]
  <1>1. l \in Operations /\ link[l] \in Riot!Linked
    BY DEF Riot!Active, RowsOK
  <1>2. version \in Nat
    BY <1>1 DEF Riot!Linked
  <1>3. link' = [link EXCEPT ![l] = new]
    BY <1>1 DEF Riot!Removed, RowsOK
  <1> HIDE DEF version
  <1>4. /\ new \in Riot!Linked /\ new.user = link[l].user /\ new.account = link[l].account
        /\ new.primary = FALSE /\ new.removed = TRUE
    BY <1>1, <1>2 DEF Riot!Linked
  <1> HIDE DEF new
  <1> QED
    BY <1>1, <1>3, <1>4, RowsAreNotNothing DEF LinksAlter, RowsOK

\* A name that Riot answered leaves member, account and removal of a link as they are.
LEMMA NamedAlters ==
  ASSUME RowsOK, NEW t \in Targets, NEW answer \in Answers, link' = Riot!Named(t, answer) PROVE LinksAlter
  <1> DEFINE l == t.link
             version == link[l].version + 1
             new == [link[l] EXCEPT !.name = answer.name, !.read = answer.read, !.version = version]
  <1>1. CASE link' = link
    BY <1>1 DEF LinksAlter, RowsOK
  <1>2. CASE link' # link
    <2>1. l \in Riot!Active /\ link' = [link EXCEPT ![l].name = answer.name, ![l].read = answer.read, ![l].version = @ + 1]
      BY <1>2 DEF Riot!Named
    <2>2. l \in Operations /\ link[l] \in Riot!Linked
      BY <2>1 DEF Riot!Active, RowsOK
    <2>3. link' = [link EXCEPT ![l] = new]
      BY <2>1, <2>2 DEF RowsOK
    <2>4. version \in Nat /\ answer.name \in Names /\ answer.read \in Nat
      BY <2>2 DEF Riot!Linked, Answers
    <2> HIDE DEF version
    <2>5. /\ new \in Riot!Linked /\ new.user = link[l].user /\ new.account = link[l].account
          /\ new.primary = link[l].primary /\ new.removed = link[l].removed
      BY <2>2, <2>4 DEF Riot!Linked
    <2> HIDE DEF new, l
    <2> QED
      BY <2>2, <2>3, <2>5, RowsAreNotNothing DEF LinksAlter, RowsOK
  <1> QED
    BY <1>1, <1>2

\* Links are removed.
LEMMA ApprovedRemoves ==
  ASSUME Approved, NEW o \in Operations,
         Riot!RemoveLink(o) \/ \E u \in Users, l \in Operations : Riot!Unlink(o, u, l)
  PROVE  Approved'
  <1>1. /\ UNCHANGED <<request, riotName, renames, refresh, late>> /\ begun \subseteq begun' /\ Riot!Goes(o, Nothing)
        /\ link' = link \/ \E l \in Riot!Active : link' = Riot!Removed(l)
    BY DEF Riot!RemoveLink, Riot!Unlink, Riot!Ends, Riot!Begins, Riot!riot, Riot!scheduler, Riot!LinksOf
  <1>2. RowsOK /\ NamesOK' /\ RefreshOK'
    BY <1>1 DEF Approved, RiotTypeOK, NamesOK, RefreshOK
  <1>3. LinksAlter
    <2>1. CASE link' = link
      BY <1>2, <2>1 DEF LinksAlter, RowsOK
    <2> QED
      BY <1>1, <1>2, <2>1, RemovedAlters
  <1>4. RunningOK' /\ \A p \in Operations : running'[p] = running[p] \/ running'[p] = Nothing
    BY <1>1, RunningGoes DEF Approved, RiotTypeOK
  <1> QED
    BY <1>1, <1>2, <1>3, <1>4, ApprovedAlters

\* The scheduler's own steps keep its types.
LEMMA RefreshTypes ==
  ASSUME Approved, Riot!Refresh \/ Riot!Restart \/ Riot!LateUpdate
  PROVE  RefreshOK'
  <1>1. /\ RowsOK /\ NamesOK /\ RefreshOK
    BY DEF Approved, RiotTypeOK
  <1>2. /\ refresh = [cursor |-> refresh.cursor, targets |-> refresh.targets, last |-> refresh.last,
                      answer |-> refresh.answer]
        /\ refresh.targets \subseteq Targets /\ refresh.answer \in Answers \cup {Nothing}
        /\ late \subseteq [target : Targets, answer : Answers]
    BY <1>1 DEF RefreshOK
  <1> DEFINE Made(r) == r \in [cursor : {r.cursor}, targets : SUBSET Targets, last : {r.last},
                              answer : Answers \cup {Nothing}]
  <1>3. ASSUME NEW cursor, NEW targets, NEW last, NEW answer,
               refresh' = [cursor |-> cursor, targets |-> targets, last |-> last, answer |-> answer],
               targets \subseteq Targets, answer \in Answers \cup {Nothing},
               late' \subseteq [target : Targets, answer : Answers]
        PROVE  RefreshOK'
    BY <1>3 DEF RefreshOK
  <1>4. ASSUME NEW cursor, refresh' = Riot!Idle(cursor), late' \subseteq [target : Targets, answer : Answers]
        PROVE  RefreshOK'
    <2>1. refresh' = [cursor |-> cursor, targets |-> {}, last |-> 0, answer |-> Nothing]
      BY <1>4 DEF Riot!Idle
    <2> QED
      BY <1>3, <1>4, <2>1
  <1>5. CASE Riot!ListTargets
    <2> DEFINE batch == Riot!First({l \in Riot!Active : l > refresh.cursor}, BatchSize)
               targets == {Riot!Target(l) : l \in batch}
    <2>1. /\ late' = late
          /\ \/ refresh' = [refresh EXCEPT !.cursor = 0]
             \/ refresh' = [refresh EXCEPT !.targets = targets, !.last = Riot!Max(batch)]
      BY <1>5 DEF Riot!ListTargets
    <2>2. \A l \in batch : l \in Operations /\ link[l] \in Riot!Linked
      BY <1>1 DEF Riot!First, Riot!Active, RowsOK
    <2>3. targets \subseteq Targets
      <3>1. \A l \in batch : Riot!Target(l) \in Targets
        BY <2>2 DEF Riot!Target, Targets, Riot!Linked
      <3> QED
        BY <3>1
    <2>4. CASE refresh' = [refresh EXCEPT !.cursor = 0]
      <3>1. refresh' = [cursor |-> 0, targets |-> refresh.targets, last |-> refresh.last, answer |-> refresh.answer]
        BY <1>2, <2>4
      <3> QED
        BY <1>2, <1>3, <2>1, <3>1
    <2> HIDE DEF targets, batch
    <2>5. CASE refresh' = [refresh EXCEPT !.targets = targets, !.last = Riot!Max(batch)]
      <3> DEFINE last == Riot!Max(batch)
      <3> HIDE DEF last
      <3>1. refresh' = [cursor |-> refresh.cursor, targets |-> targets, last |-> last, answer |-> refresh.answer]
        BY <1>2, <2>5 DEF last
      <3> QED
        BY <1>2, <1>3, <2>1, <2>3, <3>1
    <2> QED
      BY <2>1, <2>4, <2>5
  <1>6. CASE Riot!FinishRun
    BY <1>2, <1>4, <1>6 DEF Riot!FinishRun
  <1>7. ASSUME NEW t \in refresh.targets, Riot!LookUp(t) PROVE RefreshOK'
    <2> DEFINE answer == [name |-> riotName[t.account], read |-> renames[t.account]]
    <2>1. late' = late /\ refresh' = [refresh EXCEPT !.answer = answer]
      BY <1>7 DEF Riot!LookUp
    <2>2. answer \in Answers
      BY <1>1, <1>2 DEF NamesOK, Targets, Answers
    <2> HIDE DEF answer
    <2>3. refresh' = [cursor |-> refresh.cursor, targets |-> refresh.targets, last |-> refresh.last, answer |-> answer]
      BY <1>2, <2>1
    <2> QED
      BY <1>2, <1>3, <2>1, <2>2, <2>3
  <1>8. ASSUME NEW t \in refresh.targets, Riot!LookUpFails(t) \/ Riot!UpdateIdentity(t) PROVE RefreshOK'
    <2> DEFINE rest == refresh.targets \ {t}
    <2>1. late' = late /\ refresh' = [refresh EXCEPT !.targets = rest, !.answer = Nothing]
      BY <1>2, <1>8 DEF Riot!LookUpFails, Riot!UpdateIdentity, Riot!Skips
    <2>2. rest \subseteq Targets
      BY <1>2
    <2> HIDE DEF rest
    <2>3. refresh' = [cursor |-> refresh.cursor, targets |-> rest, last |-> refresh.last, answer |-> Nothing]
      BY <1>2, <2>1
    <2> QED
      BY <1>2, <1>3, <2>1, <2>2, <2>3
  <1>9. ASSUME NEW t \in refresh.targets, Riot!UpdateFails(t) PROVE RefreshOK'
    BY <1>2, <1>4, <1>9 DEF Riot!UpdateFails
  <1>10. CASE Riot!Restart
    <2>1. /\ refresh' = Riot!Idle(0)
          /\ late' = late \cup {[target |-> t, answer |-> refresh.answer] :
                                t \in {u \in refresh.targets : Riot!Looking(u) /\ refresh.answer # Nothing}}
      BY <1>10 DEF Riot!Restart
    <2>2. late' \subseteq [target : Targets, answer : Answers]
      BY <1>2, <2>1
    <2> QED
      BY <1>4, <2>1, <2>2
  <1>11. CASE Riot!LateUpdate
    <2>1. refresh' = refresh /\ late' \subseteq late
      BY <1>11 DEF Riot!LateUpdate
    <2> QED
      BY <1>1, <2>1 DEF RefreshOK
  <1> QED
    BY <1>5, <1>6, <1>7, <1>8, <1>9, <1>10, <1>11 DEF Riot!Refresh

\* Riot renames, the refresh goes on, the bot restarts, an administrator turns a page.
LEMMA ApprovedRests ==
  ASSUME Approved,
         \/ \E a \in Accounts, n \in Names : Riot!Rename(a, n)
         \/ Riot!ShowPage \/ Riot!Refresh \/ Riot!Restart \/ Riot!LateUpdate
         \/ UNCHANGED Riot!riotVars
  PROVE  Approved'
  <1> USE DEF Riot!riot, Riot!tables, Riot!bot, Riot!scheduler
  <1>1. RowsOK /\ RunningOK /\ NamesOK /\ RefreshOK
    BY DEF Approved, RiotTypeOK
  <1>2. NamesOK'
    <2>1. ASSUME NEW a \in Accounts, NEW n \in Names, Riot!Rename(a, n) PROVE NamesOK'
      BY <1>1, <2>1 DEF Riot!Rename, NamesOK
    <2>2. CASE UNCHANGED <<riotName, renames>>
      BY <1>1, <2>2 DEF NamesOK
    <2> QED
      BY <2>1, <2>2 DEF Riot!ShowPage, Riot!Refresh, Riot!ListTargets, Riot!FinishRun, Riot!LookUp, Riot!LookUpFails,
        Riot!UpdateIdentity, Riot!UpdateFails, Riot!Restart, Riot!LateUpdate, Riot!riotVars
  <1>3. RefreshOK'
    <2>1. CASE UNCHANGED <<refresh, late>>
      BY <1>1, <2>1 DEF RefreshOK
    <2> QED
      BY <2>1, RefreshTypes DEF Riot!Rename, Riot!ShowPage, Riot!riotVars
  <1>4. request' = request /\ begun \subseteq begun'
    BY DEF Riot!Rename, Riot!ShowPage, Riot!Refresh, Riot!ListTargets, Riot!FinishRun, Riot!LookUp, Riot!LookUpFails,
      Riot!UpdateIdentity, Riot!UpdateFails, Riot!Restart, Riot!LateUpdate, Riot!riotVars
  <1>5. RunningOK' /\ \A p \in Operations : running'[p] = running[p] \/ running'[p] = Nothing
    <2>1. CASE running' = running
      BY <1>1, <2>1 DEF RunningOK
    <2>2. CASE running' = [o \in Operations |-> Nothing]
      BY <2>2 DEF RunningOK
    <2> QED
      BY <2>1, <2>2 DEF Riot!Rename, Riot!ShowPage, Riot!Refresh, Riot!ListTargets, Riot!FinishRun, Riot!LookUp,
        Riot!LookUpFails, Riot!UpdateIdentity, Riot!UpdateFails, Riot!Restart, Riot!LateUpdate, Riot!riotVars
  <1>6. LinksAlter
    <2>1. CASE link' = link
      BY <1>1, <2>1 DEF LinksAlter, RowsOK
    <2>2. ASSUME NEW t \in refresh.targets, Riot!UpdateIdentity(t) PROVE LinksAlter
      <3>1. link' = Riot!Named(t, refresh.answer) /\ refresh.answer # Nothing
        BY <2>2 DEF Riot!UpdateIdentity
      <3>2. t \in Targets /\ refresh.answer \in Answers
        BY <1>1, <3>1 DEF RefreshOK
      <3> QED
        BY <1>1, <3>1, <3>2, NamedAlters
    <2>3. CASE Riot!LateUpdate
      <3>1. PICK u \in late : link' = Riot!Named(u.target, u.answer)
        BY <2>3 DEF Riot!LateUpdate
      <3>2. u.target \in Targets /\ u.answer \in Answers
        BY <1>1, <3>1 DEF RefreshOK
      <3> QED
        BY <1>1, <3>1, <3>2, NamedAlters
    <2> QED
      BY <2>1, <2>2, <2>3 DEF Riot!Rename, Riot!ShowPage, Riot!Refresh, Riot!ListTargets, Riot!FinishRun,
        Riot!LookUp, Riot!LookUpFails, Riot!UpdateFails, Riot!Restart, Riot!riotVars
  <1> QED
    BY <1>2, <1>3, <1>4, <1>5, <1>6, ApprovedAlters

\* Every step.
LEMMA ApprovedStep == Approved /\ [Riot!RiotNext]_(Riot!riotVars) => Approved'
  <1> SUFFICES ASSUME Approved, [Riot!RiotNext]_(Riot!riotVars) PROVE Approved'
    OBVIOUS
  <1>1. ASSUME NEW o \in Operations, Riot!MemberCommand(o) PROVE Approved'
    BY <1>1, ApprovedBegins, ApprovedRemoves, ApprovedInserts DEF Riot!MemberCommand
  <1>2. ASSUME NEW o \in Operations, Riot!AdministratorCommand(o) PROVE Approved'
    <2>1. ASSUME NEW q \in Operations, Riot!FindPending(o, q) \/ Riot!Reject(o, q) PROVE Approved'
      BY <2>1, ApprovedBegins, ApprovedRejects
    <2>2. ASSUME NEW l \in Operations, Riot!ShowLink(o, l) PROVE Approved'
      BY <2>2, ApprovedBegins
    <2>3. CASE Riot!Resolve(o) \/ Riot!LockRequest(o) \/ Riot!InsertLink(o)
      BY <2>3, ApprovedProceeds
    <2>4. CASE Riot!CommitApproval(o) \/ Riot!RemoveLink(o)
      BY <2>4, ApprovedCommits, ApprovedRemoves
    <2> QED
      BY <1>2, <2>1, <2>2, <2>3, <2>4 DEF Riot!AdministratorCommand
  <1>3. ASSUME NEW o \in Operations, Riot!Fail(o) PROVE Approved'
    BY <1>3, ApprovedProceeds
  <1>4. CASE \/ \E a \in Accounts, n \in Names : Riot!Rename(a, n)
             \/ Riot!ShowPage \/ Riot!Refresh \/ Riot!Restart \/ Riot!LateUpdate
             \/ UNCHANGED Riot!riotVars
    BY <1>4, ApprovedRests
  <1> QED
    BY <1>1, <1>2, <1>3, <1>4 DEF Riot!RiotNext

\* An account is linked to one member and a member has one primary link at most; there is a
\* link exactly for what was approved, of the member of the request: however many approvals
\* run at once, fail half-way and race each other, removals and restarts.
THEOREM LinksAreApprovedTheorem == Riot!RiotSpec => []LinksAreApproved
  <1>1. Approved => LinksAreApproved
    <2> SUFFICES ASSUME Approved PROVE Riot!LinksAreApproved
      BY DEF LinksAreApproved
    <2>1. RowsOK /\ Tied /\ Apart
      BY DEF Approved, RiotTypeOK
    <2>2. ASSUME NEW l \in Operations, link[l] # Nothing
          PROVE  Riot!Cardinality({q \in Operations : request[q] # Nothing /\ request[q].link = l}) = 1
      <3>1. PICK q \in Operations : request[q] # Nothing /\ request[q].link = l
        BY <2>1, <2>2 DEF Tied
      <3>2. {r \in Operations : request[r] # Nothing /\ request[r].link = l} = {q}
        BY <2>1, <3>1, RowsAreNotNothing DEF Tied
      <3>3. Cardinality({q}) = 1
        BY FS_Singleton
      <3> QED
        BY <3>2, <3>3, SameCardinality
    <2>3. \A l, m \in Riot!Active : l # m =>
            ~Riot!Clash(link[l].account, link[l].user, link[l].primary,
                        link[m].account, link[m].user, link[m].primary)
      BY <2>1 DEF Apart, ClashOfLinks
    <2>4. \A q \in Operations : request[q] # Nothing =>
            /\ (request[q].status = "approved") = (request[q].link # Nothing)
            /\ request[q].status = "approved" => link[request[q].link].user = request[q].user
      BY <2>1 DEF Tied
    <2> QED
      BY <2>1, <2>2, <2>3, <2>4 DEF Riot!LinksAreApproved, RowsOK
  <1> QED
    BY <1>1, ApprovedInit, ApprovedStep, PTL DEF Riot!RiotSpec

-----------------------------------------------------------------------------
\* RiotLinks: pages of pending requests.

\* A page has with a request all earlier ones.
LEMMA PageIsDownward ==
  ASSUME NEW ids \in SUBSET Operations, NEW i \in Riot!First(ids, PageSize), NEW j \in ids, j <= i
  PROVE  j \in Riot!First(ids, PageSize)
  <1> DEFINE below(k) == {x \in ids : x < k}
  <1>1. ids \subseteq Nat /\ PageSize \in Nat /\ i \in ids /\ i \in Nat /\ j \in Nat
    BY BotConstants DEF Riot!RiotConstants, Riot!First
  <1>2. below(i) \subseteq 0..i /\ below(j) \subseteq below(i)
    <2>1. \A x \in ids : x \in Nat /\ (x < i => x \in 0..i) /\ (x < j => x < i)
      BY <1>1
    <2> QED
      BY <2>1
  <1>3. IsFiniteSet(0..i)
    BY <1>1, FS_Interval
  <1>4. IsFiniteSet(below(i)) /\ IsFiniteSet(below(j)) /\ Cardinality(below(j)) <= Cardinality(below(i))
    BY <1>2, <1>3, FS_Subset
  <1>5. Cardinality(below(i)) \in Nat /\ Cardinality(below(j)) \in Nat
    BY <1>4, FS_CardinalityType
  <1>6. Cardinality(below(i)) < PageSize
    BY SameCardinality DEF Riot!First
  <1>7. Cardinality(below(j)) < PageSize
    BY <1>1, <1>4, <1>5, <1>6
  <1> QED
    BY <1>7, SameCardinality DEF Riot!First

\* The cursor to the next page leaves nothing out.
LEMMA NextPageFollows ==
  ASSUME NEW ids \in SUBSET Operations
  PROVE  LET shown == Riot!First(ids, PageSize)
             next == Riot!NextPage(ids, shown)
         IN  next \in Nat /\ \A i \in ids : next = 0 \/ i <= next => i \in shown
  <1> DEFINE shown == Riot!First(ids, PageSize)
             next == Riot!NextPage(ids, shown)
  <1>1. ids \subseteq Nat /\ 0 \notin ids /\ PageSize \in Nat \ {0} /\ shown \subseteq ids
    BY BotConstants DEF Riot!RiotConstants, Riot!First
  <1>2. CASE ids \subseteq shown
    BY <1>1, <1>2 DEF Riot!NextPage
  <1>3. CASE ~(ids \subseteq shown)
    <2>1. PICK k \in ids : k \notin shown
      BY <1>3
    <2>2. k \in Nat /\ \A i \in shown : i <= k
      <3>1. \A i \in shown : ~(k <= i)
        BY <2>1, PageIsDownward
      <3>2. k \in Nat /\ \A i \in shown : i \in Nat
        BY <1>1
      <3> HIDE DEF shown
      <3> QED
        BY <3>1, <3>2
    <2>3. shown # {}
      <3>1. PICK m \in ids : \A i \in ids : m <= i
        BY <1>1, <2>1, LeastNatural
      <3>2. {x \in ids : x < m} = {}
        <4>1. m \in Nat /\ \A x \in ids : x \in Nat /\ ~(x < m)
          BY <1>1, <3>1
        <4> QED
          BY <4>1
      <3>3. Riot!Cardinality({x \in ids : x < m}) < PageSize
        BY <1>1, <3>2, SameCardinality, FS_EmptySet
      <3> QED
        BY <3>3 DEF Riot!First
    <2>4. Riot!Max(shown) = Summary!Max(shown)
      BY DEF Riot!Max, Summary!Max
    <2>5. Riot!Max(shown) \in shown /\ \A i \in shown : Riot!Max(shown) >= i
      BY <1>1, <2>2, <2>3, <2>4, MaxIsGreatest
    <2>6. next = Riot!Max(shown)
      BY <1>3 DEF Riot!NextPage
    <2>7. \A i \in ids : i <= next => i \in shown
      BY <2>5, <2>6, PageIsDownward
    <2>8. next \in Nat /\ next # 0
      BY <1>1, <2>5, <2>6
    <2> QED
      BY <2>7, <2>8
  <1> QED
    BY <1>2, <1>3

\* An administrator has been shown what was pending all the while, up to the cursor.
Leafed ==
  /\ page \in [open : BOOLEAN, cursor : Nat, shown : SUBSET Operations, before : SUBSET Operations]
  /\ \A q \in page.before : q \in begun /\ ~Riot!At(q, "request")
  /\ page.open => \A q \in page.before \cap Riot!Pending :
       page.cursor = 0 \/ q <= page.cursor => q \in page.shown

\* A request that was decided never becomes pending again.
Decided ==
  \A q \in Operations : q \in begun /\ ~Riot!At(q, "request") =>
    q \in begun' /\ ~Riot!At(q, "request")' /\ (q \in Riot!Pending' => q \in Riot!Pending)

\* Whatever else happens leaves what was shown complete.
LEMMA LeafedStays == ASSUME Leafed, Decided, page' = page PROVE Leafed'
  BY DEF Leafed, Decided

\* At the start no page is open.
LEMMA LeafedInit == Riot!RiotInit => Leafed
  BY DEF Riot!RiotInit, Riot!NoPage, Leafed

\* A page is turned.
LEMMA LeafedTurns == ASSUME Approved, Leafed, Riot!ShowPage PROVE Leafed'
  <1> DEFINE ids == {q \in Riot!Pending : q > page.cursor}
             shown == Riot!First(ids, PageSize)
             next == Riot!NextPage(ids, shown)
  <1>1. /\ UNCHANGED <<request, running, begun>> /\ Riot!Pending' = Riot!Pending
        /\ \A q \in Operations : Riot!At(q, "request")' = Riot!At(q, "request")
    BY DEF Riot!ShowPage, Riot!tables, Riot!bot, Riot!Pending, Riot!At
  <1>2. /\ page \in [open : BOOLEAN, cursor : Nat, shown : SUBSET Operations, before : SUBSET Operations]
        /\ ids \subseteq Operations /\ shown \subseteq ids /\ Riot!Pending \subseteq Operations
    BY DEF Leafed, Riot!Pending, Riot!First
  <1>3. next \in Nat /\ \A i \in ids : next = 0 \/ i <= next => i \in shown
    BY <1>2, NextPageFollows
  <1>4. \A q \in Riot!Pending : q \in begun /\ ~Riot!At(q, "request")
    BY DEF Riot!Pending, Riot!At, Approved, Issued, Underway
  <1>5. Operations \subseteq Nat \ {0}
    BY RowsAreNotNothing
  <1>6. CASE page.cursor = 0
    <2> DEFINE open == ids # {}
    <2>1. page' = [open |-> open, cursor |-> next, shown |-> shown, before |-> Riot!Pending]
      BY <1>6 DEF Riot!ShowPage
    <2>2. open \in BOOLEAN
      OBVIOUS
    <2>3. ids = Riot!Pending
      <3>1. \A q \in Riot!Pending : q \in Nat /\ q > 0
        BY <1>2, <1>5
      <3> QED
        BY <1>6, <3>1
    <2> HIDE DEF open, next, shown, ids
    <2>4. page'.open = open /\ page'.cursor = next /\ page'.shown = shown /\ page'.before = Riot!Pending
      BY <2>1
    <2>5. page' \in [open : BOOLEAN, cursor : Nat, shown : SUBSET Operations, before : SUBSET Operations]
      BY <1>2, <1>3, <2>1, <2>2
    <2> QED
      BY <1>1, <1>2, <1>3, <1>4, <2>3, <2>4, <2>5 DEF Leafed
  <1>7. CASE page.cursor # 0 /\ page.cursor \notin Riot!Pending
    <2>1. page' = [open |-> FALSE, cursor |-> 0, shown |-> {}, before |-> {}]
      BY <1>7 DEF Riot!ShowPage, Riot!NoPage
    <2> QED
      BY <2>1 DEF Leafed
  <1>8. CASE page.cursor # 0 /\ page.cursor \in Riot!Pending
    <2> DEFINE all == page.shown \cup shown
    <2>1. page' = [page EXCEPT !.cursor = next, !.shown = all]
      BY <1>8 DEF Riot!ShowPage
    <2>2. ASSUME NEW q \in page.before \cap Riot!Pending, page.open, next = 0 \/ q <= next
          PROVE  q \in page.shown \/ q \in shown
      <3>1. CASE q <= page.cursor
        BY <2>2, <3>1 DEF Leafed
      <3>2. CASE q > page.cursor
        BY <1>3, <2>2, <3>2
      <3> QED
        BY <1>2, <1>5, <3>1, <3>2
    <2>3. \A q \in page.before \cap Riot!Pending : page.open /\ (next = 0 \/ q <= next) => q \in all
      BY <2>2
    <2>4. all \subseteq Operations
      BY <1>2
    <2> HIDE DEF all, next, shown, ids
    <2>5. /\ page' \in [open : BOOLEAN, cursor : Nat, shown : SUBSET Operations, before : SUBSET Operations]
          /\ page'.open = page.open /\ page'.cursor = next /\ page'.shown = all /\ page'.before = page.before
      BY <1>2, <1>3, <2>1, <2>4
    <2> QED
      BY <1>1, <1>2, <2>3, <2>5 DEF Leafed
  <1> QED
    BY <1>6, <1>7, <1>8

\* A request is decided once: no step but its own makes it pending.
LEMMA RequestsAreDecided ==
  ASSUME Approved, [Riot!RiotNext]_(Riot!riotVars)
  PROVE  Riot!ShowPage \/ (Decided /\ page' = page)
  <1> USE DEF Riot!riot, Riot!tables, Riot!bot, Riot!scheduler
  <1> DEFINE Kept == request' = request \/ \A q \in Riot!Pending' : q \in Riot!Pending \/ Riot!At(q, "request")
             Unasked == \A q \in begun : Riot!At(q, "request")' => Riot!At(q, "request")
  <1>1. RowsOK /\ RunningOK /\ Issued
    BY DEF Approved, RiotTypeOK
  <1>2. ASSUME begun \subseteq begun', Kept, Unasked PROVE Decided
    BY <1>2 DEF Decided, Riot!Pending
  <1>3. ASSUME NEW o \in Operations, NEW to, Riot!Goes(o, to),
               o \notin begun \/ to = Nothing \/ to.step # "request"
        PROVE  Unasked
    BY <1>1, <1>3 DEF Riot!Goes, Riot!At, RunningOK
  <1> HIDE DEF Unasked
  <1>4. ASSUME NEW o \in Operations, Riot!MemberCommand(o) PROVE Decided /\ page' = page
    <2>1. ASSUME NEW u \in Users, NEW n \in Names, Riot!RequestLink(o, u, n) PROVE Decided /\ page' = page
      <3>1. /\ o \notin begun /\ begun \subseteq begun' /\ request' = request /\ page' = page
            /\ Riot!Goes(o, Nothing) \/ Riot!Goes(o, [step |-> "request", user |-> u, name |-> n])
        BY <2>1 DEF Riot!RequestLink, Riot!Begins, Riot!Ends
      <3> QED
        BY <1>2, <1>3, <3>1
    <2>2. ASSUME NEW l \in Operations, NEW u \in Users, Riot!Unlink(o, u, l) PROVE Decided /\ page' = page
      <3>1. begun \subseteq begun' /\ request' = request /\ page' = page /\ Riot!Goes(o, Nothing)
        BY <2>2 DEF Riot!Unlink, Riot!Begins, Riot!Ends
      <3> QED
        BY <1>2, <1>3, <3>1
    <2>3. CASE Riot!InsertRequest(o)
      <3>1. begun' = begun /\ page' = page /\ Riot!Goes(o, Nothing) /\ Riot!At(o, "request")
        BY <2>3 DEF Riot!InsertRequest, Riot!Ends
      <3>2. \A q \in Operations : q # o => request'[q] = request[q]
        BY <1>1, <2>3 DEF Riot!InsertRequest, RowsOK
      <3>3. Kept
        BY <3>1, <3>2 DEF Riot!Pending
      <3> QED
        BY <1>2, <1>3, <3>1, <3>3
    <2> QED
      BY <1>4, <2>1, <2>2, <2>3 DEF Riot!MemberCommand
  <1>5. ASSUME NEW o \in Operations, Riot!AdministratorCommand(o) PROVE Decided /\ page' = page
    <2>1. ASSUME NEW q \in Operations, Riot!FindPending(o, q) PROVE Decided /\ page' = page
      <3> DEFINE to == [step |-> "resolve", request |-> q]
      <3>1. begun \subseteq begun' /\ request' = request /\ page' = page /\ Riot!Goes(o, to)
        BY <2>1 DEF Riot!FindPending, Riot!Begins
      <3>2. to.step # "request"
        OBVIOUS
      <3>3. o \notin begun
        BY <2>1 DEF Riot!FindPending, Riot!Begins
      <3> QED
        BY <1>2, <1>3, <3>1, <3>3
    <2>2. ASSUME NEW q \in Operations, Riot!Reject(o, q) PROVE Decided /\ page' = page
      <3>1. begun \subseteq begun' /\ page' = page /\ Riot!Goes(o, Nothing)
        BY <2>2 DEF Riot!Reject, Riot!Begins, Riot!Ends
      <3>2. \A r \in Operations : request'[r] = request[r] \/ r \in Riot!Pending
        BY <1>1, <2>2 DEF Riot!Reject, RowsOK
      <3>3. Kept
        BY <3>2 DEF Riot!Pending
      <3> QED
        BY <1>2, <1>3, <3>1, <3>3
    <2>3. ASSUME NEW l \in Operations, Riot!ShowLink(o, l) PROVE Decided /\ page' = page
      <3>1. /\ begun \subseteq begun' /\ request' = request /\ page' = page /\ o \notin begun
            /\ Riot!Goes(o, [step |-> "remove", link |-> l, version |-> link[l].version, name |-> link[l].name])
        BY <2>3 DEF Riot!ShowLink, Riot!Begins
      <3> QED
        BY <1>2, <1>3, <3>1
    <2>4. CASE Riot!Resolve(o) \/ Riot!LockRequest(o) \/ Riot!InsertLink(o)
      <3>1. begun' = begun /\ request' = request /\ page' = page
        BY <2>4 DEF Riot!Resolve, Riot!LockRequest, Riot!InsertLink
      <3>2. CASE Riot!Resolve(o)
        <4>1. ASSUME NEW a \in Accounts,
                     Riot!Goes(o, [step |-> "lock", request |-> running[o].request,
                                   account |-> a, read |-> renames[a]])
              PROVE  Unasked
          BY <1>3, <4>1
        <4>2. Riot!Goes(o, Nothing) => Unasked
          BY <1>3
        <4>3. Unasked
          BY <3>2, <4>1, <4>2 DEF Riot!Resolve, Riot!Ends
        <4> QED
          BY <1>2, <3>1, <4>3
      <3>3. CASE Riot!LockRequest(o)
        <4> DEFINE primary == Riot!LinksOf(request[running[o].request].user) = {}
                   to == [step |-> "index", request |-> running[o].request, account |-> running[o].account,
                          read |-> running[o].read, primary |-> primary]
        <4>1. to.step # "request"
          OBVIOUS
        <4>2. Riot!Goes(o, Nothing) \/ Riot!Goes(o, to)
          BY <3>3 DEF Riot!LockRequest, Riot!Ends
        <4>4. Unasked
          <5> HIDE DEF to
          <5> QED
            BY <1>3, <4>1, <4>2
        <4> QED
          BY <1>2, <3>1, <4>4
      <3>4. CASE Riot!InsertLink(o)
        <4> DEFINE to == [running[o] EXCEPT !.step = "commit"]
        <4>1. running[o] \in Inserting
          BY <1>1, <3>4, RunningTypes DEF Riot!InsertLink
        <4>2. to.step # "request"
          BY <4>1 DEF Inserting
        <4>3. Riot!Goes(o, Nothing) \/ Riot!Goes(o, to)
          BY <3>4 DEF Riot!InsertLink, Riot!Ends
        <4>4. Unasked
          <5> HIDE DEF to
          <5> QED
            BY <1>3, <4>2, <4>3
        <4> QED
          BY <1>2, <3>1, <4>4
      <3> QED
        BY <2>4, <3>2, <3>3, <3>4, <3>1
    <2>5. CASE Riot!CommitApproval(o)
      <3>1. begun' = begun /\ page' = page /\ Riot!Goes(o, Nothing)
        BY <2>5 DEF Riot!CommitApproval, Riot!Ends
      <3>2. \A r \in Operations : request'[r] = request[r] \/ r = running[o].request
        BY <1>1, <2>5 DEF Riot!CommitApproval, RowsOK
      <3>3. running[o].request \in Riot!Pending
        <4>1. running[o] \in Inserting /\ running[o] # Nothing
          BY <1>1, <2>5, RunningTypes DEF Riot!CommitApproval, Riot!At
        <4>2. Underway(o, running[o]) /\ running[o].step = "commit"
          BY <1>1, <2>5 DEF Issued, Riot!CommitApproval, Riot!At
        <4> QED
          BY <4>1, <4>2 DEF Underway, Inserting, Riot!Pending
      <3>4. Kept
        BY <3>2, <3>3 DEF Riot!Pending
      <3> QED
        BY <1>2, <1>3, <3>1, <3>4
    <2>6. CASE Riot!RemoveLink(o)
      <3>1. begun' = begun /\ request' = request /\ page' = page /\ Riot!Goes(o, Nothing)
        BY <2>6 DEF Riot!RemoveLink, Riot!Ends
      <3> QED
        BY <1>2, <1>3, <3>1
    <2> QED
      BY <1>5, <2>1, <2>2, <2>3, <2>4, <2>5, <2>6 DEF Riot!AdministratorCommand
  <1>6. ASSUME NEW o \in Operations, Riot!Fail(o) PROVE Decided /\ page' = page
    <2>1. begun' = begun /\ request' = request /\ page' = page /\ Riot!Goes(o, Nothing)
      BY <1>6 DEF Riot!Fail, Riot!Ends
    <2> QED
      BY <1>2, <1>3, <2>1
  <1>7. CASE \/ \E a \in Accounts, n \in Names : Riot!Rename(a, n)
             \/ Riot!Refresh \/ Riot!Restart \/ Riot!LateUpdate \/ UNCHANGED Riot!riotVars
    <2>1. begun' = begun /\ request' = request /\ page' = page
      BY <1>7 DEF Riot!Rename, Riot!Refresh, Riot!ListTargets, Riot!FinishRun, Riot!LookUp, Riot!LookUpFails,
        Riot!UpdateIdentity, Riot!UpdateFails, Riot!Restart, Riot!LateUpdate, Riot!riotVars
    <2>2. running' = running \/ running' = [p \in Operations |-> Nothing]
      BY <1>7 DEF Riot!Rename, Riot!Refresh, Riot!ListTargets, Riot!FinishRun, Riot!LookUp, Riot!LookUpFails,
        Riot!UpdateIdentity, Riot!UpdateFails, Riot!Restart, Riot!LateUpdate, Riot!riotVars
    <2>3. \A q \in Operations : Riot!At(q, "request")' => Riot!At(q, "request")
      BY <2>2 DEF Riot!At
    <2> QED
      BY <2>1, <2>3 DEF Decided, Riot!Pending
  <1> QED
    BY <1>4, <1>5, <1>6, <1>7 DEF Riot!RiotNext

\* Every step.
LEMMA LeafedStep == Approved /\ Leafed /\ [Riot!RiotNext]_(Riot!riotVars) => Leafed'
  BY RequestsAreDecided, LeafedStays, LeafedTurns

\* Once an administrator has paged to the end, they were shown every request that was pending
\* all the while, whichever were decided, removed or asked for between the pages.
THEOREM PagesMissNothingTheorem == Riot!RiotSpec => []PagesMissNothing
  <1>1. Leafed => PagesMissNothing
    BY DEF Leafed, PagesMissNothing, Riot!PagesMissNothing
  <1> QED
    BY <1>1, ApprovedInit, ApprovedStep, LeafedInit, LeafedStep, PTL DEF Riot!RiotSpec

-----------------------------------------------------------------------------
\* RiotLinks: links change as they were seen.

\* A link that is there keeps its account, and whatever else changes has another version.
Moved ==
  \A l \in Operations : link[l] # Nothing =>
    /\ link'[l] \in Riot!Linked /\ link'[l].account = link[l].account
    /\ link'[l] = link[l] \/ link'[l].version > link[l].version
Renewed == \A a \in Accounts : renames'[a] >= renames[a]

\* A stored name is one the account has had.
Timely == \A l \in Operations : link[l] # Nothing => link[l].read <= renames[link[l].account]

\* What a command has read of an account, or of a link.
Fit(mine) ==
  /\ mine.step \in {"lock", "index", "commit"} => mine.read <= renames[mine.account]
  /\ mine.step = "remove" =>
       /\ link[mine.link] # Nothing /\ link[mine.link].version >= mine.version
       /\ link[mine.link].version = mine.version => link[mine.link].name = mine.name
Commanded == \A o \in Operations : running[o] # Nothing => Fit(running[o])

\* What the refresh has listed, and what Riot has answered since.
Aimed(t) == link[t.link] # Nothing /\ link[t.link].account = t.account /\ link[t.link].version >= t.version
Answered(t, answer) ==
  /\ Aimed(t) /\ answer.read <= renames[t.account]
  /\ link[t.link].version = t.version => link[t.link].read <= answer.read
Aiming ==
  /\ \A t \in refresh.targets : Aimed(t)
  /\ \A t, u \in refresh.targets : t.link = u.link => t = u
  /\ refresh.answer # Nothing =>
       refresh.targets # {} /\ \A t \in refresh.targets : Riot!Looking(t) => Answered(t, refresh.answer)
  /\ \A u \in late : Answered(u.target, u.answer)

Tracked == Timely /\ Commanded /\ Aiming

\* At the start nothing has been read.
LEMMA TrackedInit == Riot!RiotInit => Tracked
  BY RowsAreNotNothing DEF Riot!RiotInit, Riot!Idle, Tracked, Timely, Commanded, Aiming

\* Links that move and accounts that are renamed leave all of it true.
LEMMA FitMoves ==
  ASSUME RowsOK, NamesOK, NamesOK', Moved, Renewed, NEW mine \in Running, Fit(mine) PROVE Fit(mine)'
  <1>1. CASE mine.step \in {"lock", "index", "commit"}
    <2>1. mine.account \in Accounts /\ mine.read \in Nat /\ mine.step # "remove"
      BY <1>1 DEF Running, Asking, Resolving, Approving, Inserting, Removing
    <2>2. renames[mine.account] \in Nat /\ renames'[mine.account] \in Nat
      BY <2>1 DEF NamesOK
    <2> QED
      BY <1>1, <2>1, <2>2 DEF Fit, Renewed
  <1>2. CASE mine.step = "remove"
    <2>1. mine.link \in Operations /\ mine.version \in Nat
      BY <1>2 DEF Running, Asking, Resolving, Approving, Inserting, Removing
    <2>2. link[mine.link] \in Riot!Linked /\ link'[mine.link] \in Riot!Linked /\ link'[mine.link] # Nothing
      BY <1>2, <2>1, RowsAreNotNothing DEF Fit, Moved, RowsOK
    <2>3. link[mine.link].version \in Nat /\ link'[mine.link].version \in Nat
      BY <2>2 DEF Riot!Linked
    <2> QED
      BY <1>2, <2>1, <2>2, <2>3 DEF Fit, Moved
  <1> QED
    BY <1>1, <1>2 DEF Fit

\* ... for what the refresh has listed, and what Riot answered.
LEMMA AimMoves ==
  ASSUME RowsOK, NamesOK, NamesOK', Moved, Renewed, NEW t \in Targets, Aimed(t)
  PROVE  /\ Aimed(t)'
         /\ \A answer \in Answers : Answered(t, answer) => Answered(t, answer)'
  <1>1. t.link \in Operations /\ t.account \in Accounts /\ t.version \in Nat
    BY DEF Targets
  <1>2. link[t.link] \in Riot!Linked /\ link'[t.link] \in Riot!Linked /\ link'[t.link] # Nothing
    BY <1>1, RowsAreNotNothing DEF Aimed, Moved, RowsOK
  <1>3. /\ link[t.link].version \in Nat /\ link'[t.link].version \in Nat /\ link[t.link].read \in Nat
        /\ renames[t.account] \in Nat /\ renames'[t.account] \in Nat
    BY <1>1, <1>2 DEF Riot!Linked, NamesOK
  <1>4. Aimed(t)'
    BY <1>1, <1>2, <1>3 DEF Aimed, Moved
  <1>5. ASSUME NEW answer \in Answers, Answered(t, answer) PROVE Answered(t, answer)'
    <2>1. answer.read \in Nat
      BY DEF Answers
    <2> QED
      BY <1>1, <1>2, <1>3, <1>4, <1>5, <2>1 DEF Answered, Aimed, Moved, Renewed
  <1> QED
    BY <1>4, <1>5

\* ... for all commands: those that go on have read what is there.
LEMMA CommandedMoves ==
  ASSUME RowsOK, NamesOK, NamesOK', RunningOK, Commanded, Moved, Renewed,
         \A p \in Operations : running'[p] = running[p] \/ running'[p] = Nothing \/ Fit(running[p])'
  PROVE  Commanded'
  <1> SUFFICES ASSUME NEW p \in Operations, running'[p] # Nothing PROVE Fit(running[p])'
    BY DEF Commanded
  <1>1. CASE running'[p] = running[p]
    <2>1. running[p] \in Running /\ Fit(running[p])
      BY <1>1 DEF Commanded, RunningOK
    <2>2. PICK mine \in Running : mine = running[p]
      BY <2>1
    <2>3. Fit(mine)'
      BY <2>1, <2>2, FitMoves
    <2> QED
      BY <1>1, <2>2, <2>3 DEF Fit
  <1> QED
    BY <1>1

\* ... for all targets of the refresh and all late updates.
LEMMA AimingMoves ==
  ASSUME RowsOK, NamesOK, NamesOK', RefreshOK, Aiming, Moved, Renewed, refresh' = refresh, late' \subseteq late
  PROVE  Aiming'
  <1>1. refresh.targets \subseteq Targets /\ refresh.answer \in Answers \cup {Nothing}
    BY DEF RefreshOK
  <1>2. \A u \in late : u.target \in Targets /\ u.answer \in Answers
    BY DEF RefreshOK
  <1>3. \A t \in refresh.targets : Aimed(t)'
    BY <1>1, AimMoves DEF Aiming
  <1>4. \A t \in refresh.targets : Riot!Looking(t)' = Riot!Looking(t)
    BY DEF Riot!Looking
  <1>5. ASSUME refresh.answer # Nothing, NEW t \in refresh.targets, Riot!Looking(t)
        PROVE  Answered(t, refresh.answer)'
    <2>1. PICK answer \in Answers : answer = refresh.answer
      BY <1>1, <1>5
    <2>2. Aimed(t) /\ Answered(t, answer)
      BY <1>5, <2>1 DEF Aiming
    <2>3. Answered(t, answer)'
      BY <1>1, <2>2, AimMoves
    <2> QED
      BY <2>1, <2>3 DEF Answered
  <1>6. ASSUME NEW u \in late PROVE Answered(u.target, u.answer)'
    <2>1. Answered(u.target, u.answer) /\ Aimed(u.target)
      BY DEF Aiming, Answered
    <2> QED
      BY <1>2, <2>1, AimMoves
  <1> QED
    BY <1>3, <1>4, <1>5, <1>6 DEF Aiming

\* What a link says is never older than what it said.
Newer == \A l \in Operations : link[l] # Nothing => link'[l].read >= link[l].read

\* What a removal removes had the name that was shown.
RemovedAsSeen ==
  \A o \in Operations : Riot!At(o, "remove") /\ ~Riot!At(o, "remove")' =>
    LET l == running[o].link
    IN  l \in Riot!Active /\ link'[l].removed => link[l].name = running[o].name

\* No link changes.
LEMMA LinksRest ==
  ASSUME RowsOK, NamesOK, NamesOK', Timely, Renewed, link' = link
  PROVE  Moved /\ Newer /\ Timely' /\ RemovedAsSeen
  <1>1. \A l \in Operations : link[l] # Nothing =>
          /\ link[l] \in Riot!Linked /\ link[l].read \in Nat
          /\ renames[link[l].account] \in Nat /\ renames'[link[l].account] \in Nat
          /\ renames'[link[l].account] >= renames[link[l].account]
    BY DEF RowsOK, NamesOK, Riot!Linked, Renewed
  <1>2. Moved /\ Newer
    BY <1>1 DEF Moved, Newer
  <1>3. Timely'
    BY <1>1 DEF Timely
  <1>4. RemovedAsSeen
    BY DEF RemovedAsSeen, Riot!Active
  <1> QED
    BY <1>2, <1>3, <1>4

\* A link is removed.
LEMMA RemovedMoves ==
  ASSUME RowsOK, Timely, NEW l \in Riot!Active, link' = Riot!Removed(l), renames' = renames
  PROVE  /\ Moved /\ Newer /\ Timely'
         /\ \A m \in Riot!Active : link'[m].removed => m = l
  <1> DEFINE version == link[l].version + 1
             new == [link[l] EXCEPT !.removed = TRUE, !.primary = FALSE, !.version = version]
  <1>1. l \in Operations /\ link[l] \in Riot!Linked /\ link[l] # Nothing
    BY DEF Riot!Active, RowsOK
  <1>2. version \in Nat /\ version > link[l].version
    BY <1>1 DEF Riot!Linked
  <1>3. link' = [link EXCEPT ![l] = new]
    BY <1>1 DEF Riot!Removed, RowsOK
  <1> HIDE DEF version
  <1>4. /\ new \in Riot!Linked /\ new.account = link[l].account /\ new.read = link[l].read
        /\ new.version > link[l].version
    BY <1>1, <1>2 DEF Riot!Linked
  <1> HIDE DEF new
  <1>5. link'[l] = new /\ \A m \in Operations : m # l => link'[m] = link[m]
    BY <1>1, <1>3 DEF RowsOK
  <1>6. \A m \in Operations : link[m] # Nothing => link[m] \in Riot!Linked /\ link[m].read \in Nat
    BY DEF RowsOK, Riot!Linked
  <1>7. Moved /\ Newer
    BY <1>1, <1>4, <1>5, <1>6 DEF Moved, Newer
  <1>8. Timely'
    BY <1>1, <1>4, <1>5 DEF Timely
  <1> QED
    BY <1>5, <1>7, <1>8 DEF Riot!Active

\* A link gets the name that Riot answered, if nothing happened to it since it was listed.
LEMMA NamedMoves ==
  ASSUME RowsOK, NamesOK, NamesOK', Timely, NEW t \in Targets, NEW answer \in Answers, Answered(t, answer),
         link' = Riot!Named(t, answer), renames' = renames
  PROVE  /\ Moved /\ Newer /\ Timely'
         /\ \A m \in Riot!Active : ~link'[m].removed
  <1> DEFINE l == t.link
             version == link[l].version + 1
             new == [link[l] EXCEPT !.name = answer.name, !.read = answer.read, !.version = version]
  <1>1. CASE link' = link
    <2>1. \A a \in Accounts : renames[a] \in Nat
      BY DEF NamesOK
    <2>2. Renewed /\ NamesOK'
      <3>1. Renewed
        BY <2>1 DEF Renewed
      <3> QED
        BY <3>1 DEF NamesOK
    <2> QED
      BY <1>1, <2>2, LinksRest DEF Riot!Active
  <1>2. CASE link' # link
    <2>1. /\ l \in Riot!Active /\ link[l].version = t.version
          /\ link' = [link EXCEPT ![l].name = answer.name, ![l].read = answer.read, ![l].version = @ + 1]
      BY <1>2 DEF Riot!Named
    <2>2. l \in Operations /\ link[l] \in Riot!Linked /\ link[l] # Nothing
      BY <2>1 DEF Riot!Active, RowsOK
    <2>3. link' = [link EXCEPT ![l] = new]
      BY <2>1, <2>2 DEF RowsOK
    <2>4. version \in Nat /\ version > link[l].version /\ answer.name \in Names /\ answer.read \in Nat
      BY <2>2 DEF Riot!Linked, Answers
    <2>5. link[l].read <= answer.read /\ answer.read <= renames[link[l].account]
      BY <2>1 DEF Answered, Aimed
    <2> HIDE DEF version
    <2>6. /\ new \in Riot!Linked /\ new.account = link[l].account /\ new.read = answer.read
          /\ new.version > link[l].version /\ new.removed = link[l].removed
      BY <2>2, <2>4 DEF Riot!Linked
    <2> HIDE DEF new, l
    <2>7. link'[l] = new /\ \A m \in Operations : m # l => link'[m] = link[m]
      BY <2>2, <2>3 DEF RowsOK
    <2>8. \A m \in Operations : link[m] # Nothing => link[m] \in Riot!Linked /\ link[m].read \in Nat
      BY DEF RowsOK, Riot!Linked
    <2>9. Moved
      BY <2>2, <2>6, <2>7, <2>8 DEF Moved
    <2>10. Newer
      BY <2>2, <2>4, <2>5, <2>6, <2>7, <2>8 DEF Newer
    <2>11. Timely'
      BY <2>2, <2>5, <2>6, <2>7 DEF Timely
    <2> QED
      BY <2>6, <2>7, <2>9, <2>10, <2>11 DEF Riot!Active
  <1> QED
    BY <1>1, <1>2

\* No link changes: a command that goes on has read the account or the link as it is.
LEMMA TrackedGoes ==
  ASSUME Approved, Approved', Tracked, NEW o \in Operations, NEW to, Riot!Goes(o, to), to # Nothing => Fit(to),
         link' = link, renames' = renames, refresh' = refresh, late' = late
  PROVE  Tracked' /\ Newer /\ RemovedAsSeen
  <1>1. RowsOK /\ RunningOK /\ NamesOK /\ NamesOK' /\ RefreshOK
    BY DEF Approved, RiotTypeOK
  <1>2. Renewed
    <2>1. \A a \in Accounts : renames[a] \in Nat
      BY <1>1 DEF NamesOK
    <2> QED
      BY <2>1 DEF Renewed
  <1>3. Moved /\ Newer /\ Timely' /\ RemovedAsSeen
    BY <1>1, <1>2, LinksRest DEF Tracked
  <1>4. \A p \in Operations : running'[p] = running[p] \/ (p = o /\ running'[p] = to)
    BY <1>1 DEF Riot!Goes, RunningOK
  <1>5. \A p \in Operations : running'[p] = running[p] \/ running'[p] = Nothing \/ Fit(running[p])'
    BY <1>4 DEF Fit
  <1>6. Commanded' /\ Aiming'
    BY <1>1, <1>2, <1>3, <1>5, CommandedMoves, AimingMoves DEF Tracked
  <1> QED
    BY <1>3, <1>6 DEF Tracked

\* The commands that leave the links alone.
LEMMA TrackedCommands ==
  ASSUME Approved, Approved', Tracked, NEW o \in Operations,
         \/ \E u \in Users, n \in Names : Riot!RequestLink(o, u, n)
         \/ \E q \in Operations : Riot!FindPending(o, q) \/ Riot!Reject(o, q)
         \/ \E l \in Operations : Riot!ShowLink(o, l)
         \/ Riot!InsertRequest(o) \/ Riot!Resolve(o) \/ Riot!LockRequest(o) \/ Riot!InsertLink(o) \/ Riot!Fail(o)
  PROVE  Tracked' /\ Newer /\ RemovedAsSeen
  <1> USE DEF Riot!riot, Riot!tables, Riot!scheduler
  <1>1. RowsOK /\ RunningOK /\ NamesOK
    BY DEF Approved, RiotTypeOK
  <1>2. link' = link /\ renames' = renames /\ refresh' = refresh /\ late' = late
    BY DEF Riot!RequestLink, Riot!FindPending, Riot!Reject, Riot!ShowLink, Riot!InsertRequest, Riot!Resolve,
      Riot!LockRequest, Riot!InsertLink, Riot!Fail
  <1>3. ASSUME NEW to, Riot!Goes(o, to), to # Nothing => Fit(to) PROVE Tracked' /\ Newer /\ RemovedAsSeen
    BY <1>2, <1>3, TrackedGoes
  <1>4. Riot!Goes(o, Nothing) => Tracked' /\ Newer /\ RemovedAsSeen
    BY <1>3
  <1>5. ASSUME NEW u \in Users, NEW n \in Names, Riot!RequestLink(o, u, n)
        PROVE  Tracked' /\ Newer /\ RemovedAsSeen
    <2> DEFINE to == [step |-> "request", user |-> u, name |-> n]
    <2>1. Fit(to)
      BY DEF Fit
    <2>2. Riot!Goes(o, Nothing) \/ Riot!Goes(o, to)
      BY <1>5 DEF Riot!RequestLink, Riot!Ends
    <2> HIDE DEF to
    <2> QED
      BY <1>3, <1>4, <2>1, <2>2
  <1>6. ASSUME NEW q \in Operations, Riot!FindPending(o, q) PROVE Tracked' /\ Newer /\ RemovedAsSeen
    <2> DEFINE to == [step |-> "resolve", request |-> q]
    <2>1. Fit(to)
      BY DEF Fit
    <2>2. Riot!Goes(o, to)
      BY <1>6 DEF Riot!FindPending
    <2> HIDE DEF to
    <2> QED
      BY <1>3, <2>1, <2>2
  <1>7. ASSUME NEW l \in Operations, Riot!ShowLink(o, l) PROVE Tracked' /\ Newer /\ RemovedAsSeen
    <2> DEFINE to == [step |-> "remove", link |-> l, version |-> link[l].version, name |-> link[l].name]
    <2>1. Riot!Goes(o, to) /\ link[l] # Nothing /\ link[l].version \in Nat
      BY <1>1, <1>7 DEF Riot!ShowLink, Riot!Active, RowsOK, Riot!Linked
    <2>2. Fit(to)
      BY <2>1 DEF Fit
    <2> HIDE DEF to
    <2> QED
      BY <1>3, <2>1, <2>2
  <1>8. ASSUME NEW q \in Operations, Riot!Reject(o, q) PROVE Tracked' /\ Newer /\ RemovedAsSeen
    BY <1>4, <1>8 DEF Riot!Reject, Riot!Ends
  <1>9. CASE Riot!InsertRequest(o) \/ Riot!Fail(o)
    BY <1>4, <1>9 DEF Riot!InsertRequest, Riot!Fail, Riot!Ends
  <1>10. CASE Riot!Resolve(o)
    <2>1. ASSUME NEW a \in Accounts,
                 Riot!Goes(o, [step |-> "lock", request |-> running[o].request, account |-> a, read |-> renames[a]])
          PROVE  Tracked' /\ Newer /\ RemovedAsSeen
      <3> DEFINE to == [step |-> "lock", request |-> running[o].request, account |-> a, read |-> renames[a]]
      <3>1. renames[a] \in Nat
        BY <1>1 DEF NamesOK
      <3>2. Fit(to)
        BY <3>1 DEF Fit
      <3>3. Riot!Goes(o, to)
        BY <2>1
      <3> HIDE DEF to
      <3> QED
        BY <1>3, <3>2, <3>3
    <2> QED
      BY <1>4, <1>10, <2>1 DEF Riot!Resolve, Riot!Ends
  <1>11. CASE Riot!LockRequest(o)
    <2> DEFINE primary == Riot!LinksOf(request[running[o].request].user) = {}
               to == [step |-> "index", request |-> running[o].request, account |-> running[o].account,
                      read |-> running[o].read, primary |-> primary]
    <2>1. Fit(running[o]) /\ running[o].step = "lock"
      BY <1>11 DEF Riot!LockRequest, Riot!At, Tracked, Commanded
    <2>2. Fit(to)
      BY <2>1 DEF Fit
    <2>3. Riot!Goes(o, Nothing) \/ Riot!Goes(o, to)
      BY <1>11 DEF Riot!LockRequest, Riot!Ends
    <2> HIDE DEF to
    <2> QED
      BY <1>3, <1>4, <2>2, <2>3
  <1>12. CASE Riot!InsertLink(o)
    <2> DEFINE to == [running[o] EXCEPT !.step = "commit"]
    <2>1. Fit(running[o]) /\ running[o].step = "index" /\ running[o] \in Inserting
      BY <1>1, <1>12, RunningTypes DEF Riot!InsertLink, Riot!At, Tracked, Commanded
    <2>2. to.step = "commit" /\ to.read = running[o].read /\ to.account = running[o].account
      BY <2>1 DEF Inserting
    <2>3. Riot!Goes(o, Nothing) \/ Riot!Goes(o, to)
      BY <1>12 DEF Riot!InsertLink, Riot!Ends
    <2> HIDE DEF to
    <2>4. Fit(to)
      BY <2>1, <2>2 DEF Fit
    <2> QED
      BY <1>3, <1>4, <2>3, <2>4
  <1> QED
    BY <1>5, <1>6, <1>7, <1>8, <1>9, <1>10, <1>11, <1>12

\* Links are removed: by an administrator, in the version that was shown.
LEMMA TrackedRemoves ==
  ASSUME Approved, Approved', Tracked, NEW o \in Operations,
         Riot!RemoveLink(o) \/ \E u \in Users, l \in Operations : Riot!Unlink(o, u, l)
  PROVE  Tracked' /\ Newer /\ RemovedAsSeen
  <1>1. RowsOK /\ RunningOK /\ NamesOK /\ NamesOK' /\ RefreshOK
    BY DEF Approved, RiotTypeOK
  <1>2. UNCHANGED <<renames, refresh, late>> /\ Riot!Goes(o, Nothing)
    BY DEF Riot!RemoveLink, Riot!Unlink, Riot!Ends, Riot!riot, Riot!scheduler
  <1>3. CASE link' = link
    BY <1>2, <1>3, TrackedGoes
  <1>4. CASE link' # link
    <2>1. PICK l \in Riot!Active : link' = Riot!Removed(l)
      BY <1>4 DEF Riot!RemoveLink, Riot!Unlink, Riot!LinksOf
    <2>2. /\ Moved /\ Newer /\ Timely'
          /\ \A m \in Riot!Active : link'[m].removed => m = l
      BY <1>1, <1>2, <2>1, RemovedMoves DEF Tracked
    <2>3. Renewed
      <3>1. \A a \in Accounts : renames[a] \in Nat
        BY <1>1 DEF NamesOK
      <3> QED
        BY <1>2, <3>1 DEF Renewed
    <2>4. \A p \in Operations : running'[p] = running[p] \/ (p = o /\ running'[p] = Nothing)
      BY <1>1, <1>2 DEF Riot!Goes, RunningOK
    <2>5. Commanded' /\ Aiming'
      BY <1>1, <1>2, <2>2, <2>3, <2>4, CommandedMoves, AimingMoves DEF Tracked
    <2>6. RemovedAsSeen
      <3> SUFFICES ASSUME NEW p \in Operations, Riot!At(p, "remove"), ~Riot!At(p, "remove")',
                          running[p].link \in Riot!Active, link'[running[p].link].removed
                   PROVE  link[running[p].link].name = running[p].name
        BY DEF RemovedAsSeen
      <3>1. p = o
        BY <2>4 DEF Riot!At
      <3>2. o \in begun /\ Riot!RemoveLink(o)
        <4>1. o \in begun
          BY <3>1 DEF Riot!At, Approved, Issued
        <4> QED
          BY <4>1 DEF Riot!Unlink, Riot!Begins
      <3>3. link[running[o].link].version = running[o].version
        BY <1>4, <3>2 DEF Riot!RemoveLink
      <3>4. Fit(running[o]) /\ running[o].step = "remove"
        BY <3>1 DEF Riot!At, Tracked, Commanded
      <3> QED
        BY <3>1, <3>3, <3>4 DEF Fit
    <2> QED
      BY <2>2, <2>5, <2>6 DEF Tracked
  <1> QED
    BY <1>3, <1>4

\* An approval commits: the link was not there.
LEMMA TrackedCommits ==
  ASSUME Approved, Approved', Tracked, NEW o \in Operations, Riot!CommitApproval(o)
  PROVE  Tracked' /\ Newer /\ RemovedAsSeen
  <1> DEFINE me == running[o]
             q == me.request
             row == [user |-> request[q].user, account |-> me.account, name |-> request[q].name,
                     read |-> me.read, primary |-> me.primary, removed |-> FALSE, version |-> 0]
  <1>1. RowsOK /\ RunningOK /\ NamesOK /\ NamesOK' /\ RefreshOK /\ RowsOK'
    BY DEF Approved, RiotTypeOK
  <1>2. /\ Riot!At(o, "commit") /\ Riot!Goes(o, Nothing) /\ UNCHANGED <<renames, refresh, late>>
        /\ link' = [link EXCEPT ![o] = row]
    BY DEF Riot!CommitApproval, Riot!Ends, Riot!riot, Riot!scheduler
  <1>3. row.read = me.read /\ row.account = me.account
    OBVIOUS
  <1>4. link[o] = Nothing /\ Fit(me) /\ me.step = "commit"
    BY <1>2 DEF Riot!At, Approved, Issued, Unmade, Tracked, Commanded
  <1>5. me.read <= renames[me.account]
    BY <1>4 DEF Fit
  <1> HIDE DEF row
  <1>6. link'[o] = row /\ \A l \in Operations : l # o => link'[l] = link[l]
    BY <1>1, <1>2 DEF RowsOK
  <1>7. \A l \in Operations : link[l] # Nothing => link[l] \in Riot!Linked /\ link[l].read \in Nat
    BY <1>1 DEF RowsOK, Riot!Linked
  <1>8. Moved /\ Newer
    BY <1>4, <1>6, <1>7 DEF Moved, Newer
  <1>9. Timely'
    BY <1>2, <1>3, <1>5, <1>6 DEF Timely, Tracked
  <1>10. Renewed
    <2>1. \A a \in Accounts : renames[a] \in Nat
      BY <1>1 DEF NamesOK
    <2> QED
      BY <1>2, <2>1 DEF Renewed
  <1>11. \A p \in Operations : running'[p] = running[p] \/ (p = o /\ running'[p] = Nothing)
    BY <1>1, <1>2 DEF Riot!Goes, RunningOK
  <1>12. Commanded' /\ Aiming'
    BY <1>1, <1>2, <1>8, <1>10, <1>11, CommandedMoves, AimingMoves DEF Tracked
  <1>13. RemovedAsSeen
    BY <1>2, <1>11 DEF RemovedAsSeen, Riot!At
  <1> QED
    BY <1>8, <1>9, <1>12, <1>13 DEF Tracked

\* Riot renames an account, or an administrator turns a page.
LEMMA TrackedRenames ==
  ASSUME Approved, Approved', Tracked,
         (\E a \in Accounts, n \in Names : Riot!Rename(a, n)) \/ Riot!ShowPage \/ UNCHANGED Riot!riotVars
  PROVE  Tracked' /\ Newer /\ RemovedAsSeen
  <1>1. RowsOK /\ RunningOK /\ NamesOK /\ NamesOK' /\ RefreshOK
    BY DEF Approved, RiotTypeOK
  <1>2. UNCHANGED <<link, running, refresh, late>>
    BY DEF Riot!Rename, Riot!ShowPage, Riot!riotVars, Riot!riot, Riot!tables, Riot!bot, Riot!scheduler
  <1>3. Renewed
    <2>1. \A a \in Accounts : renames[a] \in Nat
      BY <1>1 DEF NamesOK
    <2>2. CASE renames' = renames
      BY <2>1, <2>2 DEF Renewed
    <2>3. ASSUME NEW a \in Accounts, NEW n \in Names, Riot!Rename(a, n) PROVE Renewed
      BY <1>1, <2>1, <2>3 DEF Riot!Rename, NamesOK, Renewed
    <2> QED
      BY <2>2, <2>3 DEF Riot!ShowPage, Riot!riotVars, Riot!riot
  <1>4. Moved /\ Newer /\ Timely' /\ RemovedAsSeen
    BY <1>1, <1>2, <1>3, LinksRest DEF Tracked
  <1>5. Commanded' /\ Aiming'
    BY <1>1, <1>2, <1>3, <1>4, CommandedMoves, AimingMoves DEF Tracked
  <1> QED
    BY <1>4, <1>5 DEF Tracked

\* The refresh goes on, the bot restarts, or a stopped bot's update is executed: the links.
LEMMA RefreshMoves ==
  ASSUME Approved, Approved', Tracked, Riot!Refresh \/ Riot!Restart \/ Riot!LateUpdate
  PROVE  Renewed /\ Moved /\ Newer /\ Timely' /\ RemovedAsSeen /\ Commanded'
  <1> USE DEF Riot!riot, Riot!tables, Riot!bot, Riot!scheduler
  <1>1. RowsOK /\ RunningOK /\ NamesOK /\ NamesOK' /\ RefreshOK
    BY DEF Approved, RiotTypeOK
  <1>2. renames' = renames /\ (running' = running \/ running' = [o \in Operations |-> Nothing])
    BY DEF Riot!Refresh, Riot!ListTargets, Riot!FinishRun, Riot!LookUp, Riot!LookUpFails,
      Riot!UpdateIdentity, Riot!UpdateFails, Riot!Restart, Riot!LateUpdate
  <1>3. Renewed
    <2>1. \A a \in Accounts : renames[a] \in Nat
      BY <1>1 DEF NamesOK
    <2> QED
      BY <1>2, <2>1 DEF Renewed
  <1> DEFINE Result == Moved /\ Newer /\ Timely' /\ RemovedAsSeen
  <1>4. ASSUME NEW t \in Targets, NEW answer \in Answers, Answered(t, answer), link' = Riot!Named(t, answer)
        PROVE  Result
    <2>1. Moved /\ Newer /\ Timely' /\ \A m \in Riot!Active : ~link'[m].removed
      BY <1>1, <1>2, <1>4, NamedMoves DEF Tracked
    <2> QED
      BY <2>1 DEF RemovedAsSeen
  <1>5. CASE link' = link
    <2>1. Result
      BY <1>1, <1>3, <1>5, LinksRest DEF Tracked
    <2> HIDE DEF Result
    <2> QED
      <3>1. Commanded'
        <4>1. Moved
          BY <2>1 DEF Result
        <4> QED
          BY <1>1, <1>2, <1>3, <4>1, CommandedMoves DEF Tracked
      <3> QED
        BY <1>3, <2>1, <3>1 DEF Result
  <1>6. CASE link' # link
    <2>1. Result
      <3>1. ASSUME NEW t \in refresh.targets, Riot!UpdateIdentity(t) PROVE Result
        <4>1. Riot!Looking(t) /\ refresh.answer # Nothing /\ link' = Riot!Named(t, refresh.answer)
          BY <3>1 DEF Riot!UpdateIdentity
        <4>2. t \in Targets /\ refresh.answer \in Answers /\ Answered(t, refresh.answer)
          BY <1>1, <4>1 DEF RefreshOK, Tracked, Aiming
        <4> HIDE DEF Result
        <4> QED
          BY <1>4, <4>1, <4>2
      <3>2. ASSUME NEW u \in late, link' = Riot!Named(u.target, u.answer) PROVE Result
        <4>1. u.target \in Targets /\ u.answer \in Answers /\ Answered(u.target, u.answer)
          BY <1>1 DEF RefreshOK, Tracked, Aiming
        <4> HIDE DEF Result
        <4> QED
          BY <1>4, <3>2, <4>1
      <3> HIDE DEF Result
      <3> QED
        BY <1>6, <3>1, <3>2 DEF Riot!Refresh, Riot!ListTargets, Riot!FinishRun, Riot!LookUp, Riot!LookUpFails,
          Riot!UpdateFails, Riot!Restart, Riot!LateUpdate
    <2>2. Commanded'
      BY <1>1, <1>2, <1>3, <2>1, CommandedMoves DEF Tracked
    <2> QED
      BY <1>3, <2>1, <2>2
  <1> QED
    BY <1>5, <1>6

\* ... and the targets.
LEMMA RefreshAims ==
  ASSUME Approved, Approved', Tracked, Riot!Refresh \/ Riot!Restart \/ Riot!LateUpdate
  PROVE  Aiming'
  <1> USE DEF Riot!riot, Riot!tables, Riot!bot, Riot!scheduler
  <1>1. RowsOK /\ NamesOK /\ NamesOK' /\ RefreshOK /\ Renewed /\ Moved /\ Timely
    BY RefreshMoves DEF Approved, RiotTypeOK, Tracked
  <1>2. /\ refresh = [cursor |-> refresh.cursor, targets |-> refresh.targets, last |-> refresh.last,
                      answer |-> refresh.answer]
        /\ refresh.targets \subseteq Targets /\ refresh.answer \in Answers \cup {Nothing}
        /\ \A u \in late : u.target \in Targets /\ u.answer \in Answers
    BY <1>1 DEF RefreshOK
  <1>3. \A t \in refresh.targets : Aimed(t) /\ Aimed(t)'
    BY <1>1, <1>2, AimMoves DEF Tracked, Aiming
  <1>4. \A u \in late : Answered(u.target, u.answer)'
    <2> SUFFICES ASSUME NEW u \in late PROVE Answered(u.target, u.answer)'
      OBVIOUS
    <2>1. Answered(u.target, u.answer) /\ Aimed(u.target)
      BY DEF Tracked, Aiming, Answered
    <2> QED
      BY <1>1, <1>2, <2>1, AimMoves
  <1>5. ASSUME refresh'.answer = Nothing, \A t \in refresh'.targets : Aimed(t)',
               \A t, u \in refresh'.targets : t.link = u.link => t = u,
               \A u \in late' : Answered(u.target, u.answer)'
        PROVE  Aiming'
    BY <1>5 DEF Aiming
  <1>6. ASSUME refresh'.answer = Nothing, refresh'.targets \subseteq refresh.targets, late' = late PROVE Aiming'
    BY <1>3, <1>4, <1>5, <1>6 DEF Tracked, Aiming
  <1>7. CASE Riot!ListTargets
    <2> DEFINE batch == Riot!First({l \in Riot!Active : l > refresh.cursor}, BatchSize)
               targets == {Riot!Target(l) : l \in batch}
    <2>1. /\ refresh.targets = {} /\ late' = late /\ link' = link
          /\ \/ refresh' = [refresh EXCEPT !.cursor = 0]
             \/ refresh' = [refresh EXCEPT !.targets = targets, !.last = Riot!Max(batch)]
      BY <1>7 DEF Riot!ListTargets, Riot!Resting
    <2>2. refresh.answer = Nothing
      BY <2>1 DEF Tracked, Aiming
    <2>3. CASE refresh' = [refresh EXCEPT !.cursor = 0]
      <3>1. refresh'.answer = Nothing /\ refresh'.targets = refresh.targets
        BY <1>2, <2>2, <2>3
      <3> QED
        BY <1>6, <2>1, <3>1
    <2>4. CASE refresh' = [refresh EXCEPT !.targets = targets, !.last = Riot!Max(batch)]
      <3>1. \A l \in batch : link[l] # Nothing /\ link[l].version \in Nat
        BY <1>1 DEF Riot!First, Riot!Active, RowsOK, Riot!Linked
      <3>2. \A t \in targets : \E l \in batch : t.link = l /\ t = Riot!Target(l)
        BY DEF Riot!Target
      <3>3. \A l \in batch : Riot!Target(l).link = l /\ Riot!Target(l).account = link[l].account
                             /\ Riot!Target(l).version = link[l].version
        BY DEF Riot!Target
      <3> HIDE DEF batch
      <3>4. \A t \in targets : link[t.link] # Nothing /\ link[t.link].account = t.account /\ link[t.link].version >= t.version
        <4> SUFFICES ASSUME NEW t \in targets
                     PROVE  link[t.link] # Nothing /\ link[t.link].account = t.account /\ link[t.link].version >= t.version
          OBVIOUS
        <4>1. PICK l \in batch : t.link = l /\ t = Riot!Target(l)
          BY <3>2
        <4>2. t.account = link[l].account /\ t.version = link[l].version
          BY <3>3, <4>1
        <4>3. link[l].version >= link[l].version
          BY <3>1
        <4> QED
          BY <3>1, <4>1, <4>2, <4>3
      <3>5. \A t, u \in targets : t.link = u.link => t = u
        BY <3>2
      <3> HIDE DEF targets
      <3>6. refresh'.answer = Nothing /\ refresh'.targets = targets
        BY <1>2, <2>2, <2>4
      <3>7. \A t \in refresh'.targets : Aimed(t)'
        BY <2>1, <3>4, <3>6 DEF Aimed
      <3> QED
        BY <1>4, <1>5, <2>1, <3>5, <3>6, <3>7
    <2> QED
      BY <2>1, <2>3, <2>4
  <1>8. ASSUME Riot!FinishRun \/ \E t \in refresh.targets : Riot!UpdateFails(t) PROVE Aiming'
    <2>1. refresh'.targets = {} /\ refresh'.answer = Nothing /\ late' = late
      BY <1>8 DEF Riot!FinishRun, Riot!UpdateFails, Riot!Idle
    <2> QED
      BY <1>6, <2>1
  <1>9. ASSUME NEW t \in refresh.targets, Riot!LookUp(t) PROVE Aiming'
    <2>1. PICK answer : answer = [name |-> riotName[t.account], read |-> renames[t.account]]
      OBVIOUS
    <2>2. /\ Riot!Looking(t) /\ refresh' = [refresh EXCEPT !.answer = answer]
          /\ UNCHANGED <<link, renames, late>> /\ answer.read = renames[t.account]
      BY <1>9, <2>1 DEF Riot!LookUp
    <2>3. refresh'.targets = refresh.targets /\ refresh'.answer = answer
      BY <1>2, <2>2
    <2>4. ASSUME NEW u \in refresh.targets, Riot!Looking(u) PROVE u = t
      <3>1. u.link <= t.link /\ t.link <= u.link
        BY <2>2, <2>4 DEF Riot!Looking
      <3>2. u.link \in Nat /\ t.link \in Nat
        BY <1>2, RowsAreNotNothing DEF Targets
      <3>3. u.link = t.link
        BY <3>1, <3>2
      <3> QED
        BY <3>3 DEF Tracked, Aiming
    <2>5. Answered(t, answer)'
      <3>1. t.account \in Accounts /\ renames[t.account] \in Nat
        BY <1>1, <1>2 DEF NamesOK, Targets
      <3>2. Aimed(t) /\ Aimed(t)' /\ t.link \in Operations
        BY <1>2, <1>3 DEF Targets
      <3>3. link[t.link].read <= renames[t.account]
        BY <1>1, <3>2 DEF Timely, Aimed
      <3>4. /\ answer.read <= renames'[t.account]
            /\ link'[t.link].read <= answer.read
        BY <2>2, <3>1, <3>3
      <3> QED
        BY <3>2, <3>4 DEF Answered
    <2>6. \A u \in refresh'.targets : Riot!Looking(u)' => Answered(u, refresh.answer)'
      BY <2>3, <2>4, <2>5 DEF Riot!Looking, Answered
    <2> QED
      BY <1>3, <1>4, <2>2, <2>3, <2>6, <2>4, <2>5 DEF Tracked, Aiming, Riot!Looking
  <1>10. ASSUME NEW t \in refresh.targets, Riot!LookUpFails(t) \/ Riot!UpdateIdentity(t) PROVE Aiming'
    <2>1. late' = late /\ refresh' = Riot!Skips(t)
      BY <1>10 DEF Riot!LookUpFails, Riot!UpdateIdentity
    <2>2. refresh'.answer = Nothing /\ refresh'.targets = refresh.targets \ {t}
      BY <1>2, <2>1 DEF Riot!Skips
    <2> QED
      BY <1>6, <2>1, <2>2
  <1>11. CASE Riot!Restart
    <2>1. /\ refresh'.targets = {} /\ refresh'.answer = Nothing /\ UNCHANGED <<link, renames>>
          /\ late' = late \cup {[target |-> t, answer |-> refresh.answer] :
                                t \in {u \in refresh.targets : Riot!Looking(u) /\ refresh.answer # Nothing}}
      BY <1>11 DEF Riot!Restart, Riot!Idle
    <2>2. ASSUME NEW u \in late' PROVE Answered(u.target, u.answer)'
      <3>1. CASE u \in late
        BY <1>4, <3>1
      <3>2. CASE u \notin late
        <4>1. PICK t \in refresh.targets : /\ Riot!Looking(t) /\ refresh.answer # Nothing
                                           /\ u = [target |-> t, answer |-> refresh.answer]
          BY <2>1, <3>2
        <4>2. Answered(t, refresh.answer) /\ u.target = t /\ u.answer = refresh.answer
          BY <4>1 DEF Tracked, Aiming
        <4>3. Answered(u.target, u.answer)
          BY <4>2
        <4> QED
          BY <2>1, <4>3 DEF Answered, Aimed
      <3> QED
        BY <3>1, <3>2
    <2> QED
      BY <1>5, <2>1, <2>2
  <1>12. CASE Riot!LateUpdate
    <2>1. refresh' = refresh /\ late' \subseteq late
      BY <1>12 DEF Riot!LateUpdate
    <2> QED
      BY <1>1, <2>1, AimingMoves DEF Tracked
  <1> QED
    BY <1>7, <1>8, <1>9, <1>10, <1>11, <1>12 DEF Riot!Refresh

\* Every step.
LEMMA TrackedStep ==
  Approved /\ Tracked /\ [Riot!RiotNext]_(Riot!riotVars) => Tracked' /\ Newer /\ RemovedAsSeen
  <1> SUFFICES ASSUME Approved, Tracked, [Riot!RiotNext]_(Riot!riotVars)
               PROVE  Tracked' /\ Newer /\ RemovedAsSeen
    OBVIOUS
  <1>1. Approved'
    BY ApprovedStep
  <1>2. ASSUME NEW o \in Operations, Riot!MemberCommand(o) PROVE Tracked' /\ Newer /\ RemovedAsSeen
    BY <1>1, <1>2, TrackedCommands, TrackedRemoves DEF Riot!MemberCommand
  <1>3. ASSUME NEW o \in Operations, Riot!AdministratorCommand(o) \/ Riot!Fail(o)
        PROVE  Tracked' /\ Newer /\ RemovedAsSeen
    BY <1>1, <1>3, TrackedCommands, TrackedRemoves, TrackedCommits DEF Riot!AdministratorCommand
  <1>4. CASE Riot!Refresh \/ Riot!Restart \/ Riot!LateUpdate
    BY <1>1, <1>4, RefreshMoves, RefreshAims DEF Tracked
  <1> QED
    BY <1>1, <1>2, <1>3, <1>4, TrackedRenames DEF Riot!RiotNext

\* A stored name is never replaced by one the account had before, however late an update of a
\* stopped bot is executed; an administrator removes a link under the name they were shown.
THEOREM LinksChangeAsSeenTheorem == Riot!RiotSpec => LinksChangeAsSeen
  <1>1. ASSUME Approved, Tracked, [Riot!RiotNext]_(Riot!riotVars)
        PROVE  [/\ \A l \in Riot!Active : link'[l].read >= link[l].read
                /\ \A o \in Operations : Riot!At(o, "remove") /\ ~Riot!At(o, "remove")' =>
                     LET l == running[o].link
                     IN  l \in Riot!Active /\ link'[l].removed => link[l].name = running[o].name]_(Riot!riotVars)
    <2>1. Newer /\ RemovedAsSeen
      BY <1>1, TrackedStep
    <2>2. \A l \in Riot!Active : link'[l].read >= link[l].read
      BY <2>1 DEF Newer, Riot!Active
    <2> QED
      BY <2>1, <2>2 DEF RemovedAsSeen
  <1> QED
    BY <1>1, ApprovedInit, ApprovedStep, TrackedInit, TrackedStep, PTL DEF Riot!RiotSpec, LinksChangeAsSeen, Riot!LinksChangeAsSeen

-----------------------------------------------------------------------------
\* GoLiveEvidence: types.

\* What an event says of the stream.
Said(entry) == IF entry.selfStream THEN "active" ELSE "inactive"

\* The parts of the type invariant.
WorldOK == streaming \in BOOLEAN /\ toggled \in Ages /\ toggles \in 0..MaxToggles /\ linked \in BOOLEAN
QueueOK ==
  /\ queue \in Seq(QueueEntries) /\ Len(queue) <= MaxQueue
  /\ \A i \in 1..Len(queue) : queue[i].event = "joined" => i = 1
VoiceOK == voice = Nothing \/ voice \in [state : States, age : Ages, seen : 0..toggles]
InterruptionOK == interruptedAt \in Ages \cup {Nothing} /\ lastReconciledAt \in Ages \cup {Nothing}
ReconciliationOK ==
  reconciliation = Nothing
    \/ reconciliation \in [untouched : BOOLEAN, listed : BOOLEAN, answer : States, age : {0, 1}, read : 0..toggles]
WaitingOK ==
  /\ tick \in BOOLEAN /\ (tick => reconciliation # Nothing)
  /\ queue # <<>> /\ Head(queue).event = "joined" => reconciliation # Nothing

\* They are the type invariant.
LEMMA EvidenceTyped == TypeOK <=> WorldOK /\ QueueOK /\ VoiceOK /\ InterruptionOK /\ ReconciliationOK /\ WaitingOK
  <1>1. ASSUME queue \in Seq(QueueEntries)
        PROVE  /\ Len(queue) \in Nat
               /\ queue # <<>> => Len(queue) >= 1 /\ Head(queue) = queue[1]
               /\ queue = <<>> => Len(queue) = 0
    BY <1>1
  <1> QED
    BY <1>1 DEF TypeOK, WorldOK, QueueOK, VoiceOK, InterruptionOK, ReconciliationOK, WaitingOK

\* They are, after a step as well.
LEMMA EvidenceTypedNext ==
  WorldOK' /\ QueueOK' /\ VoiceOK' /\ InterruptionOK' /\ ReconciliationOK' /\ WaitingOK' => TypeOK'
  BY EvidenceTyped, PTL

\* The constants.
LEMMA EvidenceNumbers ==
  /\ Freshness \in Nat /\ Freshness > 1 /\ MaxQueue \in Nat /\ MaxQueue > 1 /\ MaxToggles \in Nat
  /\ Oldest \in Nat /\ Freshness <= Oldest /\ 0 \in Ages /\ Nothing \notin Ages
  BY EvidenceConstants DEF Oldest, Ages

\* An age grows until it is old.
LEMMA AgesGrow ==
  ASSUME NEW age \in Ages
  PROVE  Older(age) \in Ages /\ Older(age) <= age + 1 /\ age <= Older(age)
         /\ (age < Freshness => Older(age) = age + 1)
  BY EvidenceNumbers DEF Ages, Older

\* At the start nothing is known, and one event waits.
LEMMA EvidenceInit == Init => TypeOK
  <1> SUFFICES ASSUME Init PROVE TypeOK
    OBVIOUS
  <1>1. queue = <<[event |-> "reconcile"]>>
    BY DEF Init, Fresh
  <1>2. QueueOK
    BY <1>1, EvidenceNumbers DEF QueueOK, QueueEntries
  <1>3. WorldOK /\ VoiceOK /\ InterruptionOK /\ ReconciliationOK
    BY EvidenceNumbers DEF Init, Fresh, WorldOK, VoiceOK, InterruptionOK, ReconciliationOK, Ages
  <1>4. WaitingOK
    <2>1. Head(queue) = [event |-> "reconcile"]
      BY <1>1
    <2>2. Head(queue).event # "joined" /\ tick = FALSE
      BY <2>1 DEF Init, Fresh
    <2> QED
      BY <2>2 DEF WaitingOK
  <1> QED
    BY <1>2, <1>3, <1>4, EvidenceTyped

\* The stream changes more often; what was told of it stays of its type.
LEMMA TypesStay ==
  ASSUME WorldOK, WorldOK', toggles <= toggles'
  PROVE  /\ voice' = voice /\ VoiceOK => VoiceOK'
         /\ reconciliation' = reconciliation /\ ReconciliationOK => ReconciliationOK'
         /\ \A entry \in QueueEntries : entry \in QueueEntries'
  <1>1. 0..toggles \subseteq 0..toggles'
    BY DEF WorldOK
  <1> QED
    BY <1>1 DEF VoiceOK, ReconciliationOK, QueueEntries

\* What happens to the queue: an event is appended,
LEMMA QueueAppends ==
  ASSUME QueueOK, QueueEntries \subseteq QueueEntries', NEW entry \in QueueEntries',
         Len(queue) < MaxQueue, entry.event # "joined", queue' = Append(queue, entry)
  PROVE  /\ QueueOK' /\ Len(queue') = Len(queue) + 1 /\ queue'[Len(queue')] = entry
         /\ \A i \in 1..Len(queue) : queue'[i] = queue[i]
         /\ queue' # <<>> /\ (queue # <<>> => Head(queue') = Head(queue)) /\ (queue = <<>> => Head(queue') = entry)
  BY EvidenceNumbers DEF QueueOK

\* ... the queue stays,
LEMMA QueueStays ==
  ASSUME QueueOK, QueueEntries \subseteq QueueEntries', queue' = queue PROVE QueueOK'
  BY DEF QueueOK

\* ... its first event is handled,
LEMMA QueueServes ==
  ASSUME QueueOK, QueueEntries \subseteq QueueEntries', queue # <<>>, queue' = Tail(queue)
  PROVE  /\ QueueOK' /\ Len(queue') = Len(queue) - 1
         /\ \A i \in 1..Len(queue') : i + 1 \in 1..Len(queue) /\ queue'[i] = queue[i + 1]
         /\ queue' # <<>> => Head(queue').event # "joined"
  <1>1. /\ Len(queue) >= 1 /\ Len(queue') = Len(queue) - 1 /\ Len(queue) \in Nat
        /\ queue' \in Seq(QueueEntries)
        /\ \A i \in 1..Len(queue') : queue'[i] = queue[i + 1]
        /\ queue' # <<>> => Head(queue') = queue'[1] /\ Len(queue') >= 1
    BY DEF QueueOK
  <1>2. \A i \in 1..Len(queue') : i + 1 \in 1..Len(queue) /\ queue'[i] = queue[i + 1] /\ queue'[i].event # "joined"
    BY <1>1 DEF QueueOK
  <1>3. queue' \in Seq(QueueEntries')
    BY <1>1, SeqMonotonic
  <1> QED
    BY <1>1, <1>2, <1>3, EvidenceNumbers DEF QueueOK

\* ... or it waits for a reconciliation.
LEMMA QueueWaits ==
  ASSUME QueueOK, QueueEntries \subseteq QueueEntries', queue # <<>>,
         queue' = [queue EXCEPT ![1] = [event |-> "joined"]]
  PROVE  /\ QueueOK' /\ Len(queue') = Len(queue) /\ queue' # <<>> /\ Head(queue').event = "joined"
         /\ \A i \in 1..Len(queue') : i # 1 => queue'[i] = queue[i]
  <1>1. [event |-> "joined"] \in QueueEntries'
    BY DEF QueueEntries
  <1>2. Len(queue) >= 1 /\ Len(queue) \in Nat
    BY DEF QueueOK
  <1>3. queue \in Seq(QueueEntries') /\ 1 \in 1..Len(queue)
    BY <1>2, SeqMonotonic DEF QueueOK
  <1>4. queue' \in Seq(QueueEntries') /\ Len(queue') = Len(queue)
    BY <1>1, <1>3, ExceptSeq
  <1>5. queue'[1] = [event |-> "joined"] /\ \A i \in 1..Len(queue') : i # 1 => queue'[i] = queue[i]
    BY <1>2, <1>4 DEF QueueOK
  <1> QED
    BY <1>2, <1>4, <1>5 DEF QueueOK

\* The types, step by step: the clock, and the world.
LEMMA TypesInTheWorld ==
  ASSUME TypeOK, TimePasses \/ Toggle \/ Unlink \/ GatewayEvent \/ Restart PROVE TypeOK'
  <1> USE DEF world, memory
  <1>1. WorldOK /\ QueueOK /\ VoiceOK /\ InterruptionOK /\ ReconciliationOK /\ WaitingOK
    BY EvidenceTyped
  <1>2. \A age \in Ages : Older(age) \in Ages
    BY AgesGrow
  <1>3. \A age \in Ages \cup {Nothing} : Older(age) \in Ages \cup {Nothing}
    BY <1>2 DEF Older
  <1>4. WorldOK' /\ toggles <= toggles'
    <2>1. WorldOK'
      <3>1. CASE TimePasses
        BY <1>1, <1>2, <3>1 DEF TimePasses, WorldOK
      <3>2. CASE Toggle
        <4>1. toggles \in Nat /\ toggles <= MaxToggles /\ toggles < MaxToggles /\ toggles' = toggles + 1
          BY <1>1, <3>2 DEF Toggle, WorldOK
        <4>2. toggles' \in 0..MaxToggles
          BY <4>1, EvidenceNumbers
        <4>3. streaming' \in BOOLEAN /\ toggled' \in Ages /\ linked' \in BOOLEAN
          BY <1>1, <3>2, EvidenceNumbers DEF Toggle, WorldOK
        <4> QED
          BY <4>2, <4>3 DEF WorldOK
      <3>3. CASE Unlink \/ GatewayEvent \/ Restart
        BY <1>1, <3>3 DEF Unlink, GatewayEvent, Restart, WorldOK
      <3> QED
        BY <3>1, <3>2, <3>3
    <2>2. toggles \in Nat
      BY <1>1 DEF WorldOK
    <2> QED
      BY <2>1, <2>2 DEF TimePasses, Toggle, Unlink, GatewayEvent, Restart
  <1>5. QueueEntries \subseteq QueueEntries'
    BY <1>1, <1>4, TypesStay
  <1>6. CASE TimePasses
    <2>1. QueueOK' /\ queue' = queue
      BY <1>1, <1>5, <1>6, QueueStays DEF TimePasses
    <2>2. InterruptionOK'
      BY <1>1, <1>3, <1>6 DEF TimePasses, InterruptionOK
    <2>3. VoiceOK'
      <3>1. CASE voice = Nothing
        BY <1>6, <3>1 DEF TimePasses, VoiceOK
      <3>2. CASE voice # Nothing
        BY <1>1, <1>2, <1>6, <3>2 DEF TimePasses, VoiceOK
      <3> QED
        BY <3>1, <3>2
    <2>4. ReconciliationOK' /\ (reconciliation # Nothing => reconciliation' # Nothing)
      <3>1. CASE reconciliation = Nothing
        BY <1>6, <3>1 DEF TimePasses, ReconciliationOK
      <3>2. CASE reconciliation # Nothing
        <4>1. reconciliation.age = 0 /\ reconciliation' = [reconciliation EXCEPT !.age = 1]
          BY <1>1, <1>6, <3>2 DEF TimePasses, Late, ReconciliationOK
        <4>2. reconciliation' \in [untouched : BOOLEAN, listed : BOOLEAN, answer : States, age : {0, 1}, read : 0..toggles]
          BY <1>1, <3>2, <4>1 DEF ReconciliationOK
        <4>3. 0..toggles \subseteq Nat /\ toggles' = toggles
          BY <1>6 DEF TimePasses
        <4>4. reconciliation' \in Reconciliations
          BY <4>2, <4>3 DEF Reconciliations
        <4> QED
          BY <4>2, <4>3, <4>4, EvidenceConstants DEF ReconciliationOK
      <3> QED
        BY <3>1, <3>2
    <2>5. WaitingOK'
      BY <1>1, <1>6, <2>1, <2>4 DEF TimePasses, WaitingOK
    <2> QED
      BY <1>4, <2>1, <2>2, <2>3, <2>4, <2>5, EvidenceTypedNext
  <1>7. CASE Toggle \/ Unlink \/ GatewayEvent
    <2>1. UNCHANGED <<voice, interruptedAt, reconciliation, lastReconciledAt, tick>>
      BY <1>7 DEF Toggle, Unlink, GatewayEvent
    <2>2. VoiceOK' /\ ReconciliationOK' /\ InterruptionOK'
      BY <1>1, <1>4, <2>1, TypesStay DEF InterruptionOK
    <2>3. QueueOK' /\ WaitingOK'
      <3>1. ASSUME queue' = queue PROVE QueueOK' /\ WaitingOK'
        BY <1>1, <1>5, <2>1, <3>1, QueueStays DEF WaitingOK
      <3>2. ASSUME NEW entry \in QueueEntries', entry.event # "joined", Len(queue) < MaxQueue,
                   queue' = Append(queue, entry)
            PROVE  QueueOK' /\ WaitingOK'
        BY <1>1, <1>5, <2>1, <3>2, QueueAppends DEF WaitingOK
      <3>3. CASE Toggle /\ queue' # queue
        <4> DEFINE entry == [event |-> "voice", selfStream |-> streaming', seen |-> toggles']
        <4>1. Len(queue) < MaxQueue /\ queue' = Append(queue, entry)
          BY <3>3 DEF Toggle
        <4>2. entry \in QueueEntries' /\ entry.event # "joined"
          BY <1>4 DEF QueueEntries, WorldOK
        <4> HIDE DEF entry
        <4> QED
          BY <3>2, <4>1, <4>2
      <3>4. CASE GatewayEvent
        <4>1. PICK event \in {"disconnect", "reconcile"} : queue' = Append(queue, [event |-> event])
          BY <3>4 DEF GatewayEvent
        <4>2. PICK entry : entry = [event |-> event]
          OBVIOUS
        <4>3. entry \in QueueEntries' /\ entry.event # "joined"
          BY <4>2 DEF QueueEntries
        <4> QED
          BY <3>2, <3>4, <4>1, <4>2, <4>3 DEF GatewayEvent
      <3> QED
        BY <1>7, <3>1, <3>3, <3>4 DEF Unlink
    <2> QED
      BY <1>4, <2>2, <2>3, EvidenceTypedNext
  <1>8. CASE Restart
    <2>1. queue' = <<[event |-> "reconcile"]>>
      BY <1>8 DEF Restart, Fresh
    <2>2. QueueOK'
      BY <2>1, EvidenceNumbers DEF QueueOK, QueueEntries
    <2>3. VoiceOK' /\ InterruptionOK' /\ ReconciliationOK'
      BY <1>8 DEF Restart, Fresh, VoiceOK, InterruptionOK, ReconciliationOK
    <2>4. WaitingOK'
      <3>1. Head(queue') = [event |-> "reconcile"]
        BY <2>1
      <3>2. Head(queue').event # "joined" /\ tick' = FALSE
        BY <1>8, <3>1 DEF Restart, Fresh
      <3> QED
        BY <3>2 DEF WaitingOK
    <2> QED
      BY <1>4, <2>2, <2>3, <2>4, EvidenceTypedNext
  <1> QED
    BY <1>6, <1>7, <1>8

\* What is heard has the types of evidence.
LEMMA HeardTypes ==
  ASSUME NEW state \in States, NEW seen \in 0..toggles, toggles' = toggles, InterruptionOK, Hear(state, seen)
  PROVE  VoiceOK' /\ interruptedAt' \in Ages \cup {Nothing}
  BY EvidenceNumbers DEF Hear, VoiceOK, InterruptionOK

\* A reconciliation goes on, or begins.
LEMMA ReconcilingTypes ==
  ASSUME WorldOK, ReconciliationOK
  PROVE  /\ Reconciling \in [untouched : BOOLEAN, listed : BOOLEAN, answer : States, age : {0, 1}, read : 0..toggles]
         /\ Reconciling # Nothing
         /\ Touched = Nothing <=> reconciliation = Nothing
         /\ toggles' = toggles /\ reconciliation' = Touched => ReconciliationOK'
  <1> DEFINE R == [untouched : BOOLEAN, listed : BOOLEAN, answer : States, age : {0, 1}, read : 0..toggles]
  <1>1. 0..toggles \subseteq Nat /\ toggles \in 0..toggles
    BY DEF WorldOK
  <1>2. R \subseteq Reconciliations
    BY <1>1 DEF Reconciliations
  <1>3. Reconciling \in R
    BY <1>1 DEF Reconciling, ReconciliationOK, WorldOK, States
  <1>4. reconciliation # Nothing => Touched \in R
    BY DEF Touched, ReconciliationOK
  <1>5. Nothing \notin R
    BY <1>2, EvidenceConstants
  <1>6. Touched = Nothing <=> reconciliation = Nothing
    BY <1>4, <1>5 DEF Touched
  <1>7. toggles' = toggles /\ reconciliation' = Touched => ReconciliationOK'
    BY <1>4, <1>6 DEF ReconciliationOK
  <1> QED
    BY <1>3, <1>5, <1>6, <1>7

\* ... the events and reconciliations.
LEMMA TypesInTheBot ==
  ASSUME TypeOK, \/ ObserveVoice \/ Disconnect \/ JoinReconciliation \/ TickReconciles \/ ReadVoice
                 \/ ReconciliationEnds \/ UNCHANGED vars
  PROVE  TypeOK'
  <1> USE DEF world, memory
  <1>1. WorldOK /\ QueueOK /\ VoiceOK /\ InterruptionOK /\ ReconciliationOK /\ WaitingOK
    BY EvidenceTyped
  <1>2. UNCHANGED <<streaming, toggled, toggles, linked>> /\ WorldOK'
    BY <1>1 DEF ObserveVoice, Disconnect, JoinReconciliation, TickReconciles, ReadVoice, ReconciliationEnds, vars, WorldOK
  <1>3. QueueEntries \subseteq QueueEntries' /\ toggles \in Nat /\ toggles <= toggles'
    BY <1>1, <1>2 DEF QueueEntries, WorldOK
  <1>4. UNCHANGED voice => VoiceOK'
    BY <1>1, <1>2, <1>3, TypesStay
  <1>5. UNCHANGED reconciliation => ReconciliationOK'
    BY <1>1, <1>2, <1>3, TypesStay
  <1>6. CASE ObserveVoice
    <2>1. QueueOK' /\ (queue' # <<>> => Head(queue').event # "joined")
      BY <1>1, <1>3, <1>6, QueueServes DEF ObserveVoice
    <2>2. VoiceOK' /\ InterruptionOK'
      <3>1. Head(queue) \in QueueEntries /\ Head(queue).event = "voice"
        BY <1>1, <1>6, HeadTailProperties DEF ObserveVoice, QueueOK
      <3>2. Head(queue).seen \in 0..toggles
        BY <3>1 DEF QueueEntries
      <3>3. PICK state \in States : Hear(state, Head(queue).seen)
        BY <1>6 DEF ObserveVoice, States
      <3> QED
        BY <1>1, <1>2, <1>6, <3>2, <3>3, HeardTypes DEF ObserveVoice, InterruptionOK
    <2>3. ReconciliationOK' /\ WaitingOK'
      BY <1>1, <1>2, <1>6, <2>1, ReconcilingTypes DEF ObserveVoice, WaitingOK
    <2> QED
      BY <1>2, <2>1, <2>2, <2>3, EvidenceTypedNext
  <1>7. CASE Disconnect
    <2>1. QueueOK' /\ (queue' # <<>> => Head(queue').event # "joined")
      BY <1>1, <1>3, <1>7, QueueServes DEF Disconnect
    <2>2. InterruptionOK'
      BY <1>1, <1>7 DEF Disconnect, InterruptionOK
    <2>3. VoiceOK'
      <3>1. CASE voice = Nothing
        BY <1>4, <1>7, <3>1 DEF Disconnect
      <3>2. CASE voice # Nothing
        <4>1. voice' = [voice EXCEPT !.state = "unknown", !.age = 0]
          BY <1>7, <3>2 DEF Disconnect
        <4> QED
          BY <1>1, <1>2, <3>2, <4>1, EvidenceNumbers DEF VoiceOK, States
      <3> QED
        BY <3>1, <3>2
    <2>4. reconciliation' = reconciliation \/ reconciliation' = Touched
      BY <1>7 DEF Disconnect
    <2>5. ReconciliationOK' /\ WaitingOK'
      BY <1>1, <1>2, <1>5, <1>7, <2>1, <2>4, ReconcilingTypes DEF Disconnect, WaitingOK
    <2> QED
      BY <1>2, <2>1, <2>2, <2>3, <2>5, EvidenceTypedNext
  <1>8. CASE JoinReconciliation
    <2>1. VoiceOK' /\ InterruptionOK' /\ tick' = tick
      BY <1>1, <1>4, <1>8 DEF JoinReconciliation, InterruptionOK
    <2>2. CASE queue' = [queue EXCEPT ![1] = [event |-> "joined"]] /\ reconciliation' = Reconciling
      <3>1. QueueOK'
        BY <1>1, <1>3, <1>8, <2>2, QueueWaits DEF JoinReconciliation
      <3>2. ReconciliationOK' /\ reconciliation' # Nothing
        BY <1>1, <1>2, <2>2, ReconcilingTypes DEF ReconciliationOK
      <3> QED
        BY <1>1, <1>2, <2>1, <3>1, <3>2, EvidenceTypedNext DEF WaitingOK
    <2>3. CASE queue' = Tail(queue) /\ UNCHANGED reconciliation
      <3>1. QueueOK' /\ (queue' # <<>> => Head(queue').event # "joined")
        BY <1>1, <1>3, <1>8, <2>3, QueueServes DEF JoinReconciliation
      <3> QED
        BY <1>1, <1>2, <1>5, <2>1, <2>3, <3>1, EvidenceTypedNext DEF WaitingOK
    <2> QED
      BY <1>8, <2>2, <2>3 DEF JoinReconciliation
  <1>9. CASE TickReconciles \/ ReadVoice
    <2>1. UNCHANGED <<queue, voice, interruptedAt, lastReconciledAt>> /\ QueueOK' /\ VoiceOK' /\ InterruptionOK'
      BY <1>1, <1>3, <1>4, <1>9, QueueStays DEF TickReconciles, ReadVoice, InterruptionOK
    <2>2. ReconciliationOK' /\ reconciliation' # Nothing /\ tick' \in BOOLEAN
      <3>1. CASE TickReconciles
        BY <1>1, <1>2, <3>1, ReconcilingTypes DEF TickReconciles, ReconciliationOK
      <3>2. CASE ReadVoice
        <4> DEFINE answer == IF streaming THEN "active" ELSE "inactive"
                   R == [untouched : BOOLEAN, listed : BOOLEAN, answer : States, age : {0, 1}, read : 0..toggles]
        <4>1. answer \in States /\ toggles \in 0..toggles
          BY <1>3 DEF States
        <4>2. reconciliation' = [reconciliation EXCEPT !.answer = answer, !.read = toggles] /\ reconciliation # Nothing
          BY <3>2 DEF ReadVoice
        <4> HIDE DEF answer
        <4>3. reconciliation' \in R
          BY <1>1, <4>1, <4>2 DEF ReconciliationOK
        <4>4. 0..toggles \subseteq Nat
          OBVIOUS
        <4>5. reconciliation' \in Reconciliations
          BY <4>3, <4>4 DEF Reconciliations
        <4> QED
          BY <1>1, <1>2, <3>2, <4>3, <4>5, EvidenceConstants DEF ReconciliationOK, ReadVoice, WaitingOK
      <3> QED
        BY <1>9, <3>1, <3>2
    <2> QED
      BY <1>2, <2>1, <2>2, EvidenceTypedNext DEF WaitingOK
  <1>10. CASE ReconciliationEnds
    <2>1. QueueOK' /\ (queue' # <<>> => Head(queue').event # "joined")
      <3>1. CASE queue # <<>> /\ Head(queue).event = "joined"
        BY <1>1, <1>3, <1>10, <3>1, QueueServes DEF ReconciliationEnds
      <3>2. CASE ~(queue # <<>> /\ Head(queue).event = "joined")
        BY <1>1, <1>3, <1>10, <3>2, QueueStays DEF ReconciliationEnds
      <3> QED
        BY <3>1, <3>2
    <2>2. VoiceOK' /\ InterruptionOK'
      <3>1. lastReconciledAt' \in Ages
        BY <1>10, EvidenceNumbers DEF ReconciliationEnds
      <3>2. ASSUME NEW state \in {reconciliation.answer, "unknown"}, Hear(state, reconciliation.read)
            PROVE  VoiceOK' /\ InterruptionOK'
        <4>1. state \in States /\ reconciliation.read \in 0..toggles
          BY <1>1, <1>10 DEF ReconciliationEnds, ReconciliationOK, States
        <4> QED
          BY <1>1, <1>2, <3>1, <3>2, <4>1, HeardTypes DEF InterruptionOK
      <3>3. CASE UNCHANGED <<voice, interruptedAt>>
        BY <1>1, <1>4, <3>1, <3>3 DEF InterruptionOK
      <3> QED
        BY <1>10, <3>2, <3>3 DEF ReconciliationEnds
    <2>3. ReconciliationOK' /\ WaitingOK'
      BY <1>10, <2>1 DEF ReconciliationEnds, ReconciliationOK, WaitingOK
    <2> QED
      BY <1>2, <2>1, <2>2, <2>3, EvidenceTypedNext
  <1>11. CASE UNCHANGED vars
    <2>1. InterruptionOK' /\ QueueOK' /\ WaitingOK'
      BY <1>1, <1>3, <1>11, QueueStays DEF vars, InterruptionOK, WaitingOK
    <2> QED
      BY <1>2, <1>4, <1>5, <1>11, <2>1, EvidenceTypedNext DEF vars
  <1> QED
    BY <1>6, <1>7, <1>8, <1>9, <1>10, <1>11

\* Every step.
LEMMA EvidenceTypesStep == TypeOK /\ [Next]_vars => TypeOK'
  BY TypesInTheWorld, TypesInTheBot DEF Next

-----------------------------------------------------------------------------
\* GoLiveEvidence: how old what is known can be.

\* The head of the queue waits for a reconciliation, and the clock has moved meanwhile.
Lag == IF queue # <<>> /\ Head(queue).event = "joined" /\ reconciliation.age = 1 THEN 1 ELSE 0

\* What is known was so when it was heard, but for the time its event had waited; an event
\* waits for the reconciliations of those before it; what was read is of this tick or the last.
KnownLately ==
  voice # Nothing /\ voice.state # "unknown" =>
    Freshness <= voice.age \/ LastWas(voice.state) <= voice.age + (MaxQueue - 1)
QueuedLately ==
  \A i \in 1..Len(queue) : queue[i].event = "voice" => LastWas(Said(queue[i])) + i <= MaxQueue + Lag
ReadLately ==
  reconciliation # Nothing /\ reconciliation.answer # "unknown" =>
    LastWas(reconciliation.answer) <= reconciliation.age

\* A reconciliation that applies has read the stream no earlier than what was heard.
Heeded ==
  voice # Nothing /\ reconciliation # Nothing /\ reconciliation.untouched => voice.seen <= reconciliation.read

Recalled == TypeOK /\ KnownLately /\ QueuedLately /\ ReadLately /\ Heeded

\* At the start nothing is known.
LEMMA RecalledInit == Init => Recalled
  <1> SUFFICES ASSUME Init PROVE Recalled
    OBVIOUS
  <1>1. queue = <<[event |-> "reconcile"]>> /\ voice = Nothing /\ reconciliation = Nothing
    BY DEF Init, Fresh
  <1>2. \A i \in 1..Len(queue) : queue[i].event # "voice"
    BY <1>1
  <1> QED
    BY <1>1, <1>2, EvidenceInit DEF Recalled, KnownLately, QueuedLately, ReadLately, Heeded

\* When the stream was last in a state: now, or when it changed.
LEMMA LastWasNow ==
  ASSUME WorldOK
  PROVE  /\ LastWas(IF streaming THEN "active" ELSE "inactive") = 0
         /\ \A state \in States : LastWas(state) \in Nat
  <1>1. toggled \in Nat /\ Oldest \in Nat
    BY EvidenceNumbers DEF WorldOK, Ages
  <1>2. CASE streaming = TRUE
    BY <1>1, <1>2 DEF LastWas
  <1>3. CASE streaming = FALSE
    BY <1>1, <1>3 DEF LastWas
  <1> QED
    BY <1>2, <1>3 DEF WorldOK

\* It is longer ago when time passes ...
LEMMA LastWasAges ==
  ASSUME WorldOK, TimePasses, NEW state \in States 
  PROVE  LastWas(state) \in Nat /\ LastWas(state)' \in Nat /\ LastWas(state)' <= LastWas(state) + 1
  <1>1. toggled \in Ages /\ toggled \in Nat /\ Oldest \in Nat
    BY EvidenceNumbers DEF WorldOK, Ages
  <1>2. toggled' \in Nat /\ toggled' <= toggled + 1
    BY <1>1, AgesGrow DEF TimePasses, Ages
  <1>3. streaming' = streaming /\ toggles' = toggles
    BY DEF TimePasses
  <1>4. CASE (state = "active") = streaming
    BY <1>3, <1>4 DEF LastWas
  <1>5. CASE (state = "active") # streaming /\ toggles = 0
    BY <1>1, <1>3, <1>5 DEF LastWas
  <1>6. CASE (state = "active") # streaming /\ toggles # 0
    BY <1>1, <1>2, <1>3, <1>6 DEF LastWas
  <1> QED
    BY <1>4, <1>5, <1>6

\* ... and never otherwise: a change is a new instant of either state.
LEMMA LastWasStays ==
  ASSUME WorldOK, WorldOK', Toggle \/ UNCHANGED world, NEW state \in States
  PROVE  /\ LastWas(state) \in Nat /\ LastWas(state)' \in Nat
         /\ LastWas(state)' <= LastWas(state) /\ (Toggle => LastWas(state)' = 0)
  <1>1. LastWas(state) \in Nat
    BY LastWasNow
  <1>2. CASE Toggle
    <2>1. toggles \in Nat /\ toggles' = toggles + 1 /\ toggled' = 0
      BY <1>2 DEF Toggle, WorldOK
    <2>2. toggles' # 0
      BY <2>1
    <2>3. LastWas(state)' = 0
      BY <2>1, <2>2 DEF LastWas
    <2> QED
      BY <1>1, <2>3
  <1>3. CASE ~Toggle
    <2>1. LastWas(state)' = LastWas(state)
      BY <1>3 DEF LastWas, world
    <2> QED
      BY <1>1, <1>3, <2>1
  <1> QED
    BY <1>2, <1>3

\* What was recalled stays so, whatever does not touch it.
LEMMA KnownStays ==
  ASSUME TypeOK, TypeOK', Toggle \/ UNCHANGED world, voice' = voice, KnownLately PROVE KnownLately'
  <1>1. WorldOK /\ WorldOK' /\ VoiceOK
    BY EvidenceTyped DEF TypeOK, WorldOK
  <1>2. CASE voice # Nothing /\ voice.state # "unknown"
    <2>1. voice.state \in States /\ voice.age \in Nat
      BY <1>1, <1>2 DEF VoiceOK, Ages
    <2>2. PICK state \in States : state = voice.state
      BY <2>1
    <2>3. LastWas(state)' <= LastWas(state) /\ LastWas(state) \in Nat /\ LastWas(state)' \in Nat
      BY <1>1, LastWasStays
    <2>4. Freshness <= voice.age \/ LastWas(state) <= voice.age + (MaxQueue - 1)
      BY <1>2, <2>2 DEF KnownLately
    <2>5. Freshness <= voice.age \/ LastWas(state)' <= voice.age + (MaxQueue - 1)
      BY <2>1, <2>3, <2>4, EvidenceNumbers
    <2> QED
      BY <2>2, <2>5 DEF KnownLately, LastWas
  <1> QED
    BY <1>2 DEF KnownLately

\* ... and what a reconciliation has read.
LEMMA ReadStays ==
  ASSUME TypeOK, TypeOK', Toggle \/ UNCHANGED world, ReadLately,
         \/ reconciliation' = reconciliation \/ reconciliation' = Touched
         \/ reconciliation # Nothing /\ reconciliation' = Reconciling
  PROVE  ReadLately'
  <1>1. WorldOK /\ WorldOK' /\ ReconciliationOK
    BY EvidenceTyped DEF TypeOK, WorldOK
  <1>2. CASE reconciliation' # Nothing /\ reconciliation'.answer # "unknown"
    <2>1. reconciliation # Nothing
      BY <1>2 DEF Touched
    <2>2. /\ reconciliation'.answer = reconciliation.answer /\ reconciliation'.age = reconciliation.age
          /\ reconciliation.answer \in States /\ reconciliation.age \in Nat
      BY <1>1, <2>1 DEF Touched, Reconciling, ReconciliationOK
    <2>3. PICK state \in States : state = reconciliation.answer
      BY <2>2
    <2>4. LastWas(state) \in Nat /\ LastWas(state)' \in Nat /\ LastWas(state)' <= LastWas(state)
      BY <1>1, LastWasStays
    <2>5. LastWas(state) <= reconciliation.age
      BY <1>2, <2>1, <2>2, <2>3 DEF ReadLately
    <2>6. LastWas(state)' <= reconciliation'.age
      BY <2>2, <2>4, <2>5
    <2> QED
      BY <2>2, <2>3, <2>6 DEF ReadLately, LastWas
  <1> QED
    BY <1>2 DEF ReadLately

\* The lag is none or one.
LEMMA LagIsSmall == Lag \in {0, 1} /\ Lag' \in {0, 1}
  BY DEF Lag

\* An event in its place, and one that has come forward.
LEMMA QueuedStays ==
  ASSUME TypeOK, TypeOK', Toggle \/ UNCHANGED world, QueuedLately,
         NEW i \in 1..Len(queue'), NEW j \in 1..Len(queue), queue'[i] = queue[j],
         (i = j /\ Lag <= Lag') \/ i + 1 = j, queue[j].event = "voice"
  PROVE  LastWas(Said(queue[i]))' + i <= MaxQueue + Lag'
  <1>1. WorldOK /\ WorldOK'
    BY DEF TypeOK, WorldOK
  <1>2. PICK state \in States : state = Said(queue[j])
    BY DEF Said, States
  <1>3. LastWas(state) \in Nat /\ LastWas(state)' \in Nat /\ LastWas(state)' <= LastWas(state)
    BY <1>1, LastWasStays
  <1>4. LastWas(state) + j <= MaxQueue + Lag
    BY <1>2 DEF QueuedLately
  <1>5. Lag \in {0, 1} /\ Lag' \in {0, 1}
    BY LagIsSmall
  <1>6. LastWas(state)' + i <= MaxQueue + Lag'
    <2>1. i \in Nat /\ j \in Nat
      OBVIOUS
    <2> QED
      BY <1>3, <1>4, <1>5, <2>1, EvidenceNumbers
  <1> QED
    BY <1>2, <1>6 DEF LastWas, Said

\* Time passes.
LEMMA RecalledAges == ASSUME Recalled, TypeOK', TimePasses PROVE Recalled'
  <1>1. WorldOK /\ QueueOK /\ VoiceOK /\ ReconciliationOK /\ WaitingOK
    BY EvidenceTyped DEF Recalled
  <1>2. KnownLately'
    <2>1. CASE voice' # Nothing /\ voice'.state # "unknown"
      <3>1. voice # Nothing
        BY <2>1 DEF TimePasses
      <3>2. voice' = [voice EXCEPT !.age = Older(@)]
        BY <3>1 DEF TimePasses
      <3>3. voice.state \in States /\ voice.age \in Ages /\ voice'.state = voice.state /\ voice'.age = Older(voice.age)
        BY <1>1, <3>1, <3>2 DEF VoiceOK
      <3>4. PICK state \in States : state = voice.state
        BY <3>3
      <3>5. LastWas(state) \in Nat /\ LastWas(state)' \in Nat /\ LastWas(state)' <= LastWas(state) + 1
        BY <1>1, LastWasAges
      <3>6. Freshness <= voice.age \/ LastWas(state) <= voice.age + (MaxQueue - 1)
        BY <2>1, <3>1, <3>3, <3>4 DEF Recalled, KnownLately
      <3>7. /\ voice.age \in Nat /\ voice'.age \in Nat /\ voice.age <= voice'.age
            /\ voice.age < Freshness => voice'.age = voice.age + 1
        BY <3>3, AgesGrow DEF Ages
      <3>8. Freshness <= voice'.age \/ LastWas(state)' <= voice'.age + (MaxQueue - 1)
        BY <3>5, <3>6, <3>7, EvidenceNumbers
      <3> QED
        BY <3>3, <3>4, <3>8 DEF KnownLately, LastWas
    <2> QED
      BY <2>1 DEF KnownLately
  <1>3. reconciliation # Nothing =>
          /\ reconciliation.age = 0 /\ reconciliation' # Nothing /\ reconciliation'.age = 1
          /\ reconciliation'.answer = reconciliation.answer /\ reconciliation'.untouched = reconciliation.untouched
          /\ reconciliation'.read = reconciliation.read /\ reconciliation.answer \in States
    <2> SUFFICES ASSUME reconciliation # Nothing
                 PROVE  /\ reconciliation.age = 0 /\ reconciliation' # Nothing /\ reconciliation'.age = 1
                        /\ reconciliation'.answer = reconciliation.answer /\ reconciliation'.untouched = reconciliation.untouched
                        /\ reconciliation'.read = reconciliation.read /\ reconciliation.answer \in States
      OBVIOUS
    <2>1. reconciliation.age = 0
      BY <1>1 DEF TimePasses, Late, ReconciliationOK
    <2>2. reconciliation' = [reconciliation EXCEPT !.age = 1]
      BY <1>1, <2>1 DEF TimePasses, ReconciliationOK
    <2>3. reconciliation' \in Reconciliations
      BY <1>1, <2>2 DEF ReconciliationOK, Reconciliations
    <2> QED
      BY <1>1, <2>1, <2>2, <2>3, EvidenceConstants DEF ReconciliationOK
  <1>4. ReadLately'
    <2>1. CASE reconciliation' # Nothing /\ reconciliation'.answer # "unknown"
      <3>1. reconciliation # Nothing
        BY <2>1 DEF TimePasses
      <3>2. PICK state \in States : state = reconciliation.answer
        BY <1>3, <3>1
      <3>3. LastWas(state) \in Nat /\ LastWas(state)' \in Nat /\ LastWas(state)' <= LastWas(state) + 1
        BY <1>1, LastWasAges
      <3>4. LastWas(state) <= 0
        BY <1>3, <2>1, <3>1, <3>2 DEF Recalled, ReadLately
      <3>5. LastWas(state)' <= 1
        BY <3>3, <3>4
      <3> QED
        BY <1>3, <3>1, <3>2, <3>5 DEF ReadLately, LastWas
    <2> QED
      BY <2>1 DEF ReadLately
  <1>5. QueuedLately'
    <2> SUFFICES ASSUME NEW i \in 1..Len(queue'), queue'[i].event = "voice"
                 PROVE  LastWas(Said(queue[i]))' + i <= MaxQueue + Lag'
      BY DEF QueuedLately
    <2>1. queue' = queue /\ queue # <<>> /\ Head(queue).event = "joined"
      <3>1. queue' = queue /\ ~Busy
        BY DEF TimePasses
      <3>2. queue # <<>>
        BY <3>1
      <3> QED
        BY <3>1, <3>2 DEF Busy
    <2>2. Lag = 0 /\ Lag' = 1
      BY <1>1, <1>3, <2>1 DEF WaitingOK, Lag
    <2>3. PICK state \in States : state = Said(queue[i])
      BY DEF Said, States
    <2>4. LastWas(state) \in Nat /\ LastWas(state)' \in Nat /\ LastWas(state)' <= LastWas(state) + 1
      BY <1>1, LastWasAges
    <2>5. LastWas(state) + i <= MaxQueue + Lag
      BY <2>1, <2>3 DEF Recalled, QueuedLately
    <2>6. LastWas(state)' + i <= MaxQueue + Lag'
      <3>1. i \in Nat
        OBVIOUS
      <3> QED
        BY <2>2, <2>4, <2>5, <3>1, EvidenceNumbers
    <2> QED
      BY <2>1, <2>3, <2>6 DEF LastWas, Said
  <1>6. Heeded'
    <2>1. CASE voice' # Nothing /\ reconciliation' # Nothing
      <3>1. voice # Nothing /\ reconciliation # Nothing
        BY <2>1 DEF TimePasses
      <3>2. voice' = [voice EXCEPT !.age = Older(@)]
        BY <3>1 DEF TimePasses
      <3>3. voice'.seen = voice.seen
        BY <1>1, <3>1, <3>2 DEF VoiceOK
      <3> QED
        BY <1>3, <3>1, <3>3 DEF Recalled, Heeded
    <2> QED
      BY <2>1 DEF Heeded
  <1> QED
    BY <1>2, <1>4, <1>5, <1>6 DEF Recalled

\* The queue stays, and the one who is served leaves it.
LEMMA QueuedRests ==
  ASSUME TypeOK, TypeOK', Toggle \/ UNCHANGED world, QueuedLately,
         (queue' = queue /\ Lag <= Lag') \/ (queue # <<>> /\ queue' = Tail(queue))
  PROVE  QueuedLately'
  <1> SUFFICES ASSUME NEW i \in 1..Len(queue'), queue'[i].event = "voice"
               PROVE  LastWas(Said(queue[i]))' + i <= MaxQueue + Lag'
    BY DEF QueuedLately
  <1>1. CASE queue' = queue /\ Lag <= Lag'
    BY <1>1, QueuedStays
  <1>2. CASE queue # <<>> /\ queue' = Tail(queue)
    <2>1. QueueOK
      BY EvidenceTyped
    <2>2. Len(queue') = Len(queue) - 1 /\ queue'[i] = queue[i + 1]
      BY <1>2, <2>1, HeadTailProperties DEF QueueOK
    <2>3. i + 1 \in 1..Len(queue)
      <3>1. Len(queue) \in Nat
        BY <2>1 DEF QueueOK
      <3> QED
        BY <2>2, <3>1
    <2> QED
      BY <2>2, <2>3, QueuedStays
  <1> QED
    BY <1>1, <1>2

\* What a reconciliation that runs on has to heed.
LEMMA HeededStays ==
  ASSUME Heeded, voice' = voice \/ (voice # Nothing /\ voice' = [voice EXCEPT !.state = "unknown", !.age = 0]), VoiceOK,
         reconciliation' = reconciliation \/ reconciliation' = Touched, ReconciliationOK
  PROVE  Heeded'
  <1> SUFFICES ASSUME voice' # Nothing, reconciliation' # Nothing, reconciliation'.untouched
               PROVE  voice'.seen <= reconciliation'.read
    BY DEF Heeded
  <1>1. voice # Nothing /\ voice'.seen = voice.seen
    BY DEF VoiceOK
  <1>2. reconciliation' = reconciliation
    <2>1. CASE reconciliation' = Touched
      <3>1. reconciliation # Nothing
        BY <2>1 DEF Touched
      <3> QED
        BY <2>1, <3>1 DEF Touched, ReconciliationOK
    <2> QED
      BY <2>1
  <1> QED
    BY <1>1, <1>2 DEF Heeded

\* The world: the stream changes, the gateway says so or not, the bot restarts.
LEMMA RecalledInTheWorld ==
  ASSUME Recalled, TypeOK', Toggle \/ Unlink \/ GatewayEvent \/ Restart \/ UNCHANGED vars PROVE Recalled'
  <1> USE DEF world, memory
  <1>1. /\ TypeOK /\ WorldOK /\ QueueOK /\ VoiceOK /\ ReconciliationOK
        /\ KnownLately /\ QueuedLately /\ ReadLately /\ Heeded /\ WorldOK'
    BY EvidenceTyped DEF Recalled, TypeOK, WorldOK
  <1>2. Toggle \/ UNCHANGED world
    BY DEF Unlink, GatewayEvent, Restart, vars
  <1>3. CASE Restart
    <2>1. queue' = <<[event |-> "reconcile"]>> /\ voice' = Nothing /\ reconciliation' = Nothing
      BY <1>3 DEF Restart, Fresh
    <2>2. \A i \in 1..Len(queue') : queue'[i].event # "voice"
      BY <2>1
    <2> QED
      BY <2>1, <2>2 DEF Recalled, KnownLately, QueuedLately, ReadLately, Heeded
  <1>4. CASE ~Restart
    <2>1. UNCHANGED <<voice, reconciliation>>
      BY <1>4 DEF Toggle, Unlink, GatewayEvent, vars
    <2>2. KnownLately' /\ ReadLately' /\ Heeded'
      BY <1>1, <1>2, <2>1, KnownStays, ReadStays, HeededStays
    <2>3. QueuedLately'
      <3>1. CASE queue' = queue
        <4>1. Lag <= Lag'
          BY <2>1, <3>1, LagIsSmall DEF Lag
        <4> QED
          BY <1>1, <1>2, <3>1, <4>1, QueuedRests
      <3>2. ASSUME NEW entry, Len(queue) < MaxQueue, queue' = Append(queue, entry),
                   entry.event = "voice" => LastWas(Said(entry))' = 0
            PROVE  QueuedLately'
        <4> SUFFICES ASSUME NEW i \in 1..Len(queue'), queue'[i].event = "voice"
                     PROVE  LastWas(Said(queue[i]))' + i <= MaxQueue + Lag'
          BY DEF QueuedLately
        <4>1. /\ Len(queue) \in Nat /\ Len(queue') = Len(queue) + 1 /\ queue'[Len(queue')] = entry
              /\ \A j \in 1..Len(queue) : queue'[j] = queue[j]
              /\ queue # <<>> => queue' # <<>> /\ Head(queue') = Head(queue)
          BY <1>1, <3>2 DEF QueueOK
        <4>2. Lag <= Lag'
          BY <2>1, <4>1, LagIsSmall DEF Lag
        <4>3. CASE i \in 1..Len(queue)
          BY <1>1, <1>2, <4>1, <4>2, <4>3, QueuedStays
        <4>4. CASE i \notin 1..Len(queue)
          <5>1. i = Len(queue') /\ i <= MaxQueue /\ queue'[i] = entry
            BY <3>2, <4>1, <4>4, EvidenceNumbers
          <5>2. LastWas(Said(entry))' = 0
            BY <3>2, <5>1
          <5>3. LastWas(Said(queue[i]))' = 0
            BY <5>1, <5>2 DEF LastWas, Said
          <5> QED
            BY <4>1, <5>1, <5>3, LagIsSmall, EvidenceNumbers
        <4> QED
          BY <4>3, <4>4
      <3>3. CASE Toggle /\ queue' # queue
        <4>1. PICK entry : entry = [event |-> "voice", selfStream |-> streaming', seen |-> toggles']
          OBVIOUS
        <4>2. Len(queue) < MaxQueue /\ queue' = Append(queue, entry)
          BY <3>3, <4>1 DEF Toggle
        <4>3. PICK state \in States : state = Said(entry)
          BY DEF Said, States
        <4>4. LastWas(state)' = 0
          BY <1>1, <3>3, LastWasStays
        <4>5. LastWas(Said(entry))' = 0
          BY <4>3, <4>4 DEF LastWas, Said
        <4> QED
          BY <3>2, <4>2, <4>5
      <3>4. CASE GatewayEvent
        <4>1. PICK event \in {"disconnect", "reconcile"} : queue' = Append(queue, [event |-> event])
          BY <3>4 DEF GatewayEvent
        <4>2. PICK entry : entry = [event |-> event]
          OBVIOUS
        <4>3. entry.event # "voice"
          BY <4>2
        <4> QED
          BY <3>2, <3>4, <4>1, <4>2, <4>3 DEF GatewayEvent
      <3> QED
        BY <1>4, <3>1, <3>3, <3>4 DEF Unlink, vars
    <2> QED
      BY <2>2, <2>3 DEF Recalled
  <1> QED
    BY <1>3, <1>4

\* What has just been heard was so lately.
LEMMA HeardLately ==
  ASSUME TypeOK, TypeOK', UNCHANGED world, NEW state \in States, NEW seen, Hear(state, seen),
         state # "unknown" => LastWas(state) <= MaxQueue - 1
  PROVE  KnownLately' /\ voice'.seen = seen
  <1>1. voice' = [state |-> state, age |-> 0, seen |-> seen]
    BY DEF Hear
  <1>2. WorldOK /\ WorldOK'
    BY DEF TypeOK, WorldOK
  <1>3. LastWas(state) \in Nat /\ LastWas(state)' \in Nat /\ LastWas(state)' <= LastWas(state)
    BY <1>2, LastWasStays
  <1>4. state # "unknown" => LastWas(state)' <= 0 + (MaxQueue - 1)
    BY <1>3, EvidenceNumbers
  <1>5. voice'.state = state /\ voice'.age = 0 /\ voice'.seen = seen
    BY <1>1
  <1> QED
    BY <1>4, <1>5 DEF KnownLately, LastWas

\* The bot: events and reconciliations.
LEMMA RecalledInTheBot ==
  ASSUME Recalled, TypeOK',
         \/ ObserveVoice \/ Disconnect \/ JoinReconciliation \/ TickReconciles \/ ReadVoice \/ ReconciliationEnds
  PROVE  Recalled'
  <1> USE DEF world, memory
  <1>1. /\ TypeOK /\ WorldOK /\ QueueOK /\ VoiceOK /\ ReconciliationOK /\ WaitingOK
        /\ KnownLately /\ QueuedLately /\ ReadLately /\ Heeded /\ WorldOK'
    BY EvidenceTyped DEF Recalled, TypeOK, WorldOK
  <1>2. UNCHANGED world
    BY DEF ObserveVoice, Disconnect, JoinReconciliation, TickReconciles, ReadVoice, ReconciliationEnds
  <1>3. Lag \in {0, 1} /\ Lag' \in {0, 1}
    BY LagIsSmall
  <1>4. toggles \in Nat /\ (voice # Nothing => voice.seen \in Nat /\ voice.seen <= toggles)
    BY <1>1 DEF WorldOK, VoiceOK
  <1>5. CASE ObserveVoice
    <2>1. queue # <<>> /\ Head(queue).event = "voice" /\ queue' = Tail(queue) /\ reconciliation' = Touched
      BY <1>5 DEF ObserveVoice
    <2>2. KnownLately'
      <3>1. Head(queue) = queue[1] /\ 1 \in 1..Len(queue) /\ Lag = 0
        BY <1>1, <2>1 DEF QueueOK, Lag
      <3>2. LastWas(Said(queue[1])) + 1 <= MaxQueue
        BY <1>1, <2>1, <3>1, EvidenceNumbers DEF QueuedLately
      <3>3. PICK state \in States : state = Said(queue[1])
        BY DEF Said, States
      <3>4. LastWas(state) <= MaxQueue - 1
        BY <1>1, <3>2, <3>3, LastWasNow, EvidenceNumbers
      <3>5. Hear(state, Head(queue).seen)
        BY <1>5, <3>1, <3>3 DEF ObserveVoice, Said
      <3> QED
        BY <1>1, <1>2, <3>4, <3>5, HeardLately
    <2>3. Heeded'
      <3>1. CASE reconciliation = Nothing
        BY <2>1, <3>1 DEF Touched, Heeded
      <3>2. CASE reconciliation # Nothing
        <4>1. reconciliation'.untouched = FALSE
          BY <1>1, <2>1, <3>2 DEF Touched, ReconciliationOK
        <4> QED
          BY <4>1 DEF Heeded
      <3> QED
        BY <3>1, <3>2
    <2> QED
      BY <1>1, <1>2, <2>1, <2>2, <2>3, QueuedRests, ReadStays DEF Recalled
  <1>6. CASE Disconnect
    <2>1. queue # <<>> /\ queue' = Tail(queue) /\ (reconciliation' = reconciliation \/ reconciliation' = Touched)
      BY <1>6 DEF Disconnect
    <2>2. voice' = voice \/ (voice # Nothing /\ voice' = [voice EXCEPT !.state = "unknown", !.age = 0])
      BY <1>6 DEF Disconnect
    <2>3. KnownLately'
      <3>1. CASE voice' = voice
        BY <1>1, <1>2, <3>1, KnownStays
      <3>2. CASE voice # Nothing /\ voice' = [voice EXCEPT !.state = "unknown", !.age = 0]
        <4>1. voice'.state = "unknown"
          BY <1>1, <3>2 DEF VoiceOK
        <4> QED
          BY <4>1 DEF KnownLately
      <3> QED
        BY <2>2, <3>1, <3>2
    <2> QED
      BY <1>1, <1>2, <2>1, <2>2, <2>3, QueuedRests, ReadStays, HeededStays DEF Recalled
  <1>7. ASSUME reconciliation' = Reconciling, voice' = voice PROVE KnownLately' /\ ReadLately' /\ Heeded'
    <2>1. KnownLately'
      BY <1>1, <1>2, <1>7, KnownStays
    <2>2. CASE reconciliation # Nothing
      <3>1. reconciliation' = reconciliation
        BY <1>7, <2>2 DEF Reconciling
      <3> QED
        BY <1>1, <1>2, <1>7, <2>1, <3>1, ReadStays, HeededStays
    <2>3. CASE reconciliation = Nothing
      <3>1. reconciliation' = [untouched |-> TRUE, listed |-> linked, answer |-> "unknown", age |-> 0, read |-> toggles]
        BY <1>7, <2>3 DEF Reconciling
      <3>2. reconciliation'.answer = "unknown" /\ reconciliation'.read = toggles
        BY <3>1
      <3> QED
        BY <1>4, <1>7, <2>1, <3>2 DEF ReadLately, Heeded
    <2> QED
      BY <2>2, <2>3
  <1>8. CASE JoinReconciliation
    <2>1. queue # <<>> /\ Head(queue).event = "reconcile" /\ voice' = voice
      BY <1>8 DEF JoinReconciliation
    <2>2. CASE queue' = [queue EXCEPT ![1] = [event |-> "joined"]] /\ reconciliation' = Reconciling
      <3>1. Lag <= Lag'
        <4>1. Lag = 0
          BY <2>1 DEF Lag
        <4> QED
          BY <1>3, <4>1
      <3>2. QueuedLately'
        <4> SUFFICES ASSUME NEW i \in 1..Len(queue'), queue'[i].event = "voice"
                     PROVE  LastWas(Said(queue[i]))' + i <= MaxQueue + Lag'
          BY DEF QueuedLately
        <4>1. Len(queue) \in Nat /\ Len(queue) >= 1 /\ 1 \in 1..Len(queue) /\ [event |-> "joined"] \in QueueEntries
          BY <1>1, <2>1 DEF QueueOK, QueueEntries
        <4>2. Len(queue') = Len(queue) /\ queue'[i] = IF i = 1 THEN [event |-> "joined"] ELSE queue[i]
          BY <1>1, <2>2, <4>1, ExceptSeq DEF QueueOK
        <4>3. queue'[i] = queue[i] /\ i \in 1..Len(queue)
          BY <4>1, <4>2
        <4> QED
          BY <1>1, <1>2, <3>1, <4>3, QueuedStays
      <3> QED
        BY <1>1, <1>7, <2>1, <2>2, <3>2 DEF Recalled
    <2>3. CASE queue' = Tail(queue) /\ UNCHANGED reconciliation
      BY <1>1, <1>2, <2>1, <2>3, KnownStays, QueuedRests, ReadStays, HeededStays DEF Recalled
    <2> QED
      BY <1>8, <2>2, <2>3 DEF JoinReconciliation
  <1>9. CASE TickReconciles
    <2>1. UNCHANGED <<queue, voice>> /\ reconciliation' = Reconciling
      BY <1>9 DEF TickReconciles
    <2>2. Lag <= Lag'
      <3>1. CASE reconciliation = Nothing
        <4>1. Lag = 0
          BY <1>1, <3>1 DEF WaitingOK, Lag
        <4> QED
          BY <1>3, <4>1
      <3>2. CASE reconciliation # Nothing
        <4>1. reconciliation' = reconciliation
          BY <2>1, <3>2 DEF Reconciling
        <4> QED
          BY <1>3, <2>1, <4>1 DEF Lag
      <3> QED
        BY <3>1, <3>2
    <2> QED
      BY <1>1, <1>2, <1>7, <2>1, <2>2, QueuedRests DEF Recalled
  <1>10. CASE ReadVoice
    <2>1. PICK state \in States : state = IF streaming THEN "active" ELSE "inactive"
      BY DEF States
    <2>2. /\ reconciliation # Nothing /\ UNCHANGED <<queue, voice>>
          /\ reconciliation' = [reconciliation EXCEPT !.answer = state, !.read = toggles]
      BY <1>10, <2>1 DEF ReadVoice
    <2>3. /\ reconciliation'.answer = state /\ reconciliation'.read = toggles /\ reconciliation'.age = reconciliation.age
          /\ reconciliation.age \in Nat
      BY <1>1, <2>2 DEF ReconciliationOK
    <2>4. LastWas(state)' = 0
      <3>1. LastWas(state) = 0
        BY <1>1, <2>1, LastWasNow
      <3> QED
        BY <1>2, <3>1 DEF LastWas
    <2>5. ReadLately'
      BY <2>3, <2>4 DEF ReadLately, LastWas
    <2>6. Heeded'
      BY <1>4, <2>2, <2>3 DEF Heeded
    <2>7. Lag <= Lag'
      BY <1>3, <2>2, <2>3 DEF Lag
    <2> QED
      BY <1>1, <1>2, <2>2, <2>5, <2>6, <2>7, KnownStays, QueuedRests DEF Recalled
  <1>11. CASE ReconciliationEnds
    <2>1. reconciliation # Nothing /\ reconciliation' = Nothing
      BY <1>11 DEF ReconciliationEnds
    <2>2. ReadLately' /\ Heeded'
      BY <2>1 DEF ReadLately, Heeded
    <2>3. KnownLately'
      <3>1. ASSUME NEW state \in {reconciliation.answer, "unknown"}, Hear(state, reconciliation.read) PROVE KnownLately'
        <4>1. reconciliation.answer \in States /\ reconciliation.age \in {0, 1} /\ state \in States
          BY <1>1, <2>1 DEF ReconciliationOK, States
        <4>2. PICK s \in States : s = state
          BY <4>1
        <4>3. LastWas(s) \in Nat
          BY <1>1, LastWasNow
        <4>4. s # "unknown" => LastWas(s) <= reconciliation.age
          BY <1>1, <2>1, <4>2 DEF ReadLately
        <4>5. s # "unknown" => LastWas(s) <= MaxQueue - 1
          BY <4>1, <4>3, <4>4, EvidenceNumbers
        <4> QED
          BY <1>1, <1>2, <3>1, <4>2, <4>5, HeardLately
      <3>2. CASE UNCHANGED voice
        BY <1>1, <1>2, <3>2, KnownStays
      <3> QED
        BY <1>11, <3>1, <3>2 DEF ReconciliationEnds
    <2>4. QueuedLately'
      <3>1. CASE queue # <<>> /\ Head(queue).event = "joined"
        BY <1>1, <1>2, <1>11, <3>1, QueuedRests DEF ReconciliationEnds
      <3>2. CASE ~(queue # <<>> /\ Head(queue).event = "joined")
        <4>1. Lag = 0 /\ queue' = queue
          BY <1>11, <3>2 DEF Lag, ReconciliationEnds
        <4> QED
          BY <1>1, <1>2, <1>3, <4>1, QueuedRests
      <3> QED
        BY <3>1, <3>2
    <2> QED
      BY <2>2, <2>3, <2>4 DEF Recalled
  <1> QED
    BY <1>5, <1>6, <1>8, <1>9, <1>10, <1>11

\* Every step.
LEMMA RecalledStep == Recalled /\ [Next]_vars => Recalled'
  <1> SUFFICES ASSUME Recalled, [Next]_vars PROVE Recalled'
    OBVIOUS
  <1>1. TypeOK'
    BY EvidenceTypesStep DEF Recalled
  <1> QED
    BY <1>1, RecalledAges, RecalledInTheWorld, RecalledInTheBot DEF Next

\* What a comparison takes for the state of a stream was so within the freshness of the evidence
\* and the time an event may wait, whatever events and answers were lost or late.
THEOREM EvidenceIsRecentTheorem == Spec => []EvidenceIsRecent
  <1>1. Recalled => EvidenceIsRecent
    <2> SUFFICES ASSUME Recalled PROVE EvidenceIsRecent
      OBVIOUS
    <2>1. TypeOK /\ WorldOK /\ VoiceOK /\ KnownLately
      BY EvidenceTyped DEF Recalled
    <2>2. ASSUME VoiceState # "unknown" PROVE LastWas(VoiceState) < Freshness + MaxQueue - 1
      <3>1. voice # Nothing /\ VoiceState = voice.state /\ ~(voice.age >= Freshness)
        BY <2>2 DEF VoiceState
      <3>2. voice.age \in Nat /\ voice.state \in States
        BY <2>1, <3>1 DEF VoiceOK, Ages
      <3>3. LastWas(voice.state) \in Nat
        BY <2>1, <3>2, LastWasNow
      <3>4. LastWas(voice.state) <= voice.age + (MaxQueue - 1)
        BY <2>1, <2>2, <3>1, <3>2, EvidenceNumbers DEF KnownLately
      <3> QED
        BY <3>1, <3>2, <3>3, <3>4, EvidenceNumbers
    <2> QED
      BY <2>1, <2>2 DEF EvidenceIsRecent
  <1> QED
    BY <1>1, RecalledInit, RecalledStep, PTL DEF Spec

\* A reconciliation that ends replaces nothing that was heard of a later stream.
LEMMA LateAnswersLose ==
  ASSUME Recalled, [Next]_vars, reconciliation # Nothing, reconciliation' = Nothing, voice # Nothing, voice' # Nothing
  PROVE  voice.seen <= voice'.seen
  <1> USE DEF world, memory
  <1>1. WorldOK /\ VoiceOK /\ ReconciliationOK /\ Heeded
    BY EvidenceTyped DEF Recalled
  <1>2. voice.seen \in Nat
    BY <1>1 DEF VoiceOK
  <1>3. CASE ReconciliationEnds
    <2>1. ASSUME NEW state, Applies, Hear(state, reconciliation.read) PROVE voice.seen <= voice'.seen
      <3>1. voice'.seen = reconciliation.read
        BY <2>1 DEF Hear
      <3> QED
        BY <1>1, <2>1, <3>1 DEF Applies, Heeded
    <2> QED
      BY <1>2, <1>3, <2>1 DEF ReconciliationEnds
  <1>4. CASE TimePasses
    <2>1. voice' = [voice EXCEPT !.age = Older(@)]
      BY <1>4 DEF TimePasses
    <2>2. voice'.seen = voice.seen
      BY <1>1, <2>1 DEF VoiceOK
    <2> QED
      BY <1>2, <2>2
  <1>5. CASE ObserveVoice \/ Disconnect
    <2>1. reconciliation' # Touched
      BY <1>1, ReconcilingTypes
    <2>2. voice' = voice
      BY <1>5, <2>1 DEF ObserveVoice, Disconnect
    <2> QED
      BY <1>2, <2>2
  <1>6. CASE Toggle \/ Unlink \/ GatewayEvent \/ JoinReconciliation \/ TickReconciles \/ ReadVoice \/ UNCHANGED vars
    <2>1. voice' = voice
      BY <1>6 DEF Toggle, Unlink, GatewayEvent, JoinReconciliation, TickReconciles, ReadVoice, vars
    <2> QED
      BY <1>2, <2>1
  <1>7. CASE Restart
    BY <1>7 DEF Restart, Fresh
  <1> QED
    BY <1>3, <1>4, <1>5, <1>6, <1>7 DEF Next

\* The answer of a reconciliation replaces nothing that was heard of a later stream than the
\* one Discord saw when it was read.
THEOREM LateReconciliationLosesTheorem == Spec => LateReconciliationLoses
  <1>1. Recalled /\ [Next]_vars =>
          [reconciliation # Nothing /\ reconciliation' = Nothing /\ voice # Nothing /\ voice' # Nothing
             => voice.seen <= voice'.seen]_vars
    BY LateAnswersLose
  <1> QED
    BY <1>1, RecalledInit, RecalledStep, PTL DEF Spec, LateReconciliationLoses
=============================================================================
