------------------------- MODULE AdminCommandsProofs -------------------------
(***************************************************************************)
(* Type correctness of AdminCommands, and that results, effects and the    *)
(* reports to the browser agree, for any number of requests, restarts and  *)
(* connections; what the deadline of the dashboard may misreport, and that *)
(* asking again is safe.                                                   *)
(***************************************************************************)
EXTENDS AdminCommands, TLAPS

-----------------------------------------------------------------------------
\* Type correctness, one step per action.

\* The tables, both processes and the socket start in their types.
LEMMA InitType == Init => TypeOK
  BY DEF Init, TypeOK, Outcomes, Steps

\* A report is one of four HTTP statuses.
LEMMA StatusType ==
  ASSUME NEW name, NEW answer
  PROVE  StatusOf(name, answer) \in {"ok", "conflict", "timeout", "unavailable"}
  BY DEF StatusOf

\* An outcome makes an answer, of the command itself or found in the ledger.
LEMMA AnswerType ==
  ASSUME NEW outcome \in Outcomes \cup {"unknown"}
  PROVE  Own(outcome) \in Answers /\ Found(outcome) \in Answers
  BY DEF Own, Found, Answers

\* A request that is received has a command, a version and an operation id.
LEMMA AskedType ==
  ASSUME TypeOK, AdminConstants, NEW r \in Requests, NEW c \in menu, NEW v \in Nat,
         served < MaxServed, NEW state \in {"waiting", "answered"}
  PROVE  Asked(r, c, v, state) \in
           [state : {"waiting", "answered", "lost"}, name : Mutations \cup {"list"},
            target : Targets, version : Nat, op : Ops]
  <1>1. c \in [name : Mutations \cup {"list"}, target : Targets]
    BY DEF TypeOK, AdminConstants
  <1>2. RequestId[served + 1] \in Ops
    BY DEF TypeOK, AdminConstants
  <1> QED
    BY <1>1, <1>2 DEF Asked, AdminConstants

\* What a transaction may decide are outcomes.
LEMMA DecisionsType == ASSUME NEW q PROVE Decisions(q) \subseteq Outcomes
  BY DEF Decisions, DecideRequest, DecideLink, DecideAdjustment, DecideIncident, Outcomes

\* A request that is yet to come has left nothing in either process.
Untouched(r) ==
  /\ report[r] = Nothing /\ connection[r] = "none"
  /\ reply[r] = Nothing /\ execution[r].step = "none"

ComesFirst == \A r \in Requests : request[r].state = "new" => Untouched(r)

\* Nothing is there before the first request.
LEMMA InitComesFirst == Init => ComesFirst
  BY DEF Init, ComesFirst, Untouched

\* Only what concerns a request that has come changes.
LEMMA NextComesFirst ==
  ASSUME TypeOK, ComesFirst, [Next]_vars
  PROVE  ComesFirst'
  <1> USE DEF ComesFirst, Untouched, TypeOK, NoRequest
  <1>1. CASE UNCHANGED vars
    BY <1>1 DEF vars, tables, web, bot
  <1>2. ASSUME NEW t \in Targets, OtherWriter(t) PROVE ComesFirst'
    BY <1>2 DEF OtherWriter, web, bot
  <1>3. ASSUME NEW r \in Requests, NEW c \in menu, NEW v \in 0..target[c.target].version,
               Dispatch(r, c, v)
        PROVE  ComesFirst'
    BY <1>3 DEF Dispatch, Asked, tables
  <1>4. ASSUME NEW r \in Requests, ClientReceives(r) \/ ClientDeadline(r)
        PROVE  ComesFirst'
    BY <1>4 DEF ClientReceives, ClientDeadline, Finish, tables, bot
  <1>5. ASSUME NEW r \in Requests, Accept(r) \/ ServerDeadline(r) PROVE ComesFirst'
    BY <1>5 DEF Accept, ServerDeadline, Go, tables, web
  <1>6. ASSUME NEW r \in Requests, Execute(r) PROVE ComesFirst'
    <2>1. request[r].state # "new" /\ web' = web
      BY <1>6 DEF Execute, Examine, Lookup, FindPending, Validate, Commit, Duplicate, Fail,
         Respond, web
    <2>2. \A s \in Requests \ {r} :
            /\ connection'[s] = connection[s] /\ reply'[s] = reply[s]
            /\ execution'[s] = execution[s]
      BY <1>6 DEF Execute, Examine, Lookup, FindPending, Validate, Commit, Duplicate, Fail,
         Respond, Go, Answer
    <2> QED
      BY <2>1, <2>2 DEF web
  <1>7. CASE WebRestart
    BY <1>7 DEF WebRestart, tables, bot
  <1>8. CASE BotRestart
    BY <1>8 DEF BotRestart, tables, web
  <1> QED
    BY <1>1, <1>2, <1>3, <1>4, <1>5, <1>6, <1>7, <1>8 DEF Next

\* A command on which the dashboard has decided does not change.
LEMMA RequestsStay ==
  ASSUME TypeOK, [Next]_vars, NEW r \in Requests, request[r].state # "new"
  PROVE  /\ request'[r].state # "new" /\ request'[r].op = request[r].op
         /\ request'[r].name = request[r].name
  <1>1. ASSUME NEW s \in Requests, NEW answer, Finish(s, answer)
        PROVE  /\ request'[r].state # "new" /\ request'[r].op = request[r].op
               /\ request'[r].name = request[r].name
    BY <1>1 DEF Finish, TypeOK
  <1>2. ASSUME NEW s \in Requests, Execute(s) PROVE request' = request
    BY <1>2 DEF Execute, Examine, Lookup, FindPending, Validate, Commit, Duplicate, Fail,
       Respond, web
  <1>3. CASE WebRestart
    BY <1>3 DEF WebRestart, TypeOK, NoRequest
  <1> QED
    BY <1>1, <1>2, <1>3 DEF Next, vars, tables, web, bot, OtherWriter, Dispatch, TypeOK,
       ClientReceives, ClientDeadline, Accept, ServerDeadline, BotRestart

\* A result is stored for good.
LEMMA ResultsStay ==
  ASSUME TypeOK, [Next]_vars, NEW o \in Ops, result[o] # "none"
  PROVE  result'[o] = result[o]
  <1>1. ASSUME NEW r \in Requests, Execute(r) PROVE result'[o] = result[o]
    <2>1. ASSUME NEW outcome, Record(r, outcome) PROVE result'[o] = result[o]
      BY <2>1 DEF Record, TypeOK
    <2>2. CASE Commit(r)
      BY <2>2 DEF Commit, Claim, tables, TypeOK
    <2> QED
      BY <1>1, <2>1, <2>2 DEF Execute, Examine, Lookup, FindPending, Validate, Duplicate,
         Fail, Respond, tables
  <1> QED
    BY <1>1 DEF Next, vars, tables, web, bot, OtherWriter, Dispatch, ClientReceives,
       ClientDeadline, Accept, ServerDeadline, WebRestart, BotRestart

\* What a command found claimed is there when it looks the result up.
ClaimsAreThere ==
  \A r \in Requests : execution[r].step = "duplicate" => result[Op(r)] # "none"

\* A claim that was met is the claim that is looked up, since results stay.
LEMMA NextClaimsAreThere ==
  ASSUME TypeOK, ComesFirst, ClaimsAreThere, [Next]_vars
  PROVE  ClaimsAreThere'
  <1> SUFFICES ASSUME NEW r \in Requests, execution'[r].step = "duplicate"
               PROVE  result'[Op(r)'] # "none"
    BY DEF ClaimsAreThere
  <1>1. CASE execution'[r] = execution[r]
    <2>1. Op(r) \in Ops /\ request[r].state # "new" /\ result[Op(r)] # "none"
      BY <1>1 DEF ClaimsAreThere, ComesFirst, Untouched, Op, TypeOK, NoRequest
    <2>2. Op(r)' = Op(r)
      BY <2>1, RequestsStay DEF Op
    <2> QED
      BY <2>1, <2>2, ResultsStay
  <1>2. CASE execution'[r] # execution[r]
    <2>1. ASSUME NEW s \in Requests, Execute(s)
          PROVE  Commit(r) /\ result[request[r].op] # "none" /\ UNCHANGED <<result, request>>
      <3>1. ASSUME NEW answer, Answer(s, answer) PROVE FALSE
        BY <1>2, <3>1 DEF Answer, TypeOK
      <3>2. ASSUME NEW step, step # "duplicate", Go(s, step) PROVE FALSE
        BY <1>2, <3>2 DEF Go, TypeOK
      <3>3. Commit(s) /\ Go(s, "duplicate")
        BY <2>1, <3>1, <3>2 DEF Execute, Examine, Lookup, FindPending, Validate,
           Commit, Duplicate, Fail, Respond, Go
      <3>4. s = r
        BY <1>2, <3>3 DEF Go, TypeOK
      <3> QED
        BY <3>1, <3>3, <3>4 DEF Commit, tables, web
    <2>2. ASSUME NEW s \in Requests, Accept(s) PROVE FALSE
      BY <1>2, <2>2 DEF Accept, Go, TypeOK
    <2>3. ASSUME BotRestart PROVE FALSE
      BY <1>2, <2>3 DEF BotRestart, TypeOK
    <2>4. Commit(r) /\ result[request[r].op] # "none" /\ UNCHANGED <<result, request>>
      <3>1. execution' # execution
        BY <1>2
      <3>2. (\E s \in Requests : Execute(s) \/ Accept(s)) \/ BotRestart
        BY <3>1 DEF Next, vars, bot, OtherWriter, Dispatch, ClientReceives,
           ClientDeadline, ServerDeadline, WebRestart
      <3>3. PICK s \in Requests : Execute(s)
        BY <3>2, <2>2, <2>3
      <3> QED
        BY <3>3, <2>1
    <2> QED
      BY <2>4 DEF Op
  <1> QED
    BY <1>1, <1>2

\* Only the state of a request changes once it has come.
LEMMA FinishedType ==
  ASSUME TypeOK, NEW r \in Requests, request[r].state = "waiting",
         NEW state \in {"answered", "lost"}
  PROVE  [request[r] EXCEPT !.state = state] \in
           [state : {"waiting", "answered", "lost"}, name : Mutations \cup {"list"},
            target : Targets, version : Nat, op : Ops]
  <1>1. request[r] \in
           [state : {"waiting", "answered", "lost"}, name : Mutations \cup {"list"},
            target : Targets, version : Nat, op : Ops]
    BY DEF TypeOK, NoRequest
  <1> QED
    BY <1>1

\* A request is answered with a status.
LEMMA FinishType ==
  ASSUME TypeOK, NEW r \in Requests, request[r].state = "waiting", NEW answer,
         Finish(r, answer)
  PROVE  /\ request' \in [Requests -> {NoRequest} \cup
              [state : {"waiting", "answered", "lost"}, name : Mutations \cup {"list"},
               target : Targets, version : Nat, op : Ops]]
         /\ report' \in [Requests -> {"ok", "conflict", "timeout", "unavailable", Nothing}]
  <1>1. request' = [request EXCEPT ![r] = [request[r] EXCEPT !.state = "answered"]]
    BY DEF Finish
  <1>2. [request[r] EXCEPT !.state = "answered"] \in
           [state : {"waiting", "answered", "lost"}, name : Mutations \cup {"list"},
            target : Targets, version : Nat, op : Ops]
    BY FinishedType
  <1>3. StatusOf(request[r].name, answer) \in {"ok", "conflict", "timeout", "unavailable"}
    BY StatusType
  <1>4. report' \in [Requests -> {"ok", "conflict", "timeout", "unavailable", Nothing}]
    BY <1>3 DEF Finish, TypeOK
  <1> QED
    BY <1>1, <1>2, <1>4 DEF TypeOK

\* Every action keeps the types.
LEMMA NextType ==
  ASSUME TypeOK, ComesFirst, ClaimsAreThere, AdminConstants, [Next]_vars
  PROVE  TypeOK'
  <1> USE DEF TypeOK
  <1>1. CASE UNCHANGED vars
    BY <1>1 DEF vars, tables, web, bot
  <1>2. ASSUME NEW t \in Targets, OtherWriter(t) PROVE TypeOK'
    <2>1. PICK open \in {TRUE, Kind[t] # "link"} :
            target' = [target EXCEPT ![t] = [version |-> target[t].version + 1, open |-> open]]
      BY <1>2 DEF OtherWriter
    <2>2. open \in BOOLEAN
      OBVIOUS
    <2>3. [version |-> target[t].version + 1, open |-> open] \in [version : Nat, open : BOOLEAN]
      BY <2>2
    <2> QED
      BY <1>2, <2>1, <2>3 DEF OtherWriter, web, bot
  <1>3. ASSUME NEW r \in Requests, NEW c \in menu, NEW v \in 0..target[c.target].version,
               Dispatch(r, c, v)
        PROVE  TypeOK'
    <2>1. c.target \in Targets /\ v \in Nat
      BY DEF AdminConstants
    <2>2. /\ Asked(r, c, v, "waiting") \in
               [state : {"waiting", "answered", "lost"}, name : Mutations \cup {"list"},
                target : Targets, version : Nat, op : Ops]
          /\ Asked(r, c, v, "answered") \in
               [state : {"waiting", "answered", "lost"}, name : Mutations \cup {"list"},
                target : Targets, version : Nat, op : Ops]
      BY <2>1, <1>3, AskedType DEF Dispatch
    <2> QED
      BY <1>3, <2>2 DEF Dispatch, tables
  <1>4. ASSUME NEW r \in Requests, ClientReceives(r) PROVE TypeOK'
    <2>1. PICK answer : Finish(r, answer)
      BY <1>4 DEF ClientReceives
    <2> QED
      BY <1>4, <2>1, FinishType DEF ClientReceives, tables
  <1>5. ASSUME NEW r \in Requests, ClientDeadline(r) PROVE TypeOK'
    <2>1. PICK answer : Finish(r, answer)
      BY <1>5 DEF ClientDeadline
    <2> QED
      BY <1>5, <2>1, FinishType DEF ClientDeadline, tables, bot
  <1>6. ASSUME NEW r \in Requests, Accept(r) PROVE TypeOK'
    BY <1>6 DEF Accept, Go, Steps, tables, web
  <1>7. ASSUME NEW r \in Requests, ServerDeadline(r) PROVE TypeOK'
    BY <1>7 DEF ServerDeadline, tables, web
  <1>8. ASSUME NEW r \in Requests, Execute(r) PROVE TypeOK'
    <2>1. /\ Own("denied") \in Answers /\ Own("failure") \in Answers
          /\ Unavailable \in Answers
      BY AnswerType DEF Outcomes, Unavailable
    <2>2. execution[r].step # "none" => Op(r) \in Ops
      BY DEF Op, NoRequest, ComesFirst, Untouched
    <2>3. CASE Examine(r)
      BY <2>1, <2>2, <2>3 DEF Examine, Record, Answer, Go, Outcomes, Steps, web
    <2>4. CASE Lookup(r)
      <3>1. result[Op(r)] # "none" => Found(result[Op(r)]) \in Answers
        BY <2>2, <2>4, AnswerType DEF Lookup
      <3> QED
        BY <3>1, <2>4 DEF Lookup, Answer, Go, Steps, tables, web
    <2>5. CASE FindPending(r)
      BY <2>1, <2>2, <2>5 DEF FindPending, Record, Answer, Go, Outcomes, Steps, web
    <2>6. CASE Validate(r)
      BY <2>1, <2>2, <2>6 DEF Validate, Record, Answer, Go, Outcomes, Steps, web
    <2>7. CASE Commit(r)
      <3> DEFINE q == request[r]
      <3>1. q.op \in Ops /\ q.target \in Targets /\ q.version \in Nat
        <4>1. request[r].state # "new"
          BY <2>7 DEF Commit, ComesFirst, Untouched
        <4> QED
          BY <4>1 DEF NoRequest
      <3>2. execution' \in [Requests -> [step : Steps] \cup [step : {"respond"}, answer : Answers]]
        <4>1. \A outcome \in Decisions(q) : Own(outcome) \in Answers
          BY DecisionsType, AnswerType
        <4> QED
          BY <2>1, <2>7, <4>1 DEF Commit, Go, Answer, Steps
      <3>3. result' \in [Ops -> Outcomes \cup {"none"}]
        BY <2>7, <3>1, DecisionsType DEF Commit, Claim, tables
      <3>4. target' \in [Targets -> [version : Nat, open : BOOLEAN]]
        <4>1. [version |-> target[q.target].version + 1, open |-> q.name = "adjust"]
                 \in [version : Nat, open : BOOLEAN]
          BY <3>1
        <4>2. \/ target' = target
              \/ target' = [target EXCEPT ![q.target] =
                   [version |-> target[q.target].version + 1, open |-> q.name = "adjust"]]
          BY <2>7 DEF Commit, tables
        <4> QED
          BY <3>1, <4>1, <4>2
      <3>5. effects' \subseteq [request : Requests, op : Ops, target : Targets, version : Nat]
        BY <2>7, <3>1 DEF Commit, tables
      <3> QED
        BY <2>7, <3>2, <3>3, <3>4, <3>5 DEF Commit, web
    <2>8. CASE Duplicate(r)
      <3>1. Found(result[Op(r)]) \in Answers
        BY <2>2, <2>8, AnswerType DEF Duplicate, ClaimsAreThere, Op
      <3> QED
        BY <3>1, <2>8 DEF Duplicate, Answer, tables, web
    <2>9. CASE Fail(r)
      BY <2>1, <2>9 DEF Fail, Answer, tables, web
    <2>10. CASE Respond(r)
      BY <2>10 DEF Respond, Steps, tables, web
    <2> QED
      BY <1>8, <2>3, <2>4, <2>5, <2>6, <2>7, <2>8, <2>9, <2>10 DEF Execute
  <1>9. CASE WebRestart
    <2>1. ASSUME NEW r \in Requests
          PROVE  request'[r] \in {NoRequest} \cup
                   [state : {"waiting", "answered", "lost"}, name : Mutations \cup {"list"},
                    target : Targets, version : Nat, op : Ops]
      <3>1. CASE request[r].state = "waiting"
        BY <1>9, <3>1, FinishedType DEF WebRestart
      <3>2. CASE request[r].state # "waiting"
        BY <1>9, <3>2 DEF WebRestart
      <3> QED
        BY <3>1, <3>2
    <2> QED
      BY <1>9, <2>1 DEF WebRestart, tables, bot
  <1>10. CASE BotRestart
    BY <1>10 DEF BotRestart, tables, web, Steps
  <1> QED
    BY <1>1, <1>2, <1>3, <1>4, <1>5, <1>6, <1>7, <1>8, <1>9, <1>10 DEF Next

\* The type invariant of the bot's and the dashboard's state: the answers on their
\* way to a browser carry an outcome, and requests, connections and commands stay
\* in their life cycles.
THEOREM AdminTypeOK == Spec => []TypeOK
  <1>1. Init => TypeOK /\ ComesFirst /\ ClaimsAreThere
    BY InitType, InitComesFirst DEF Init, ClaimsAreThere
  <1>2. TypeOK /\ ComesFirst /\ ClaimsAreThere /\ [Next]_vars
        => (TypeOK /\ ComesFirst /\ ClaimsAreThere)'
    BY NextType, NextComesFirst, NextClaimsAreThere, AdminConstants
  <1> QED
    BY <1>1, <1>2, PTL DEF Spec

-----------------------------------------------------------------------------
\* Results and effects.

\* The only step that adds an effect is a commit on the version that was seen.
Decided(r) ==
  /\ request[r].state # "new" /\ request[r].name # "list" /\ request' = request
  /\ result[request[r].op] = "none" /\ result'[request[r].op] = "success"
  /\ target[request[r].target].version = request[r].version
  /\ target'[request[r].target].version = request[r].version + 1
  /\ effects' = effects \cup
       {[request |-> r, op |-> request[r].op, target |-> request[r].target,
         version |-> request[r].version]}

\* No command but a list succeeds on a version other than the current one.
LEMMA SuccessIsCurrent ==
  ASSUME NEW q, "success" \in Decisions(q), q.name # "list", q.name \in Mutations \cup {"list"}
  PROVE  target[q.target].version = q.version
  BY DEF Decisions, DecideRequest, DecideLink, DecideAdjustment, DecideIncident, Mutations

\* A step adds no effect, or is the commit of one decision.
LEMMA EffectStep ==
  ASSUME TypeOK, ComesFirst, [Next]_vars
  PROVE  effects' = effects \/ \E r \in Requests : Decided(r)
  <1>1. ASSUME NEW r \in Requests, Commit(r), effects' # effects PROVE Decided(r)
    <2> DEFINE q == request[r]
    <2>1. q.state # "new"
      BY <1>1 DEF Commit, ComesFirst, Untouched
    <2>2. q.op \in Ops /\ q.target \in Targets /\ q.version \in Nat
          /\ q.name \in Mutations \cup {"list"}
      BY <2>1 DEF TypeOK, NoRequest
    <2>3. /\ result[q.op] = "none" /\ "success" \in Decisions(q) /\ q.name # "list"
          /\ result' = [result EXCEPT ![q.op] = "success"]
          /\ target' = [target EXCEPT ![q.target] =
               [version |-> target[q.target].version + 1, open |-> q.name = "adjust"]]
          /\ effects' = effects \cup
               {[request |-> r, op |-> q.op, target |-> q.target, version |-> q.version]}
      BY <1>1 DEF Commit, Claim, tables
    <2>4. target[q.target].version = q.version
      BY <2>2, <2>3, SuccessIsCurrent
    <2>5. request' = request
      BY <1>1 DEF Commit, web
    <2>6. result'[q.op] = "success" /\ target'[q.target].version = q.version + 1
      BY <2>2, <2>3, <2>4 DEF TypeOK
    <2> QED
      BY <2>1, <2>3, <2>4, <2>5, <2>6 DEF Decided
  <1>2. ASSUME effects' # effects PROVE \E r \in Requests : Commit(r)
    BY <1>2 DEF Next, vars, tables, web, bot, OtherWriter, Dispatch, ClientReceives,
       ClientDeadline, Accept, ServerDeadline, WebRestart, BotRestart, Execute, Examine,
       Lookup, FindPending, Validate, Duplicate, Fail, Respond
  <1> QED
    BY <1>1, <1>2

\* Earlier results stay, and a new effect has an operation id without result.
LEMMA NextResultsMatchEffects ==
  ASSUME TypeOK, ComesFirst, ResultsMatchEffects, [Next]_vars
  PROVE  ResultsMatchEffects'
  <1>1. \A e \in effects : e.op \in Ops /\ result[e.op] = "success" /\ result'[e.op] = "success"
    BY ResultsStay DEF TypeOK, ResultsMatchEffects
  <1>2. CASE effects' = effects
    BY <1>1, <1>2 DEF ResultsMatchEffects
  <1>3. ASSUME NEW r \in Requests, Decided(r) PROVE ResultsMatchEffects'
    BY <1>1, <1>3 DEF Decided, ResultsMatchEffects
  <1> QED
    BY <1>2, <1>3, EffectStep

\* Every effect raised the version of its target, and versions never go back.
EffectsAreBehind ==
  \A e \in effects : e.version < target[e.target].version

\* The version of a target only grows.
LEMMA VersionsGrow ==
  ASSUME TypeOK, ComesFirst, [Next]_vars, NEW t \in Targets
  PROVE  target'[t].version \in Nat /\ target[t].version <= target'[t].version
  <1>1. target[t].version \in Nat
    BY DEF TypeOK
  <1>2. ASSUME NEW s \in Targets, OtherWriter(s) PROVE target'[t].version \in Nat /\ target[t].version <= target'[t].version
    BY <1>1, <1>2 DEF OtherWriter, TypeOK
  <1>3. ASSUME NEW r \in Requests, Commit(r) PROVE target'[t].version \in Nat /\ target[t].version <= target'[t].version
    <2>1. \/ target' = target
          \/ target' = [target EXCEPT ![request[r].target] =
                [version |-> target[request[r].target].version + 1,
                 open |-> request[r].name = "adjust"]]
      BY <1>3 DEF Commit, tables
    <2> QED
      BY <1>1, <2>1 DEF TypeOK
  <1>4. target' = target \/ (\E s \in Targets : OtherWriter(s)) \/ \E r \in Requests : Commit(r)
    BY DEF Next, vars, tables, web, bot, Dispatch, ClientReceives,
       ClientDeadline, Accept, ServerDeadline, WebRestart, BotRestart, Execute, Examine,
       Lookup, FindPending, Validate, Duplicate, Fail, Respond
  <1> QED
    BY <1>1, <1>2, <1>3, <1>4

\* A decision is on the current version, and earlier ones are behind it.
LEMMA NextOneEffect ==
  ASSUME TypeOK, ComesFirst, OneEffectPerVersion, EffectsAreBehind, [Next]_vars
  PROVE  (OneEffectPerVersion /\ EffectsAreBehind)'
  <1>1. \A e \in effects : /\ e.version < target[e.target].version
                          /\ e.version < target'[e.target].version
    <2> TAKE e \in effects
    <2>1. e.target \in Targets /\ e.version \in Nat /\ target[e.target].version \in Nat
      BY DEF TypeOK
    <2> QED
      BY <2>1, VersionsGrow DEF EffectsAreBehind
  <1>2. CASE effects' = effects
    BY <1>1, <1>2 DEF OneEffectPerVersion, EffectsAreBehind
  <1>3. ASSUME NEW r \in Requests, Decided(r)
        PROVE  (OneEffectPerVersion /\ EffectsAreBehind)'
    <2>1. request[r].version \in Nat
      BY <1>3 DEF Decided, TypeOK, NoRequest
    <2>2. \A e \in effects : e.target = request[r].target => e.version # request[r].version
      BY <1>1, <1>3, <2>1 DEF Decided, TypeOK
    <2>3. OneEffectPerVersion'
      BY <1>3, <2>2 DEF Decided, OneEffectPerVersion
    <2>4. EffectsAreBehind'
      BY <1>1, <1>3, <2>1 DEF Decided, EffectsAreBehind
    <2> QED
      BY <2>3, <2>4
  <1> QED
    BY <1>2, <1>3, EffectStep

\* After a time-out, with two administrators or after a restart: a stored result and
\* its change commit together, and an operation changes something once.
THEOREM AdminResultsMatchEffects == Spec => []ResultsMatchEffects
  <1>1. Init => TypeOK /\ ComesFirst /\ ClaimsAreThere /\ ResultsMatchEffects
    BY InitType, InitComesFirst DEF Init, ClaimsAreThere, ResultsMatchEffects
  <1>2. TypeOK /\ ComesFirst /\ ClaimsAreThere /\ ResultsMatchEffects /\ [Next]_vars
        => (TypeOK /\ ComesFirst /\ ClaimsAreThere /\ ResultsMatchEffects)'
    BY NextType, NextComesFirst, NextClaimsAreThere, NextResultsMatchEffects, AdminConstants
  <1> QED
    BY <1>1, <1>2, PTL DEF Spec

\* The compare-and-set of each command: a version of a target is decided once, by
\* whatever commands and however often they are sent.
THEOREM AdminOneEffectPerVersion == Spec => []OneEffectPerVersion
  <1> DEFINE Inv == TypeOK /\ ComesFirst /\ ClaimsAreThere
                    /\ OneEffectPerVersion /\ EffectsAreBehind
  <1>1. Init => Inv
    BY InitType, InitComesFirst DEF Init, ClaimsAreThere, OneEffectPerVersion, EffectsAreBehind
  <1>2. Inv /\ [Next]_vars => Inv'
    BY NextType, NextComesFirst, NextClaimsAreThere, NextOneEffect, AdminConstants
  <1>3. Inv => OneEffectPerVersion
    OBVIOUS
  <1> QED
    BY <1>1, <1>2, <1>3, PTL DEF Spec

-----------------------------------------------------------------------------
\* Reports.

\* An answer that says success or conflict says what is stored.
Founded(r, answer) ==
  answer.outcome \in {"success", "conflict"} => result[Op(r)] = answer.outcome

\* On its way from the command over the socket to the browser, an answer stays true.
AnswersAreFounded ==
  \A r \in Requests :
    /\ execution[r].step = "respond" => Founded(r, execution[r].answer)
    /\ reply[r] # Nothing => Founded(r, reply[r])
    /\ report[r] = "ok" => result[Op(r)] = "success"
    /\ report[r] = "conflict" => result[Op(r)] = "conflict"

\* A success was stored by a command that ran under the operation id, and that
\* changed its target unless it only lists.
SuccessesHaveAuthors ==
  \A o \in Ops : result[o] = "success" =>
    \E r \in Requests :
      /\ request[r].state # "new" /\ request[r].op = o
      /\ request[r].name # "list" => \E e \in effects : e.request = r

EffectsHaveRequests ==
  \A e \in effects : request[e.request].state # "new" /\ request[e.request].op = e.op

\* An effect is that of a request that was received under its operation id.
LEMMA NextEffectsHaveRequests ==
  ASSUME TypeOK, ComesFirst, EffectsHaveRequests, [Next]_vars
  PROVE  EffectsHaveRequests'
  <1>1. \A e \in effects : request'[e.request].state # "new" /\ request'[e.request].op = e.op
    BY RequestsStay DEF TypeOK, EffectsHaveRequests
  <1> QED
    BY <1>1, EffectStep DEF EffectsHaveRequests, Decided

\* A success is stored by a commit, together with its effect.
LEMMA NewSuccess ==
  ASSUME TypeOK, ComesFirst, [Next]_vars,
         NEW o \in Ops, result[o] # "success", result'[o] = "success"
  PROVE  \E r \in Requests :
           /\ request[r].state # "new" /\ request[r].op = o
           /\ request[r].name # "list" => \E e \in effects' : e.request = r
  <1>1. ASSUME NEW r \in Requests, Commit(r)
        PROVE  /\ request[r].state # "new" /\ request[r].op = o
               /\ request[r].name # "list" => \E e \in effects' : e.request = r
    <2>1. request[r].state # "new"
      BY <1>1 DEF Commit, ComesFirst, Untouched
    <2>2. request[r].op = o
      BY <1>1 DEF Commit, Claim, tables, TypeOK
    <2>3. PICK outcome \in Decisions(request[r]) :
            /\ result' = [result EXCEPT ![request[r].op] = outcome]
            /\ outcome = "success" /\ request[r].name # "list" =>
                 effects' = effects \cup
                   {[request |-> r, op |-> request[r].op, target |-> request[r].target,
                     version |-> request[r].version]}
      BY <1>1 DEF Commit, Claim, tables
    <2>4. outcome = "success"
      BY <2>2, <2>3 DEF TypeOK
    <2>5. request[r].name # "list" => \E e \in effects' : e.request = r
      <3> DEFINE e == [request |-> r, op |-> request[r].op, target |-> request[r].target,
                       version |-> request[r].version]
      <3>1. request[r].name # "list" => e \in effects'
        BY <2>3, <2>4
      <3> QED
        BY <3>1
    <2> QED
      BY <2>1, <2>2, <2>5
  <1>2. ASSUME NEW r \in Requests, NEW outcome, outcome # "success", Record(r, outcome) PROVE FALSE
    BY <1>2 DEF Record, TypeOK
  <1>3. \E r \in Requests : Commit(r)
    BY <1>2 DEF Next, vars, tables, web, bot, OtherWriter, Dispatch, ClientReceives,
       ClientDeadline, Accept, ServerDeadline, WebRestart, BotRestart, Execute, Examine,
       Lookup, FindPending, Validate, Duplicate, Fail, Respond
  <1> QED
    BY <1>1, <1>3

\* Whoever stored a success keeps the operation id and the effect.
LEMMA NextSuccessesHaveAuthors ==
  ASSUME TypeOK, ComesFirst, SuccessesHaveAuthors, [Next]_vars
  PROVE  SuccessesHaveAuthors'
  <1> SUFFICES ASSUME NEW o \in Ops, result'[o] = "success"
               PROVE  \E r \in Requests :
                        /\ request'[r].state # "new" /\ request'[r].op = o
                        /\ request'[r].name # "list" => \E e \in effects' : e.request = r
    BY DEF SuccessesHaveAuthors
  <1>1. effects \subseteq effects'
    BY EffectStep DEF Decided
  <1>2. \E r \in Requests :
          /\ request[r].state # "new" /\ request[r].op = o
          /\ request[r].name # "list" => \E e \in effects' : e.request = r
    BY <1>1, NewSuccess DEF SuccessesHaveAuthors
  <1> QED
    BY <1>2, RequestsStay

\* Whoever has an answer was asked; what it is founded on stays.
LEMMA FoundedStays ==
  ASSUME TypeOK, ComesFirst, [Next]_vars, NEW r \in Requests, request[r].state # "new",
         NEW answer, Founded(r, answer)
  PROVE  answer.outcome \in {"success", "conflict"} => result'[Op(r)'] = answer.outcome
  <1>1. request[r].op \in Ops
    BY DEF TypeOK, NoRequest
  <1>2. request'[r].op = request[r].op
    BY RequestsStay
  <1>3. result[request[r].op] # "none" => result'[request[r].op] = result[request[r].op]
    BY <1>1, ResultsStay
  <1> QED
    BY <1>2, <1>3 DEF Founded, Op

\* The answers a command may give are founded when it gives them.
LEMMA NewAnswer ==
  ASSUME TypeOK, ComesFirst, [Next]_vars, NEW r \in Requests,
         execution'[r].step = "respond", execution'[r] # execution[r]
  PROVE  /\ request' = request /\ request[r].state # "new"
         /\ execution'[r].answer.outcome \in {"success", "conflict"} =>
              result'[request[r].op] = execution'[r].answer.outcome
  <1> DEFINE Goal == /\ request' = request /\ request[r].state # "new"
                     /\ execution'[r].answer.outcome \in {"success", "conflict"} =>
                          result'[request[r].op] = execution'[r].answer.outcome
  <1>1. ASSUME NEW s \in Requests, NEW step \in Steps, Go(s, step) PROVE FALSE
    BY <1>1 DEF Go, Steps, TypeOK
  <1>2. ASSUME NEW s \in Requests, NEW answer, Answer(s, answer)
        PROVE  s = r /\ execution'[r].answer = answer
    BY <1>2 DEF Answer, TypeOK
  <1>3. ASSUME NEW s \in Requests, Execute(s) PROVE Goal
    <2>1. request' = request /\ execution[s].step # "none"
      BY <1>3 DEF Execute, Examine, Lookup, FindPending, Validate, Commit, Duplicate, Fail,
         Respond, web
    <2>2. request[s].state # "new"
      BY <2>1 DEF ComesFirst, Untouched
    <2>3. request[s].op \in Ops
      BY <2>2 DEF TypeOK, NoRequest
    <2>4. ASSUME Examine(s) \/ FindPending(s) \/ Validate(s) \/ Fail(s) PROVE Goal
      <3>1. \E outcome \in {"denied", "failure"} : Answer(s, Own(outcome))
        BY <2>4, <1>1 DEF Examine, FindPending, Validate, Fail, Unavailable, Steps
      <3> QED
        BY <2>1, <2>2, <3>1, <1>2 DEF Own
    <2>5. ASSUME Lookup(s) \/ Duplicate(s) PROVE Goal
      <3>1. Answer(s, Found(result[Op(s)])) /\ result' = result
        BY <2>5, <1>1 DEF Lookup, Duplicate, Steps, tables
      <3> QED
        BY <2>1, <2>2, <3>1, <1>2 DEF Found, Op
    <2>6. ASSUME Commit(s) PROVE Goal
      <3>1. \E outcome \in Decisions(request[s]) :
              /\ result' = [result EXCEPT ![request[s].op] = outcome]
              /\ Answer(s, Own(outcome)) \/ Answer(s, Own("failure"))
        BY <2>6, <1>1 DEF Commit, Claim, Unavailable, Steps
      <3> QED
        BY <2>1, <2>2, <2>3, <3>1, <1>2 DEF Own, TypeOK
    <2>7. ASSUME Respond(s) PROVE FALSE
      BY <2>7 DEF Respond, TypeOK
    <2> QED
      BY <1>3, <2>4, <2>5, <2>6, <2>7 DEF Execute
  <1>4. ASSUME NEW s \in Requests, Accept(s) PROVE FALSE
    BY <1>1, <1>4 DEF Accept, Steps
  <1>5. ASSUME BotRestart PROVE FALSE
    BY <1>5 DEF BotRestart
  <1>6. execution' # execution
    OBVIOUS
  <1>7. (\E s \in Requests : Execute(s) \/ Accept(s)) \/ BotRestart
    BY <1>6 DEF Next, vars, bot, OtherWriter, Dispatch, ClientReceives,
       ClientDeadline, ServerDeadline, WebRestart
  <1> QED
    BY <1>3, <1>4, <1>5, <1>7

\* The bot writes to the socket what the command answered.
LEMMA NewReply ==
  ASSUME TypeOK, [Next]_vars, NEW r \in Requests, reply'[r] # Nothing, reply'[r] # reply[r]
  PROVE  Respond(r) /\ reply'[r] = execution[r].answer
  <1>1. ASSUME NEW s \in Requests, Respond(s)
        PROVE  Respond(r) /\ reply'[r] = execution[r].answer
    <2>1. \/ reply' = [reply EXCEPT ![s] = execution[s].answer]
          \/ reply' = reply
      BY <1>1 DEF Respond
    <2>2. s = r
      BY <2>1 DEF TypeOK
    <2> QED
      BY <1>1, <2>1, <2>2 DEF TypeOK
  <1>2. ASSUME NEW s \in Requests, ClientReceives(s) PROVE FALSE
    BY <1>2 DEF ClientReceives, TypeOK
  <1>3. reply' # reply
    OBVIOUS
  <1>4. \E s \in Requests : Respond(s) \/ ClientReceives(s)
    BY <1>3 DEF Next, vars, bot, OtherWriter, Dispatch, ClientDeadline, ServerDeadline,
       WebRestart, BotRestart, Accept, Execute, Examine, Lookup, FindPending, Validate,
       Commit, Duplicate, Fail
  <1> QED
    BY <1>1, <1>2, <1>4

\* The dashboard reports success or conflict when that is what it received.
LEMMA NewReport ==
  ASSUME TypeOK, [Next]_vars, NEW r \in Requests, report'[r] \in {"ok", "conflict"},
         report'[r] # report[r]
  PROVE  /\ request[r].state = "waiting" /\ reply[r] # Nothing
         /\ reply[r].outcome = IF report'[r] = "ok" THEN "success" ELSE "conflict"
  <1>1. ASSUME NEW s \in Requests, NEW answer, Finish(s, answer)
        PROVE  s = r /\ report'[r] = StatusOf(request[r].name, answer)
    BY <1>1 DEF Finish, TypeOK
  <1>2. ASSUME NEW answer, report'[r] = StatusOf(request[r].name, answer)
        PROVE  answer.outcome = IF report'[r] = "ok" THEN "success" ELSE "conflict"
    BY <1>2 DEF StatusOf
  <1>3. ASSUME NEW s \in Requests, ClientDeadline(s) PROVE FALSE
    BY <1>1, <1>2, <1>3 DEF ClientDeadline, Own, Unavailable
  <1>4. ASSUME NEW s \in Requests, NEW c, NEW v, Dispatch(s, c, v) PROVE FALSE
    BY <1>4 DEF Dispatch, TypeOK
  <1>5. report' # report
    OBVIOUS
  <1>6. PICK s \in Requests : ClientReceives(s)
    BY <1>3, <1>4, <1>5 DEF Next, vars, web, OtherWriter, Accept, ServerDeadline, WebRestart,
       BotRestart, Execute, Examine, Lookup, FindPending, Validate, Commit, Duplicate, Fail,
       Respond
  <1>7. s = r /\ ((reply[r] # Nothing /\ Finish(r, reply[r])) \/ Finish(r, Unavailable))
    BY <1>1, <1>6 DEF ClientReceives
  <1>8. ~Finish(r, Unavailable)
    BY <1>1, <1>2 DEF Own, Unavailable
  <1> QED
    BY <1>1, <1>2, <1>6, <1>7, <1>8 DEF ClientReceives

\* Answers on their way stay founded, and new ones are founded when given.
LEMMA NextAnswersAreFounded ==
  ASSUME TypeOK, ComesFirst, AnswersAreFounded, AdminConstants, [Next]_vars
  PROVE  AnswersAreFounded'
  <1> SUFFICES ASSUME NEW r \in Requests
               PROVE  /\ execution'[r].step = "respond" => Founded(r, execution[r].answer)'
                      /\ reply'[r] # Nothing => Founded(r, reply[r])'
                      /\ report'[r] = "ok" => result'[Op(r)'] = "success"
                      /\ report'[r] = "conflict" => result'[Op(r)'] = "conflict"
    BY DEF AnswersAreFounded
  <1>1. ASSUME execution'[r].step = "respond" PROVE Founded(r, execution[r].answer)'
    <2>1. CASE execution'[r] = execution[r]
      <3>1. request[r].state # "new" /\ Founded(r, execution[r].answer)
        BY <1>1, <2>1 DEF ComesFirst, Untouched, AnswersAreFounded
      <3> QED
        BY <2>1, <3>1, FoundedStays DEF Founded
    <2>2. CASE execution'[r] # execution[r]
      BY <1>1, <2>2, NewAnswer DEF Founded, Op
    <2> QED
      BY <2>1, <2>2
  <1>2. ASSUME reply'[r] # Nothing PROVE Founded(r, reply[r])'
    <2>1. CASE reply'[r] = reply[r]
      <3>1. request[r].state # "new" /\ Founded(r, reply[r])
        BY <1>2, <2>1 DEF ComesFirst, Untouched, AnswersAreFounded
      <3> QED
        BY <2>1, <3>1, FoundedStays DEF Founded
    <2>2. CASE reply'[r] # reply[r]
      <3>1. reply'[r] = execution[r].answer /\ execution[r].step = "respond"
        BY <1>2, <2>2, NewReply DEF Respond
      <3>2. request[r].state # "new" /\ Founded(r, execution[r].answer)
        BY <3>1 DEF ComesFirst, Untouched, AnswersAreFounded
      <3> QED
        BY <3>1, <3>2, FoundedStays DEF Founded
    <2> QED
      BY <2>1, <2>2
  <1>3. ASSUME report'[r] \in {"ok", "conflict"}
        PROVE  result'[Op(r)'] = IF report'[r] = "ok" THEN "success" ELSE "conflict"
    <2>1. CASE report'[r] = report[r]
      <3>1. request[r].state # "new"
        BY <1>3, <2>1 DEF ComesFirst, Untouched, AdminConstants
      <3>2. result[Op(r)] = IF report[r] = "ok" THEN "success" ELSE "conflict"
        BY <1>3, <2>1 DEF AnswersAreFounded
      <3>3. Op(r) \in Ops /\ Op(r)' = Op(r)
        BY <3>1, RequestsStay DEF TypeOK, NoRequest, Op
      <3>4. result'[Op(r)] = result[Op(r)]
        BY <3>2, <3>3, ResultsStay
      <3> QED
        BY <2>1, <3>2, <3>3, <3>4
    <2>2. CASE report'[r] # report[r]
      <3>1. /\ request[r].state # "new" /\ Founded(r, reply[r])
            /\ reply[r].outcome = IF report'[r] = "ok" THEN "success" ELSE "conflict"
        BY <1>3, <2>2, NewReport DEF AnswersAreFounded
      <3> QED
        BY <3>1, FoundedStays
    <2> QED
      BY <2>1, <2>2
  <1> QED
    BY <1>1, <1>2, <1>3

\* What is known of results, effects and answers says that reports are true.
LEMMA FoundedReports ==
  ASSUME TypeOK, ComesFirst, AdminConstants, ResultsMatchEffects, AnswersAreFounded,
         SuccessesHaveAuthors, EffectsHaveRequests
  PROVE  ReportsAreTrue
  <1> SUFFICES ASSUME NEW r \in Requests
               PROVE  LET mine == {e \in effects : e.request = r}
                      IN  /\ report[r] = "ok" /\ Fresh(r) /\ request[r].name # "list" => mine # {}
                          /\ report[r] = "conflict" => mine = {} /\ result[request[r].op] # "none"
    BY DEF ReportsAreTrue
  <1>1. report[r] \in {"ok", "conflict"} => request[r].state # "new" /\ request[r].op \in Ops
    BY DEF ComesFirst, Untouched, AdminConstants, TypeOK, NoRequest
  <1>2. ASSUME report[r] = "ok", Fresh(r), request[r].name # "list"
        PROVE  \E e \in effects : e.request = r
    <2>1. PICK q \in Requests :
            /\ request[q].state # "new" /\ request[q].op = request[r].op
            /\ request[q].name # "list" => \E e \in effects : e.request = q
      BY <1>1, <1>2 DEF AnswersAreFounded, SuccessesHaveAuthors, Op
    <2>2. q = r
      BY <1>2, <2>1 DEF Fresh
    <2> QED
      BY <1>2, <2>1, <2>2
  <1>3. ASSUME report[r] = "conflict"
        PROVE  result[request[r].op] # "none" /\ \A e \in effects : e.request # r
    BY <1>3 DEF AnswersAreFounded, Op, EffectsHaveRequests, ResultsMatchEffects
  <1> QED
    BY <1>2, <1>3

\* Through restarts, deadlines and lost answers: a browser that is told of a success
\* has its change committed, and one that is told of a conflict has changed nothing.
THEOREM AdminReportsAreTrue == Spec => []ReportsAreTrue
  <1> DEFINE Known == TypeOK /\ ComesFirst /\ ClaimsAreThere
             Inv == /\ Known /\ ResultsMatchEffects /\ AnswersAreFounded
                    /\ SuccessesHaveAuthors /\ EffectsHaveRequests
  <1>1. Init => Inv
    <2>1. Init => Known
      BY InitType, InitComesFirst DEF Init, ClaimsAreThere
    <2>2. Init => AnswersAreFounded
      BY AdminConstants DEF Init, AnswersAreFounded
    <2> QED
      BY <2>1, <2>2 DEF Init, ResultsMatchEffects, SuccessesHaveAuthors, EffectsHaveRequests
  <1>2. Inv /\ [Next]_vars => Inv'
    <2>1. Known /\ [Next]_vars => Known'
      BY NextType, NextComesFirst, NextClaimsAreThere, AdminConstants
    <2>2. Inv /\ [Next]_vars => ResultsMatchEffects' /\ AnswersAreFounded'
      BY NextResultsMatchEffects, NextAnswersAreFounded, AdminConstants
    <2>3. Inv /\ [Next]_vars => SuccessesHaveAuthors' /\ EffectsHaveRequests'
      BY NextSuccessesHaveAuthors, NextEffectsHaveRequests
    <2> QED
      BY <2>1, <2>2, <2>3
  <1>3. Inv => ReportsAreTrue
    BY FoundedReports, AdminConstants
  <1> QED
    BY <1>1, <1>2, <1>3, PTL DEF Spec

-----------------------------------------------------------------------------
\* Deadlines and retries.

Effected(r) == \E e \in effects : e.request = r

\* The deadline of the dashboard is reported as such for what it calls a mutation.
DeadlinesAreTold ==
  \A r \in timedOut :
    /\ request[r].state = "answered"
    /\ report[r] = IF IsMutation(request[r].name) THEN "timeout" ELSE "unavailable"

\* An effect is what its request asked for.
EffectsAreAsked ==
  \A e \in effects :
    /\ request[e.request].name # "list"
    /\ e.target = request[e.request].target /\ e.version = request[e.request].version

\* What is committed is reported as unavailable by the deadline of the dashboard for the
\* correction of an incident only; for anything else the outcome is called unknown.
OnlyIncidentsAreMisreported ==
  \A r \in timedOut : Effected(r) /\ report[r] = "unavailable" => request[r].name \in {"correct", "cancel"}

\* Whatever was reported, it is safe to ask again for what was asked for: of two requests for
\* one version of a target one has an effect at most, and if one of them is told of a success
\* of its own the other one has none.
RetriesAreSafe ==
  \A r, s \in Requests :
    /\ r # s /\ request[r].state # "new" /\ request[s].state # "new"
    /\ request[r].target = request[s].target /\ request[r].version = request[s].version
    => /\ ~(Effected(r) /\ Effected(s))
       /\ report[r] = "ok" /\ Fresh(r) /\ request[r].name # "list" => ~Effected(s)

\* What was asked for stays, and a request that was answered is not answered again.
LEMMA CommandsStay ==
  ASSUME TypeOK, [Next]_vars, NEW r \in Requests, request[r].state # "new"
  PROVE  /\ request'[r].state # "new" /\ request'[r].name = request[r].name
         /\ request'[r].target = request[r].target /\ request'[r].version = request[r].version
         /\ request[r].state = "answered" => request'[r] = request[r] /\ report'[r] = report[r]
  <1> DEFINE Stays ==
        /\ request'[r].state # "new" /\ request'[r].name = request[r].name
        /\ request'[r].target = request[r].target /\ request'[r].version = request[r].version
        /\ request[r].state = "answered" => request'[r] = request[r] /\ report'[r] = report[r]
  <1>1. ASSUME NEW s \in Requests, NEW answer, request[s].state = "waiting", Finish(s, answer) PROVE Stays
    BY <1>1 DEF Finish, TypeOK
  <1>2. ASSUME NEW s \in Requests, Execute(s) PROVE request' = request /\ report' = report
    BY <1>2 DEF Execute, Examine, Lookup, FindPending, Validate, Commit, Duplicate, Fail, Respond, web
  <1>3. CASE WebRestart
    BY <1>3 DEF WebRestart, TypeOK, NoRequest
  <1>4. ASSUME NEW s \in Requests, NEW c, NEW v, Dispatch(s, c, v) PROVE Stays
    BY <1>4 DEF Dispatch, TypeOK
  <1>5. ASSUME NEW s \in Requests, ClientReceives(s) \/ ClientDeadline(s) PROVE Stays
    BY <1>1, <1>5 DEF ClientReceives, ClientDeadline
  <1> HIDE DEF Stays
  <1>6. CASE UNCHANGED <<request, report>>
    BY <1>6 DEF Stays
  <1>7. Stays
    BY <1>2, <1>3, <1>4, <1>5, <1>6 DEF Stays, Next, vars, tables, web, bot, OtherWriter, Accept, ServerDeadline, BotRestart
  <1> QED
    BY <1>7 DEF Stays

\* Who joins the timed out is answered with the deadline.
LEMMA NewDeadline ==
  ASSUME TypeOK, [Next]_vars, NEW r \in timedOut', r \notin timedOut
  PROVE  /\ r \in Requests /\ request'[r].state = "answered"
         /\ report'[r] = IF IsMutation(request'[r].name) THEN "timeout" ELSE "unavailable"
  <1>1. PICK s \in Requests : ClientDeadline(s)
    BY DEF Next, vars, tables, web, bot, OtherWriter, Dispatch, ClientReceives, Accept, ServerDeadline,
       WebRestart, BotRestart, Execute, Examine, Lookup, FindPending, Validate, Commit, Duplicate, Fail, Respond
  <1>2. s = r /\ request[r].state = "waiting" /\ Finish(r, IF IsMutation(request[r].name) THEN Own("unknown") ELSE Unavailable)
    BY <1>1 DEF ClientDeadline
  <1>3. /\ request' = [request EXCEPT ![r].state = "answered"]
        /\ report' = [report EXCEPT ![r] = IF IsMutation(request[r].name) THEN "timeout" ELSE "unavailable"]
    BY <1>2 DEF Finish, StatusOf, Own, Unavailable
  <1>4. request'[r].state = "answered" /\ request'[r].name = request[r].name
    BY <1>1, <1>2, <1>3 DEF TypeOK, NoRequest
  <1>5. report'[r] = IF IsMutation(request[r].name) THEN "timeout" ELSE "unavailable"
    BY <1>1, <1>2, <1>3 DEF TypeOK
  <1> QED
    BY <1>1, <1>2, <1>4, <1>5

\* A deadline that was told stays told.
LEMMA NextDeadlines ==
  ASSUME TypeOK, DeadlinesAreTold, [Next]_vars PROVE DeadlinesAreTold'
  <1>1. ASSUME NEW r \in timedOut, r \in timedOut'
        PROVE  request'[r] = request[r] /\ report'[r] = report[r]
    BY CommandsStay DEF TypeOK, DeadlinesAreTold
  <1>2. ASSUME NEW r \in timedOut', r \in timedOut
        PROVE  /\ request'[r].state = "answered"
               /\ report'[r] = IF IsMutation(request'[r].name) THEN "timeout" ELSE "unavailable"
    BY <1>1, <1>2 DEF DeadlinesAreTold
  <1> QED
    BY <1>2, NewDeadline DEF DeadlinesAreTold

\* An effect is that of the command that was asked for, which stays.
LEMMA NextEffectsAreAsked ==
  ASSUME TypeOK, ComesFirst, EffectsHaveRequests, EffectsAreAsked, [Next]_vars
  PROVE  EffectsAreAsked'
  <1>1. \A e \in effects :
          /\ request'[e.request].name # "list"
          /\ e.target = request'[e.request].target /\ e.version = request'[e.request].version
    BY CommandsStay DEF TypeOK, EffectsHaveRequests, EffectsAreAsked
  <1> QED
    BY <1>1, EffectStep DEF EffectsAreAsked, Decided

\* AdminCommands: TimeoutsAreNotFailures, which run "admin_timeouts" refutes, fails for corrections
\* of incidents only.  IsMutation does not know them.
THEOREM OnlyIncidentsTheorem == Spec => []OnlyIncidentsAreMisreported
  <1> DEFINE Inv == /\ TypeOK /\ ComesFirst /\ ClaimsAreThere /\ EffectsHaveRequests
                    /\ EffectsAreAsked /\ DeadlinesAreTold
  <1>1. Init => Inv
    BY InitType, InitComesFirst DEF Init, ClaimsAreThere, EffectsHaveRequests, EffectsAreAsked, DeadlinesAreTold
  <1>2. Inv /\ [Next]_vars => Inv'
    BY NextType, NextComesFirst, NextClaimsAreThere, NextEffectsHaveRequests, NextEffectsAreAsked,
       NextDeadlines, AdminConstants
  <1>3. Inv => OnlyIncidentsAreMisreported
    <2> SUFFICES ASSUME Inv, NEW r \in timedOut, Effected(r), report[r] = "unavailable"
                 PROVE  request[r].name \in {"correct", "cancel"}
      BY DEF OnlyIncidentsAreMisreported
    <2>1. request[r].state = "answered" /\ ~IsMutation(request[r].name) /\ request[r].name # "list"
      BY DEF DeadlinesAreTold, EffectsAreAsked, Effected
    <2>2. request[r].name \in Mutations \cup {"list"}
      BY <2>1 DEF TypeOK, NoRequest
    <2> QED
      BY <2>1, <2>2 DEF Mutations, IsMutation
  <1> QED
    BY <1>1, <1>2, <1>3, PTL DEF Spec

\* Two administrators, or one who asks again because the outcome is unknown or was misreported:
\* the compare-and-set on the version lets one of them through, and who is told so can rely on it.
THEOREM RetriesAreSafeTheorem == Spec => []RetriesAreSafe
  <1> DEFINE Inv == TypeOK /\ ComesFirst /\ ClaimsAreThere /\ EffectsHaveRequests /\ EffectsAreAsked
  <1>1. Init => Inv
    BY InitType, InitComesFirst DEF Init, ClaimsAreThere, EffectsHaveRequests, EffectsAreAsked
  <1>2. Inv /\ [Next]_vars => Inv'
    BY NextType, NextComesFirst, NextClaimsAreThere, NextEffectsHaveRequests, NextEffectsAreAsked, AdminConstants
  <1>3. Inv /\ OneEffectPerVersion /\ ReportsAreTrue => RetriesAreSafe
    <2> SUFFICES ASSUME Inv, OneEffectPerVersion, ReportsAreTrue,
                        NEW r \in Requests, NEW s \in Requests, r # s,
                        request[r].target = request[s].target, request[r].version = request[s].version
                 PROVE  /\ ~(Effected(r) /\ Effected(s))
                        /\ report[r] = "ok" /\ Fresh(r) /\ request[r].name # "list" => ~Effected(s)
      BY DEF RetriesAreSafe
    <2>1. ~(Effected(r) /\ Effected(s))
      BY DEF Effected, OneEffectPerVersion, EffectsAreAsked
    <2>2. report[r] = "ok" /\ Fresh(r) /\ request[r].name # "list" => Effected(r)
      BY DEF Effected, ReportsAreTrue
    <2> QED
      BY <2>1, <2>2
  <1>4. Spec => []Inv
    BY <1>1, <1>2, PTL DEF Spec
  <1> QED
    BY <1>3, <1>4, AdminOneEffectPerVersion, AdminReportsAreTrue, PTL
=============================================================================
