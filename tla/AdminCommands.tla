---------------------------- MODULE AdminCommands ----------------------------
(***************************************************************************)
(* Administrator commands from the dashboard.  The web process turns an    *)
(* HTTP request into one exchange over a Unix socket with a deadline; the  *)
(* bot runs the command, which waits for Discord, for Riot and for the     *)
(* database, whatever has become of the socket; one transaction claims the *)
(* operation id, changes the target if its version is the expected one and *)
(* stores the result.  Either process may restart at any time.             *)
(***************************************************************************)
EXTENDS Naturals, FiniteSets

CONSTANTS
  Requests,         \* HTTP requests, numbered as they arrive
  Targets,          \* rows that commands decide on
  Kind,             \* of a target: request, link, account or incident
  Menus,            \* sets of commands [name, target] the dashboard may ask for
  Ops,              \* operation ids
  GeneratedId,      \* the random operation id of each request
  RequestId,        \* the operation id the n-th request of a web process would get
  FirstLongId,      \* the first n for which that id is long enough to be used
  Nothing,
  MaxConnections,   \* connections the bot serves at once
  MaxServed,        \* bound: requests a web process receives
  MaxRestarts,      \* bound: restarts of both processes together
  MaxVersion        \* bound: the version other writers bring a target to

Mutations == {"approve", "reject", "remove", "adjust", "correct", "cancel"}

ASSUME AdminConstants ==
  /\ Requests \subseteq Nat
  /\ Menus \subseteq SUBSET [name : Mutations \cup {"list"}, target : Targets]
  /\ Kind \in [Targets -> {"request", "link", "account", "incident"}]
  /\ GeneratedId \in [Requests -> Ops]
  /\ \A n \in 1..MaxServed : RequestId[n] \in Ops
  /\ FirstLongId \in Nat /\ MaxConnections \in Nat \ {0}
  /\ MaxServed \in Nat /\ MaxRestarts \in Nat /\ MaxVersion \in Nat
  /\ Nothing \notin {"ok", "conflict", "timeout", "unavailable"}

VARIABLES
  target,       \* the rows: version, and whether a decision is still possible
  result,       \* operation_ledger and admin_command_result: outcome by operation id
  effects,      \* history: the mutations committed, with the version decided on
  request,      \* the web process: state, operation, command, expected version
  report,       \* what each HTTP request was answered
  timedOut,     \* history: requests answered by the client's deadline
  connection,   \* the socket of each request as the bot has it
  reply,        \* what the bot wrote to the socket
  execution,    \* the command as it runs in the bot
  served,       \* HTTP requests the web process has received since it started
  restarts,     \* of the web process and of the bot
  menu          \* the commands asked for; it never changes

tables == <<target, result, effects>>
web == <<request, report, timedOut, served>>
bot == <<connection, reply, execution>>
vars == <<tables, web, bot, restarts, menu>>

-----------------------------------------------------------------------------
Outcomes == {"success", "conflict", "failure", "denied"}

\* An answer of the bot: the outcome of the command itself, or a terminal result
\* found under its operation id.
Answers == [from : {"command", "ledger"}, outcome : Outcomes \cup {"unknown"}]
Own(outcome) == [from |-> "command", outcome |-> outcome]
Found(outcome) == [from |-> "ledger", outcome |-> outcome]
Unavailable == Own("failure")

IsMutation(name) == name \in {"approve", "reject", "remove", "adjust"}

\* The HTTP status of an answer.  Decisions accept a successful result found in
\* the ledger; a list or an adjustment needs its own.
StatusOf(name, answer) ==
  IF answer.outcome = "success" /\ (answer.from = "command" \/ name \notin {"list", "adjust"})
  THEN "ok"
  ELSE IF answer.outcome = "conflict" THEN "conflict"
  ELSE IF answer.outcome = "unknown" THEN "timeout"
  ELSE "unavailable"

Served(r) == request[r].state = "waiting"
Finish(r, answer) ==
  /\ request' = [request EXCEPT ![r].state = "answered"]
  /\ report' = [report EXCEPT ![r] = StatusOf(request[r].name, answer)]

Active == {r \in Requests : connection[r] = "open"}
Steps == {"none", "received", "authorized", "find", "validate", "commit", "duplicate"}
Running(r) == execution[r].step # "none"
Go(r, step) == execution' = [execution EXCEPT ![r] = [step |-> step]]

NoRequest == [state |-> "new"]

-----------------------------------------------------------------------------
Init ==
  /\ target = [t \in Targets |-> [version |-> 0, open |-> TRUE]]
  /\ result = [o \in Ops |-> "none"]
  /\ effects = {}
  /\ request = [r \in Requests |-> NoRequest]
  /\ report = [r \in Requests |-> Nothing]
  /\ timedOut = {}
  /\ connection = [r \in Requests |-> "none"]
  /\ reply = [r \in Requests |-> Nothing]
  /\ execution = [r \in Requests |-> [step |-> "none"]]
  /\ served = 0
  /\ restarts = [web |-> 0, bot |-> 0]
  /\ menu \in Menus

\* Others write the same rows: an identity is refreshed, a user unlinks, an
\* account moves, new evidence updates an incident.  A pending link request is
\* only changed by a decision.
OtherWriter(t) ==
  /\ target[t].open /\ target[t].version < MaxVersion
  /\ Kind[t] # "request" /\ \E c \in menu : c.target = t
  /\ \E open \in {TRUE, Kind[t] # "link"} :
       target' = [target EXCEPT ![t] = [version |-> @.version + 1, open |-> open]]
  /\ UNCHANGED <<result, effects, web, bot, restarts, menu>>

-----------------------------------------------------------------------------
\* The web process.

\* The id of the HTTP request is taken as operation id when it is long enough, a
\* random one otherwise.
Asked(r, c, v, state) ==
  [state |-> state, name |-> c.name, target |-> c.target, version |-> v,
   op |-> IF served + 1 >= FirstLongId THEN RequestId[served + 1] ELSE GeneratedId[r]]

\* A request arrives with the version of a page loaded earlier.  The attempt is recorded and the socket opened, which starts the deadline; or the
\* record cannot be written, or nobody listens, and nothing is sent.
Dispatch(r, c, v) ==
  /\ request[r].state = "new" /\ \A s \in Requests : s < r => request[s].state # "new"
  /\ served < MaxServed /\ served' = served + 1
  /\ \/ /\ request' = [request EXCEPT ![r] = Asked(r, c, v, "waiting")]
        /\ connection' = [connection EXCEPT ![r] = "queued"]
        /\ UNCHANGED report
     \/ /\ request' = [request EXCEPT ![r] = Asked(r, c, v, "answered")]
        /\ report' = [report EXCEPT ![r] = "unavailable"]
        /\ UNCHANGED connection
  /\ UNCHANGED <<tables, timedOut, reply, execution, restarts, menu>>

\* The whole answer, or the end of the socket without one.
ClientReceives(r) ==
  /\ request[r].state = "waiting"
  /\ \/ reply[r] # Nothing /\ Finish(r, reply[r])
     \/ reply[r] = Nothing /\ connection[r] = "closed" /\ Finish(r, Unavailable)
  /\ connection' = [connection EXCEPT ![r] = "closed"]
  /\ reply' = [reply EXCEPT ![r] = Nothing]
  /\ UNCHANGED <<tables, timedOut, served, execution, restarts, menu>>

\* Mutant: the deadline starts once the bot has accepted the connection.
ClientDeadline_Connected(r) ==
  /\ request[r].state = "waiting" /\ connection[r] # "queued"
  /\ Finish(r, IF IsMutation(request[r].name) THEN Own("unknown") ELSE Unavailable)
  /\ timedOut' = timedOut \cup {r}
  /\ UNCHANGED <<tables, served, bot, restarts, menu>>

\* Three seconds after the socket was opened.
ClientDeadline(r) ==
  /\ request[r].state = "waiting"
  /\ Finish(r, IF IsMutation(request[r].name) THEN Own("unknown") ELSE Unavailable)
  /\ timedOut' = timedOut \cup {r}
  /\ UNCHANGED <<tables, served, bot, restarts, menu>>

\* The browsers get no answer, the request counter starts again.
WebRestart ==
  /\ restarts.web + restarts.bot < MaxRestarts
  /\ restarts' = [restarts EXCEPT !.web = @ + 1]
  /\ served' = 0
  /\ request' = [r \in Requests |->
                   IF request[r].state = "waiting"
                   THEN [request[r] EXCEPT !.state = "lost"] ELSE request[r]]
  /\ UNCHANGED <<tables, report, timedOut, bot, menu>>

-----------------------------------------------------------------------------
\* The bot's end of the socket.

\* A connection beyond the limit is destroyed unread.  Otherwise the request it
\* carries is run, even if the client has given up since.
Accept(r) ==
  /\ connection[r] = "queued"
  /\ IF Cardinality(Active) < MaxConnections
     THEN /\ connection' = [connection EXCEPT ![r] = "open"]
          /\ Go(r, "received")
     ELSE /\ connection' = [connection EXCEPT ![r] = "closed"]
          /\ UNCHANGED execution
  /\ UNCHANGED <<tables, web, reply, restarts, menu>>

\* Mutant: the deadline is lifted once the request is handed over.
ServerDeadline_Unhandled(r) ==
  /\ connection[r] = "open" /\ ~Running(r)
  /\ connection' = [connection EXCEPT ![r] = "closed"]
  /\ UNCHANGED <<tables, web, reply, execution, restarts, menu>>

\* Three seconds after the accept; the command goes on.
ServerDeadline(r) ==
  /\ connection[r] = "open"
  /\ connection' = [connection EXCEPT ![r] = "closed"]
  /\ UNCHANGED <<tables, web, reply, execution, restarts, menu>>

\* The answer is written unless the socket is gone; a client that gave up has
\* ended its side already.
Respond(r) ==
  /\ execution[r].step = "respond"
  /\ execution' = [execution EXCEPT ![r] = [step |-> "none"]]
  /\ IF request[r].state = "waiting"
     THEN /\ reply' = IF connection[r] = "open"
                      THEN [reply EXCEPT ![r] = execution[r].answer] ELSE reply
          /\ UNCHANGED connection
     ELSE /\ connection' = [connection EXCEPT ![r] = "closed"]
          /\ UNCHANGED reply
  /\ UNCHANGED <<tables, web, restarts, menu>>

\* Commands that were running end where they were: the socket closes, what was
\* committed stays.
BotRestart ==
  /\ restarts.web + restarts.bot < MaxRestarts
  /\ restarts' = [restarts EXCEPT !.bot = @ + 1]
  /\ execution' = [r \in Requests |-> [step |-> "none"]]
  /\ connection' = [r \in Requests |->
                      IF connection[r] = "none" THEN "none" ELSE "closed"]
  /\ UNCHANGED <<tables, web, reply, menu>>

-----------------------------------------------------------------------------
\* The command in the bot; every step may wait for the network or the database.

Op(r) == request[r].op
Answer(r, answer) == execution' = [execution EXCEPT ![r] = [step |-> "respond", answer |-> answer]]

\* Mutant: recording a refusal replaces what is stored.
Record_Overwrites(r, outcome) == result' = [result EXCEPT ![Op(r)] = outcome]

\* Recording a refusal claims the operation id, unless it is claimed already.
Record(r, outcome) ==
  result' = IF result[Op(r)] = "none" THEN [result EXCEPT ![Op(r)] = outcome] ELSE result

\* A request that waited past its expiry, which is later than the client's
\* deadline, or whose actor is not a current administrator, is refused.
Examine(r) ==
  /\ execution[r].step = "received"
  /\ \/ ~Served(r) /\ Record(r, "failure") /\ Answer(r, Own("denied"))
     \/ Record(r, "denied") /\ Answer(r, Own("denied"))
     \/ Go(r, "authorized") /\ UNCHANGED result
  /\ UNCHANGED <<target, effects, web, connection, reply, restarts, menu>>

\* A terminal result under the operation id is the answer.
Lookup(r) ==
  /\ execution[r].step = "authorized"
  /\ IF result[Op(r)] # "none" THEN Answer(r, Found(result[Op(r)]))
     ELSE Go(r, IF request[r].name = "approve" THEN "find" ELSE "commit")
  /\ UNCHANGED <<tables, web, connection, reply, restarts, menu>>

\* An approval reads the pending request and has Riot resolve its account, with
\* no lock held, before the transaction.
FindPending(r) ==
  /\ execution[r].step = "find"
  /\ IF target[request[r].target].open
     THEN Go(r, "validate") /\ UNCHANGED result
     ELSE Record(r, "failure") /\ Answer(r, Own("failure"))
  /\ UNCHANGED <<target, effects, web, connection, reply, restarts, menu>>

Validate(r) ==
  /\ execution[r].step = "validate"
  /\ \/ Go(r, "commit") /\ UNCHANGED result
     \/ \E outcome \in {"failure", "denied"} : Record(r, "failure") /\ Answer(r, Own(outcome))
  /\ UNCHANGED <<target, effects, web, connection, reply, restarts, menu>>

\* Mutant: the transaction trusts the request found before the validation.
DecideRequest_Trusting(name, row, expected) == {"success", "conflict"}

\* What the transaction of a command may decide on the locked row.  A decided link
\* request is gone; an approval may find the account linked already.
DecideRequest(name, row, expected) ==
  IF ~row.open THEN {"failure"}
  ELSE IF row.version # expected THEN {"conflict"}
  ELSE IF name = "approve" THEN {"success", "conflict"} ELSE {"success"}

DecideLink(row, expected) ==
  IF ~row.open THEN {"failure"}
  ELSE IF row.version # expected THEN {"conflict"} ELSE {"success"}

\* The account may be one's own, or have too little.
DecideAdjustment(row, expected) ==
  {"denied"} \cup (IF row.version # expected THEN {"conflict"} ELSE {"success"})

DecideIncident(row, expected) ==
  IF row.open /\ row.version = expected THEN {"success"} ELSE {"conflict"}

Decisions(q) ==
  LET row == target[q.target]
  IN  IF q.name \in {"approve", "reject"} THEN DecideRequest(q.name, row, q.version)
      ELSE IF q.name = "remove" THEN DecideLink(row, q.version)
      ELSE IF q.name = "adjust" THEN DecideAdjustment(row, q.version)
      ELSE IF q.name \in {"correct", "cancel"} THEN DecideIncident(row, q.version)
      ELSE {"success"}

\* Mutant: the result of a conflict is not stored, its operation id stays free.
Claim_Late(o, outcome) == [result EXCEPT ![o] = IF outcome = "conflict" THEN "none" ELSE outcome]

Claim(o, outcome) == [result EXCEPT ![o] = outcome]

\* One transaction: claim the id, lock the row, decide, change it, store the
\* result.  The answer to the commit may be lost.
Commit(r) ==
  /\ execution[r].step = "commit"
  /\ LET q == request[r]
         o == q.op
     IN  IF result[o] # "none"
         THEN Go(r, "duplicate") /\ UNCHANGED tables
         ELSE \E outcome \in Decisions(q) :
                /\ result' = Claim(o, outcome)
                /\ IF outcome = "success" /\ q.name # "list"
                   THEN /\ target' = [target EXCEPT ![q.target] =
                                        [version |-> @.version + 1, open |-> q.name = "adjust"]]
                        /\ effects' = effects \cup
                             {[request |-> r, op |-> o, target |-> q.target,
                               version |-> q.version]}
                   ELSE UNCHANGED <<target, effects>>
                /\ Answer(r, Own(outcome)) \/ Answer(r, Unavailable)
  /\ UNCHANGED <<web, connection, reply, restarts, menu>>

\* The id was claimed between the lookup and the transaction.
Duplicate(r) ==
  /\ execution[r].step = "duplicate"
  /\ Answer(r, Found(result[Op(r)]))
  /\ UNCHANGED <<tables, web, connection, reply, restarts, menu>>

\* Discord or the database fails; the transaction, if any, rolls back.
Fail(r) ==
  /\ execution[r].step \notin {"none", "respond"}
  /\ Answer(r, Unavailable)
  /\ UNCHANGED <<tables, web, connection, reply, restarts, menu>>

-----------------------------------------------------------------------------
Execute(r) ==
  \/ Examine(r) \/ Lookup(r) \/ FindPending(r) \/ Validate(r)
  \/ Commit(r) \/ Duplicate(r) \/ Fail(r) \/ Respond(r)

Next ==
  \/ \E t \in Targets : OtherWriter(t)
  \/ \E r \in Requests :
       \/ \E c \in menu : \E v \in 0..target[c.target].version : Dispatch(r, c, v)
       \/ ClientReceives(r) \/ ClientDeadline(r)
       \/ Accept(r) \/ ServerDeadline(r) \/ Execute(r)
  \/ WebRestart \/ BotRestart

\* The timers of each process fire.  The bot may never accept, and a command may
\* wait for Discord, Riot or the database for ever.
Fairness ==
  /\ WF_vars(\E r \in Requests : ClientDeadline(r))
  /\ WF_vars(\E r \in Requests : ServerDeadline(r))

Spec == Init /\ [][Next]_vars /\ Fairness

-----------------------------------------------------------------------------
\* Types.  A request has a command from the moment it is received.
TypeOK ==
  /\ target \in [Targets -> [version : Nat, open : BOOLEAN]]
  /\ result \in [Ops -> Outcomes \cup {"none"}]
  /\ effects \subseteq [request : Requests, op : Ops, target : Targets, version : Nat]
  /\ request \in [Requests -> {NoRequest} \cup
       [state : {"waiting", "answered", "lost"}, name : Mutations \cup {"list"},
        target : Targets, version : Nat, op : Ops]]
  /\ report \in [Requests -> {"ok", "conflict", "timeout", "unavailable", Nothing}]
  /\ timedOut \subseteq Requests
  /\ connection \in [Requests -> {"none", "queued", "open", "closed"}]
  /\ reply \in [Requests -> Answers \cup {Nothing}]
  /\ execution \in [Requests -> [step : Steps] \cup [step : {"respond"}, answer : Answers]]
  /\ served \in Nat
  /\ menu \in Menus

\* A stored result and the change it reports commit together: an operation that
\* changed something has a successful result, and changed it once.
ResultsMatchEffects ==
  \A e, f \in effects : result[e.op] = "success" /\ (e.op = f.op => e = f)

\* Two administrators, or one who asks again after a time-out under a new
\* operation id, who have seen the same version of a target do not both decide it.
OneEffectPerVersion ==
  \A e, f \in effects : e.target = f.target /\ e.version = f.version => e = f

\* No other request had this operation id before.
Fresh(r) == \A s \in Requests : s # r /\ request[s].state # "new" => request[s].op # request[r].op

\* What the browser is told is what happened: a success was committed by this very
\* request, a conflict changed nothing and never will.  (An id that an earlier
\* web process had used too is answered with the result of the earlier command.)
ReportsAreTrue ==
  \A r \in Requests :
    LET mine == {e \in effects : e.request = r}
    IN  /\ report[r] = "ok" /\ Fresh(r) /\ request[r].name # "list" => mine # {}
        /\ report[r] = "conflict" => mine = {} /\ result[request[r].op] # "none"

\* After ADR-0030 and ADR-0017, "a mutation time-out is not a definite failure":
\* what was committed is not reported as unavailable because the client's
\* deadline passed.
TimeoutsAreNotFailures ==
  \A r \in timedOut : (\E e \in effects : e.request = r) => report[r] # "unavailable"

\* Liveness: every HTTP request is answered, or its process has stopped, whether
\* or not the bot ever accepts its connection or finishes its command.
EveryRequestAnswered ==
  \A r \in Requests : request[r].state = "waiting" ~> request[r].state \in {"answered", "lost"}

\* Liveness: a connection is given back, so that waiting commands cannot use up
\* the limit for good.
ConnectionsAreFreed ==
  \A r \in Requests : connection[r] = "open" ~> connection[r] = "closed"
=============================================================================
