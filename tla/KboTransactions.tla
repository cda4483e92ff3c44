--------------------------- MODULE KboTransactions ---------------------------
(***************************************************************************)
(* The KBO stores statement by statement: sessions of the bot's connection *)
(* pool run READ COMMITTED transactions that read, wait for row locks and  *)
(* for uncommitted operation ids, and commit or roll back.  A request may  *)
(* be delivered more than once (a Discord event seen again, a lost         *)
(* answer), always under the same operation id.  Writes become visible at  *)
(* the commit; what a transaction writes is computed from what it read.    *)
(***************************************************************************)
EXTENDS KboRules, SequencesExt

CONSTANTS
  Users, Accounts, Games, Ops,
  Sessions,        \* connections of the pool
  Nobody,          \* no user, no session, nothing
  NoBet,
  Requests,        \* the mixes of requests: sequences indexed by operation id; the
                   \* field times bounds how often a request is delivered
  Members,         \* the user each account already belongs to at the start, or Nobody
  Feed,            \* [status, score] contents the data provider publishes
  GameStart,       \* the scheduled start of every game
  MaxTime,         \* bound: the last instant
  MaxRevisions     \* bound: revisions of all games together

Bets == [account : Accounts, game : Games, market : Nat, prediction : Predictions,
         stake : Stakes, day : Int, status : {"pending", "settled", "void"},
         revision : Nat, returned : Nat]
Kinds == {"claim", "place", "settle", "adjust", "enroll", "depart"}

\* A request of each kind with the fields of its kind.
WellFormed(q) ==
  /\ q.kind \in Kinds
  /\ q.kind \in {"claim", "place", "enroll", "depart"} => q.user \in Users
  /\ q.kind = "place" =>
       q.game \in Games /\ q.prediction \in Predictions /\ q.stake \in Stakes
  /\ q.kind = "settle" => q.bet \in Ops /\ q.revision \in Nat
  /\ q.kind = "adjust" => q.account \in Accounts /\ q.version \in Nat /\ q.delta \in Int

ASSUME TransactionConstants ==
  /\ Nobody \notin Users \cup Sessions \cup Accounts \cup Ops
  /\ \A mix \in Requests :
       DOMAIN mix \subseteq Ops /\ \A o \in DOMAIN mix : WellFormed(mix[o])
  /\ Members \in [Accounts -> Users \cup {Nobody}]
  /\ \A a, c \in Accounts : Members[a] = Members[c] /\ Members[a] # Nobody => a = c
  /\ Feed \subseteq [status : GameStatuses, score : Scores \cup {NoScore}]
  /\ GameStart \in Nat /\ MaxTime \in Nat /\ MaxRevisions \in Nat

ASSUME NoBetAssumption ==
  NoBet \notin Bets \cup [account : Accounts, stake : Stakes, returned : Int]

VARIABLES
  now,
  enrollment,   \* betting_enrollment: [status, user] by account
  account,      \* credit_account
  claims,       \* daily_credit_claim: [account, day, op]
  bet,          \* kbo_bet by placing operation, with its current settlement
  settlements,  \* bet_settlement: [op, bet, revision]
  adjusted,     \* the operations of admin_adjustment entries
  operation,    \* operation_ledger
  revisions,    \* kbo_game_revision by game; the last one is kbo_game
  session,      \* what each connection is doing
  lock,         \* the session holding each row lock or uncommitted operation id
  request,      \* the request made under each operation id; it never changes
  deliveries,   \* how often each request was delivered
  answers       \* history: the answers given under each operation id

tables == <<enrollment, account, claims, bet, settlements, adjusted, operation>>
inputs == <<request, deliveries>>
vars == <<now, tables, revisions, session, lock, inputs, answers>>

-----------------------------------------------------------------------------
Resources == ({"user"} \X Users) \cup ({"enrollment", "account"} \X Accounts)
               \cup ({"game"} \X Games) \cup ({"op"} \X Ops)

Empty == [available |-> 0, debt |-> 0, version |-> 0]

\* What a connection keeps between its statements: the request and its instant,
\* what it read of the account, of its owner and of the game, and what it is about to
\* write.
Idle == [pc |-> "idle", op |-> Nobody, at |-> 0, account |-> Nobody, owner |-> Nobody,
         credit |-> Empty, game |-> Nobody, row |-> Nobody, revision |-> 0,
         opens |-> Nobody, outcome |-> "none", after |-> Empty, entry |-> NoBet]
Opening == [available |-> DailyCredit, debt |-> 0, version |-> 1]

Current(g) == Last(revisions[g])
Kind(s) == request[session[s].op].kind
Req(s) == request[session[s].op]
EnrolledAs(u, a) == enrollment[a].status = "active" /\ enrollment[a].user = u
BetsOf(a) == {b \in Ops : bet[b] # NoBet /\ bet[b].account = a}

Changed(row, delta) == [available |-> row.available + delta.available,
                        debt      |-> row.debt + delta.debt,
                        version   |-> row.version + 1]

\* Going on to another statement of the same transaction.
Continue(s, next) == session' = [session EXCEPT ![s] = next]
Acquire(s, resource) == lock' = [lock EXCEPT ![resource] = s]
Free(resource) == lock[resource] = Nobody

\* Mutant: a rollback leaves the locks.
Finish_RollbackHolds(s, answer) ==
  /\ lock' = [r \in Resources |-> IF lock[r] = s /\ answer # "error" THEN Nobody ELSE lock[r]]
  /\ answers' = [answers EXCEPT ![session[s].op] = @ \cup {answer}]
  /\ session' = [session EXCEPT ![s] = Idle]

\* The end of a transaction, committed or rolled back: the locks go, the caller
\* gets an answer.
Finish(s, answer) ==
  /\ lock' = [r \in Resources |-> IF lock[r] = s THEN Nobody ELSE lock[r]]
  /\ answers' = [answers EXCEPT ![session[s].op] = @ \cup {answer}]
  /\ session' = [session EXCEPT ![s] = Idle]

Deny(s) == Continue(s, [session[s] EXCEPT !.pc = "key", !.outcome = "denied"])

-----------------------------------------------------------------------------
Init ==
  /\ now = 0
  /\ enrollment = [a \in Accounts |-> IF Members[a] = Nobody
                     THEN [status |-> "none", user |-> Nobody]
                     ELSE [status |-> "active", user |-> Members[a]]]
  /\ account = [a \in Accounts |-> IF Members[a] = Nobody THEN Empty ELSE Opening]
  /\ claims = {[account |-> a, day |-> -1, op |-> Nobody] :
                 a \in {x \in Accounts : Members[x] # Nobody}}
  /\ bet = [o \in Ops |-> NoBet]
  /\ settlements = {}
  /\ adjusted = {}
  /\ operation = [o \in Ops |-> "unused"]
  /\ revisions = [g \in Games |-> <<[status |-> "scheduled", score |-> NoScore,
                                     start |-> GameStart, market |-> 1, updated |-> 0]>>]
  /\ session = [s \in Sessions |-> Idle]
  /\ lock = [r \in Resources |-> Nobody]
  /\ request \in Requests
  /\ deliveries = [o \in Ops |-> 0]
  /\ answers = [o \in Ops |-> {}]

Tick ==
  /\ now < MaxTime /\ now' = now + 1
  /\ UNCHANGED <<tables, revisions, session, lock, inputs, answers>>

\* The feed updates the game row, which waits for whoever locked it.
GameRevised(g, content) ==
  /\ MapThenSumSet(LAMBDA h : Len(revisions[h]), Games) < MaxRevisions
  /\ Free(<<"game", g>>)
  /\ LET market == Current(g).market
         reopens == Current(g).status = "postponed" /\ content.status = "scheduled"
         next == [status |-> content.status, score |-> content.score,
                  start |-> Current(g).start,
                  market |-> IF reopens THEN market + 1 ELSE market,
                  updated |-> now]
     IN  /\ next # Current(g)
         /\ revisions' = [revisions EXCEPT ![g] = Append(@, next)]
  /\ UNCHANGED <<now, tables, session, lock, inputs, answers>>

\* A request reaches a free connection; its instant is taken before it begins.
Deliver(s, o) ==
  /\ session[s] = Idle /\ deliveries[o] < request[o].times
  /\ deliveries' = [deliveries EXCEPT ![o] = @ + 1]
  /\ session' = [session EXCEPT ![s] = [Idle EXCEPT !.pc = "begun", !.op = o, !.at = now]]
  /\ UNCHANGED <<now, tables, revisions, lock, request, answers>>

\* The bot stops or the connection is lost: whatever was open rolls back.
Abort(s) ==
  /\ session[s] # Idle
  /\ Finish(s, "error")
  /\ UNCHANGED <<now, tables, revisions, inputs>>

-----------------------------------------------------------------------------
\* Claims and bets: find the active account by the statement's snapshot of the
\* enrollment, then wait for the account row.  The account is read again once it
\* is locked; the enrollment is not.
FindAccount(s) ==
  /\ session[s].pc = "begun" /\ Kind(s) \in {"claim", "place"}
  /\ \/ \E a \in Accounts :
          EnrolledAs(Req(s).user, a) /\ Continue(s, [session[s] EXCEPT !.pc = "found", !.account = a])
     \/ (\A a \in Accounts : ~EnrolledAs(Req(s).user, a)) /\ Deny(s)
  /\ UNCHANGED <<now, tables, revisions, lock, inputs, answers>>

\* Mutant: the account is read without its lock.
LockAccount_Reads(s) ==
  /\ session[s].pc = "found"
  /\ Continue(s, [session[s] EXCEPT !.pc = "locked", !.credit = account[session[s].account]])
  /\ UNCHANGED <<now, tables, revisions, lock, inputs, answers>>

LockAccount(s) ==
  /\ session[s].pc = "found"
  /\ LET a == session[s].account
     IN  /\ Free(<<"account", a>>)
         /\ Acquire(s, <<"account", a>>)
         /\ Continue(s, [session[s] EXCEPT !.pc = "locked", !.credit = account[a]])
  /\ UNCHANGED <<now, tables, revisions, inputs, answers>>

\* The claim of this operation is found again, or the day is already claimed, or
\* the credit is planned.
ExamineClaim(s) ==
  /\ session[s].pc = "locked" /\ Kind(s) = "claim"
  /\ LET me   == session[s]
         mine == {c \in claims : c.account = me.account}
         day  == KstDate(me.at)
     IN  \/ /\ \E c \in mine : c.op = me.op
            /\ Finish(s, "done")
         \/ /\ \A c \in mine : c.op # me.op
            /\ IF \E c \in mine : c.day = day
               THEN Deny(s)
               ELSE Continue(s, [me EXCEPT !.pc = "key", !.outcome = "done",
                      !.after = Changed(me.credit, AllocateDailyCredit(me.credit.debt))])
            /\ UNCHANGED <<lock, answers>>
  /\ UNCHANGED <<now, tables, revisions, inputs>>

\* A bet of this operation is answered again; otherwise the game is locked next.
ExamineBet(s) ==
  /\ session[s].pc = "locked" /\ Kind(s) = "place"
  /\ \/ /\ session[s].op \in BetsOf(session[s].account)
        /\ Finish(s, "done")
     \/ /\ session[s].op \notin BetsOf(session[s].account)
        /\ Continue(s, [session[s] EXCEPT !.pc = "to_game", !.game = Req(s).game])
        /\ UNCHANGED <<lock, answers>>
  /\ UNCHANGED <<now, tables, revisions, inputs>>

\* Mutant: the game is read without its lock.
LockGame_Reads(s) ==
  /\ session[s].pc = "to_game"
  /\ Continue(s, [session[s] EXCEPT !.pc = "game_locked",
                    !.revision = Len(revisions[session[s].game]),
                    !.row = Current(session[s].game)])
  /\ UNCHANGED <<now, tables, revisions, lock, inputs, answers>>

LockGame(s) ==
  /\ session[s].pc = "to_game"
  /\ Free(<<"game", session[s].game>>)
  /\ Acquire(s, <<"game", session[s].game>>)
  /\ Continue(s, [session[s] EXCEPT !.pc = "game_locked",
                    !.revision = Len(revisions[session[s].game]),
                    !.row = Current(session[s].game)])
  /\ UNCHANGED <<now, tables, revisions, inputs, answers>>

\* The placement policy on the account and the game as read under their locks.
PlanBet(s) ==
  /\ session[s].pc = "game_locked" /\ Kind(s) = "place"
  /\ LET me    == session[s]
         mine  == BetsOf(me.account)
         day   == KstDate(me.at)
         spent == SumFunction([b \in {x \in mine : bet[x].day = day /\ bet[x].status # "void"}
                                 |-> bet[b].stake])
     IN  IF /\ PlacementAccepted(me.at, me.row, me.credit.available, me.credit.debt,
                                 spent, Req(s).stake)
            /\ \A b \in mine : bet[b].game = me.game => bet[b].status # "pending"
         THEN Continue(s, [me EXCEPT !.pc = "key", !.outcome = "done",
                !.after = Changed(me.credit, [available |-> -Req(s).stake, debt |-> 0]),
                !.entry = [account |-> me.account, game |-> me.game,
                           market |-> me.row.market, prediction |-> Req(s).prediction,
                           stake |-> Req(s).stake, day |-> day,
                           status |-> "pending", revision |-> 0, returned |-> 0]])
         ELSE Deny(s)
  /\ UNCHANGED <<now, tables, revisions, lock, inputs, answers>>

-----------------------------------------------------------------------------
\* A settlement looks for itself and for the bet's owner, then locks the account.
FindOwner(s) ==
  /\ session[s].pc = "begun" /\ Kind(s) = "settle"
  /\ \/ /\ \E x \in settlements : x.op = session[s].op
        /\ Finish(s, "done")
     \/ /\ \A x \in settlements : x.op # session[s].op
        /\ IF bet[Req(s).bet] = NoBet THEN Deny(s)
           ELSE Continue(s, [session[s] EXCEPT !.pc = "found",
                               !.account = bet[Req(s).bet].account])
        /\ UNCHANGED <<lock, answers>>
  /\ UNCHANGED <<now, tables, revisions, inputs>>

\* Under the account lock a concurrent settlement of this operation is seen.
ExamineSettlement(s) ==
  /\ session[s].pc = "locked" /\ Kind(s) = "settle"
  /\ \/ /\ \E x \in settlements : x.op = session[s].op
        /\ Finish(s, "done")
     \/ /\ \A x \in settlements : x.op # session[s].op
        /\ Continue(s, [session[s] EXCEPT !.pc = "to_game", !.game = bet[Req(s).bet].game])
        /\ UNCHANGED <<lock, answers>>
  /\ UNCHANGED <<now, tables, revisions, inputs>>

\* Mutant: the revision of the last settlement is not compared.
SettlementDue_Again(last, requested, current, game) ==
  current = requested /\ Terminal(game)

SettlementDue(last, requested, current, game) ==
  current = requested /\ last < requested /\ Terminal(game)

PlanSettlement(s) ==
  /\ session[s].pc = "game_locked" /\ Kind(s) = "settle"
  /\ LET me       == session[s]
         row      == bet[Req(s).bet]
         result   == ResultOf(row.prediction, me.row)
         returned == ReturnOf(row.stake, result)
         delta    == returned - row.returned
         split    == AllocateSettlementDelta(me.credit.available, me.credit.debt, delta,
                                             row.revision = 0 /\ result = "void")
     IN  IF SettlementDue(row.revision, Req(s).revision, me.revision, me.row)
         THEN Continue(s, [me EXCEPT !.pc = "key", !.outcome = "done",
                !.after = IF delta = 0 THEN me.credit ELSE Changed(me.credit, split),
                !.entry = [row EXCEPT
                             !.status = IF result = "void" THEN "void" ELSE "settled",
                             !.revision = me.revision, !.returned = returned]])
         ELSE Deny(s)
  /\ UNCHANGED <<now, tables, revisions, lock, inputs, answers>>

-----------------------------------------------------------------------------
\* An adjustment inserts its operation id before it touches the account.
AdjustBegins(s) ==
  /\ session[s].pc = "begun" /\ Kind(s) = "adjust"
  /\ Continue(s, [session[s] EXCEPT !.pc = "key", !.outcome = "later"])
  /\ UNCHANGED <<now, tables, revisions, lock, inputs, answers>>

\* It then finds the account and its user by the statement's snapshot, and waits
\* for the account row.
FindAdjusted(s) ==
  /\ session[s].pc = "operation"
  /\ LET a == Req(s).account
     IN  Continue(s, IF enrollment[a].status = "none"
                     THEN [session[s] EXCEPT !.pc = "ready", !.outcome = "denied"]
                     ELSE [session[s] EXCEPT !.pc = "found", !.account = a,
                                             !.owner = enrollment[a].user])
  /\ UNCHANGED <<now, tables, revisions, lock, inputs, answers>>

AdjustmentAllowed(credit, owner, q) ==
  owner # q.admin /\ credit.version = q.version /\ credit.available + q.delta >= 0

\* A refused adjustment leaves its operation row accepted.
PlanAdjustment(s) ==
  /\ session[s].pc = "locked" /\ Kind(s) = "adjust"
  /\ LET me == session[s]
         q  == Req(s)
     IN  Continue(s,
           IF AdjustmentAllowed(me.credit, me.owner, q)
           THEN [me EXCEPT !.pc = "ready", !.outcome = "done",
                           !.after = Changed(me.credit, [available |-> q.delta, debt |-> 0])]
           ELSE [me EXCEPT !.pc = "ready", !.outcome = "denied"])
  /\ UNCHANGED <<now, tables, revisions, lock, inputs, answers>>

LockUser(s) ==
  /\ session[s].pc = "begun" /\ Kind(s) = "enroll"
  /\ Free(<<"user", Req(s).user>>)
  /\ Acquire(s, <<"user", Req(s).user>>)
  /\ Continue(s, [session[s] EXCEPT !.pc = "user_locked"])
  /\ UNCHANGED <<now, tables, revisions, inputs, answers>>

PlanEnrollment(s) ==
  /\ session[s].pc = "user_locked"
  /\ IF \E a \in Accounts : EnrolledAs(Req(s).user, a)
     THEN Deny(s)
     ELSE \E a \in Accounts :
            /\ enrollment[a].status = "none"
            /\ \A t \in Sessions : session[t].opens # a
            /\ Continue(s, [session[s] EXCEPT !.pc = "key", !.opens = a, !.outcome = "done"])
  /\ UNCHANGED <<now, tables, revisions, lock, inputs, answers>>

\* A departure finds the user's active enrollment, waits for its row and looks
\* at its status again.
FindEnrollment(s) ==
  /\ session[s].pc = "begun" /\ Kind(s) = "depart"
  /\ \/ \E a \in Accounts :
          /\ EnrolledAs(Req(s).user, a)
          /\ Continue(s, [session[s] EXCEPT !.pc = "leaving", !.account = a])
          /\ UNCHANGED <<lock, answers>>
     \/ (\A a \in Accounts : ~EnrolledAs(Req(s).user, a)) /\ Finish(s, "nothing")
  /\ UNCHANGED <<now, tables, revisions, inputs>>

LockEnrollment(s) ==
  /\ session[s].pc = "leaving"
  /\ LET a == session[s].account
     IN  /\ Free(<<"enrollment", a>>)
         /\ IF enrollment[a].status = "active"
            THEN /\ Acquire(s, <<"enrollment", a>>)
                 /\ Continue(s, [session[s] EXCEPT !.pc = "key", !.outcome = "done"])
                 /\ UNCHANGED answers
            ELSE Finish(s, "nothing")
  /\ UNCHANGED <<now, tables, revisions, inputs>>

-----------------------------------------------------------------------------
\* Mutant: a repeated operation is taken to have succeeded.
RepeatedAnswer_Done(s) == IF session[s].pc = "key" THEN "done" ELSE "error"

\* What a transaction answers when its operation id is already committed: the
\* effect it finds under it, or that it is a duplicate.  A departure's insert has
\* no conflict clause and fails.
RepeatedAnswer(s) ==
  LET o == session[s].op
      planned == session[s].outcome = "done"
  IN  IF Kind(s) = "depart" THEN "error"
      ELSE IF /\ planned
              /\ \/ Kind(s) = "claim" /\ \E c \in claims : c.op = o /\ c.account = session[s].account
                 \/ Kind(s) = "place" /\ o \in BetsOf(session[s].account)
                 \/ Kind(s) = "settle" /\ \E x \in settlements : x.op = o
           THEN "done" ELSE "duplicate"

\* Insert the operation id: waits for a transaction that inserted it and has not
\* ended, then either finds it committed or owns it.
TakeOperation(s) ==
  /\ session[s].pc = "key"
  /\ LET o == session[s].op
     IN  /\ Free(<<"op", o>>)
         /\ IF operation[o] # "unused"
            THEN Finish(s, RepeatedAnswer(s))
            ELSE /\ Acquire(s, <<"op", o>>)
                 /\ Continue(s, [session[s] EXCEPT
                      !.pc = IF Kind(s) = "adjust" THEN "operation" ELSE "ready"])
                 /\ UNCHANGED answers
  /\ UNCHANGED <<now, tables, revisions, inputs>>

CommitDenied(s) ==
  /\ session[s].pc = "ready" /\ session[s].outcome = "denied"
  /\ operation' = [operation EXCEPT ![session[s].op] =
                     IF Kind(s) = "adjust" THEN "accepted" ELSE "denied"]
  /\ Finish(s, "denied")
  /\ UNCHANGED <<now, enrollment, account, claims, bet, settlements, adjusted,
                 revisions, inputs>>

\* The table's unique (account, game, market).
MarketTaken(row) ==
  \E b \in BetsOf(row.account) : bet[b].game = row.game /\ bet[b].market = row.market

\* The commit; its answer is lost when the connection breaks right after it.
CommitDone(s) ==
  /\ session[s].pc = "ready" /\ session[s].outcome = "done"
  /\ LET me == session[s]
         o  == me.op
         accepted == operation' = [operation EXCEPT ![o] = "accepted"]
         written  == account' = [account EXCEPT ![me.account] = me.after]
     IN  \/ /\ Kind(s) = "claim" /\ accepted /\ written
            /\ claims' = claims \cup {[account |-> me.account, day |-> KstDate(me.at), op |-> o]}
            /\ UNCHANGED <<enrollment, bet, settlements, adjusted>>
         \/ /\ Kind(s) = "place" /\ ~MarketTaken(me.entry) /\ accepted /\ written
            /\ bet' = [bet EXCEPT ![o] = me.entry]
            /\ UNCHANGED <<enrollment, claims, settlements, adjusted>>
         \/ /\ Kind(s) = "settle" /\ accepted /\ written
            /\ bet' = [bet EXCEPT ![Req(s).bet] = me.entry]
            /\ settlements' = settlements \cup
                 {[op |-> o, bet |-> Req(s).bet, revision |-> me.revision]}
            /\ UNCHANGED <<enrollment, claims, adjusted>>
         \/ /\ Kind(s) = "adjust" /\ accepted /\ written
            /\ adjusted' = adjusted \cup {o}
            /\ UNCHANGED <<enrollment, claims, bet, settlements>>
         \/ /\ Kind(s) = "enroll" /\ accepted
            /\ enrollment' = [enrollment EXCEPT ![me.opens] =
                                [status |-> "active", user |-> Req(s).user]]
            /\ account' = [account EXCEPT ![me.opens] = Empty]
            /\ UNCHANGED <<claims, bet, settlements, adjusted>>
         \/ /\ Kind(s) = "depart" /\ accepted
            /\ enrollment' = [enrollment EXCEPT ![me.account] =
                                [status |-> "departed", user |-> Nobody]]
            /\ UNCHANGED <<account, claims, bet, settlements, adjusted>>
  /\ \E answer \in {"done", "error"} : Finish(s, answer)
  /\ UNCHANGED <<now, revisions, inputs>>

\* The bet insert violates the market's unique key: the transaction rolls back.
FailBet(s) ==
  /\ session[s].pc = "ready" /\ session[s].outcome = "done"
  /\ Kind(s) = "place" /\ MarketTaken(session[s].entry)
  /\ Finish(s, "error")
  /\ UNCHANGED <<now, tables, revisions, inputs>>

-----------------------------------------------------------------------------
\* The statements of the transaction a session runs, up to its end.
Statement(s) ==
  \/ FindAccount(s) \/ LockAccount(s) \/ ExamineClaim(s) \/ ExamineBet(s)
  \/ LockGame(s) \/ PlanBet(s)
  \/ FindOwner(s) \/ ExamineSettlement(s) \/ PlanSettlement(s)
  \/ AdjustBegins(s) \/ FindAdjusted(s) \/ PlanAdjustment(s)
  \/ LockUser(s) \/ PlanEnrollment(s)
  \/ FindEnrollment(s) \/ LockEnrollment(s)
  \/ TakeOperation(s) \/ CommitDenied(s) \/ CommitDone(s) \/ FailBet(s)

Next ==
  \/ Tick
  \/ \E g \in Games, c \in Feed : GameRevised(g, c)
  \/ \E s \in Sessions : Statement(s) \/ Abort(s) \/ \E o \in DOMAIN request : Deliver(s, o)

\* PostgreSQL and the event loop run every statement that is not waiting.
Fairness == \A s \in Sessions : WF_vars(Statement(s))

Spec == Init /\ [][Next]_vars /\ Fairness

-----------------------------------------------------------------------------
Steps == {"idle", "begun", "found", "locked", "to_game", "game_locked", "key",
          "operation", "ready", "user_locked", "leaving"}
Credits == [available : Nat, debt : Nat, version : Nat]
Runs == [pc : Steps, op : Ops \cup {Nobody}, at : Int, account : Accounts \cup {Nobody},
         owner : Users \cup {Nobody}, credit : Credits, game : Games \cup {Nobody},
         row : Revisions \cup {Nobody}, revision : Nat, opens : Accounts \cup {Nobody},
         outcome : {"none", "later", "denied", "done"}, after : Credits,
         entry : Bets \cup {NoBet}]

\* Types of the committed tables, of the locks and of what the sessions keep.
TypeOK ==
  /\ enrollment \in [Accounts -> [status : {"none", "active", "departed"},
                                  user : Users \cup {Nobody}]]
  /\ now \in Int
  /\ account \in [Accounts -> Credits]
  /\ claims \subseteq [account : Accounts, day : Int, op : Ops \cup {Nobody}]
  /\ bet \in [Ops -> Bets \cup {NoBet}]
  /\ settlements \subseteq [op : Ops, bet : Ops, revision : Nat]
  /\ adjusted \subseteq Ops
  /\ operation \in [Ops -> {"unused", "accepted", "denied"}]
  /\ revisions \in [Games -> Seq(Revisions) \ {<<>>}]
  /\ session \in [Sessions -> Runs]
  /\ request \in Requests
  /\ answers \in [Ops -> SUBSET {"done", "denied", "duplicate", "nothing", "error"}]
  /\ lock \in [Resources -> Sessions \cup {Nobody}]

\* No update is lost: whatever sessions ran at once, an account is worth its
\* grants, plus what administrators posted, plus what its bets have returned,
\* less their stakes, and neither part of it is ever negative.
NoLostUpdate ==
  TypeOK /\ \A a \in Accounts :
    account[a].available - account[a].debt =
        DailyCredit * Cardinality({c \in claims : c.account = a})
      + SumFunction([o \in {p \in adjusted : request[p].account = a} |-> request[o].delta])
      + SumFunction([b \in BetsOf(a) |-> bet[b].returned - bet[b].stake])

\* A day is granted once per account and a claim's operation pays once, however
\* many sessions run claims and however often one is delivered.
GrantedOnce ==
  \A c, d \in claims :
    (\/ c.account = d.account /\ c.day = d.day
     \/ c.op = d.op /\ c.op # Nobody) => c = d

\* An account never has two open bets on a game, nor two bets on one market.
OneBetPerMarket ==
  \A a \in Accounts : \A b, c \in BetsOf(a) :
    bet[b].game = bet[c].game /\
      (bet[b].market = bet[c].market \/ {bet[b].status, bet[c].status} = {"pending"})
        => b = c

\* A bet is settled at most once per revision and by an operation at most once.
SettledOnce ==
  \A x, y \in settlements :
    x.op = y.op \/ (x.bet = y.bet /\ x.revision = y.revision) => x = y

\* Two sessions that enrol a user at once leave one active account.
OneActiveAccount ==
  \A a, c \in Accounts, u \in Users : EnrolledAs(u, a) /\ EnrolledAs(u, c) => a = c

\* Nothing happens twice, however many sessions run the same request at once and
\* however often it is delivered.
AtMostOnce == GrantedOnce /\ OneActiveAccount /\ OneBetPerMarket /\ SettledOnce

\* What the tables show of an operation that took effect.
Effective(o) ==
  LET kind == request[o].kind
  IN  CASE kind = "claim"  -> \E c \in claims : c.op = o
        [] kind = "place"  -> bet[o] # NoBet
        [] kind = "settle" -> \E x \in settlements : x.op = o
        [] kind = "adjust" -> o \in adjusted
        [] OTHER           -> operation[o] = "accepted"

\* The answers to the deliveries of one request never contradict the tables or
\* each other: done means its effect is committed, denied means it never will be,
\* duplicate means the operation was decided before.
AnswersAgree ==
  \A o \in Ops :
    /\ "done" \in answers[o] => Effective(o)
    /\ "denied" \in answers[o] => operation[o] # "unused" /\ ~Effective(o)
    /\ "duplicate" \in answers[o] => operation[o] # "unused"

\* When a bet commits, the game is still scheduled in the market
\* it was taken in, its owner has no debt and the stake is covered and within the
\* limit of its day, although all of this was read earlier in the transaction.
BetsMeetTheRules ==
  \A b \in Ops : bet[b] = NoBet /\ bet'[b] # NoBet =>
    LET new == bet'[b]
        spent == SumFunction([y \in {x \in BetsOf(new.account) :
                                         bet[x].day = new.day /\ bet[x].status # "void"}
                                |-> bet[y].stake])
    IN  /\ Current(new.game).status = "scheduled"
        /\ Current(new.game).market = new.market
        /\ account[new.account].debt = 0
        /\ account[new.account].available >= new.stake
        /\ spent + new.stake <= DailyStakeLimit

\* A settlement commits on the revision that is the game's
\* current one at that moment, and pays what that revision says.
SettlesCurrentResult ==
  \A x \in settlements' \ settlements :
    LET row == bet'[x.bet]
    IN  /\ x.revision = Len(revisions[row.game])
        /\ Terminal(Current(row.game))
        /\ row.returned = ReturnOf(row.stake, ResultOf(row.prediction, Current(row.game)))

\* The account is the user's, or was somebody's who has departed.
BelongsTo(u, a) == EnrolledAs(u, a) \/ enrollment[a].status = "departed"

\* The bets and the claims that commit are on accounts of the users who asked for them:
\* an account that a statement found is never another member's when the transaction ends.
OnOwnAccounts ==
  /\ \A b \in Ops : bet[b] = NoBet /\ bet'[b] # NoBet => BelongsTo(request[b].user, bet'[b].account)
  /\ \A c \in claims' \ claims : BelongsTo(request[c.op].user, c.account)

\* Action property: what a bet, a claim or a settlement was checked against in earlier
\* statements still holds when its transaction commits, except that a member may have
\* departed.
CommitsMeetTheRules == [][BetsMeetTheRules /\ SettlesCurrentResult /\ OnOwnAccounts]_vars

\* Of the transactions that have begun one can always go on, and nobody else holds a lock:
\* no order in which the stores take account rows, game rows and operation ids leaves them
\* waiting for each other, and none ends without releasing what others wait for.  (The
\* statements of a transaction are finitely many: so every one ends.)
SomeTransactionGoesOn ==
  LET open == {s \in Sessions : session[s] # Idle}
  IN  /\ open # {} => \E s \in open : ENABLED Statement(s)
      /\ \A r \in Resources : lock[r] \in open \cup {Nobody}

\* The committed tables as accounts under the credit contract.
Contract == INSTANCE CreditContract WITH
  Positions  <- Ops,
  NoPosition <- NoBet,
  open       <- {a \in Accounts : enrollment[a].status # "none"},
  credit     <- [a \in Accounts |-> [available |-> account[a].available,
                                     debt      |-> account[a].debt]],
  granted    <- [a \in Accounts |-> {c.day : c \in {x \in claims : x.account = a}}],
  position   <- [o \in Ops |->
                   IF bet[o] = NoBet THEN NoBet
                   ELSE [account  |-> bet[o].account,
                         stake    |-> bet[o].stake,
                         returned |-> IF bet[o].status = "pending" THEN -1
                                      ELSE bet[o].returned]]

\* Refinement of the steps: every statement of every interleaving is a step of the
\* credit contract or leaves what it talks about alone.
CommitsKeepContract == [][Contract!Next]_(Contract!vars)

\* Action property, after ADR-0029 "lock account and game, then verify again that
\* the enrollment is active".  The stores read the enrollment in the statement
\* that waits for the account row and lock only the account.
BetsComeFromMembers ==
  [][\A b \in Ops : bet[b] = NoBet /\ bet'[b] # NoBet =>
       enrollment[bet'[b].account].status = "active"]_vars
=============================================================================
