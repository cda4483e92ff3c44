------------------------ MODULE KboTransactionsProofs ------------------------
(***************************************************************************)
(* What KboTransactions does for any users, accounts, games, requests,     *)
(* connections and bounds, whatever their statements interleave: no update *)
(* is lost, nothing happens twice, the answers agree with the tables, what *)
(* a transaction checked still holds when it commits, a bet or a claim is  *)
(* on its user's own account or one left meanwhile, every step keeps the   *)
(* credit contract, and nobody waits in a ring.                            *)
(*                                                                         *)
(* The invariant says of each session what it has locked and what it has   *)
(* read or decided, which is still true because whoever writes a row has   *)
(* locked it.                                                              *)
(***************************************************************************)
EXTENDS KboTransactions, SumTheorems, TLAPS

\* A session has decided on a row to write, and holds what it decided on.
Planned(t) == session[t].pc \in {"key", "ready"} /\ session[t].outcome = "done"

\* The locks a session has at each of its statements.
OnAccount(t) ==
  \/ session[t].pc \in {"locked", "to_game", "game_locked"}
  \/ Planned(t) /\ Kind(t) \in {"claim", "place", "settle", "adjust"}
OnGame(t) == session[t].pc = "game_locked" \/ (Planned(t) /\ Kind(t) \in {"place", "settle"})
OnOperation(t) ==
  \/ session[t].pc \in {"operation", "ready"}
  \/ session[t].pc \in {"found", "locked"} /\ Kind(t) = "adjust"
OnUser(t) == (session[t].pc = "user_locked" \/ Planned(t)) /\ Kind(t) = "enroll"
OnEnrollment(t) == Planned(t) /\ Kind(t) = "depart"

\* Which requests reach which statements.
RunsAs(t) ==
  LET m == session[t]
  IN  /\ m.pc # "idle" => m.op \in DOMAIN request
      /\ m.pc = "idle" => m = Idle
      /\ m.pc \in {"found", "locked"} => Kind(t) \in {"claim", "place", "settle", "adjust"}
      /\ m.pc \in {"to_game", "game_locked"} => Kind(t) \in {"place", "settle"}
      /\ m.pc = "operation" => Kind(t) = "adjust"
      /\ m.pc = "user_locked" => Kind(t) = "enroll"
      /\ m.pc = "leaving" => Kind(t) = "depart"
      /\ m.pc = "key" /\ Kind(t) = "adjust" => m.outcome = "later"

\* What it has found stays where it is.
Found(t) ==
  LET m == session[t]
  IN  /\ m.pc \in {"found", "leaving"} \/ OnAccount(t) \/ OnEnrollment(t) =>
           m.account \in Accounts /\ enrollment[m.account].status # "none"
      /\ (m.pc = "found" \/ OnAccount(t)) /\ Kind(t) = "settle" =>
           bet[Req(t).bet] # NoBet /\ m.account = bet[Req(t).bet].account
      /\ (m.pc = "found" \/ OnAccount(t)) /\ Kind(t) = "adjust" => m.account = Req(t).account
      /\ m.pc = "to_game" \/ OnGame(t) => m.game \in Games
      /\ (m.pc = "to_game" \/ OnGame(t)) /\ Kind(t) = "settle" => m.game = bet[Req(t).bet].game

\* What it holds a lock on is as it read it.
Holds(t) ==
  LET m == session[t]
  IN  /\ OnAccount(t) => lock[<<"account", m.account>>] = t /\ m.credit = account[m.account]
      /\ OnGame(t) => /\ lock[<<"game", m.game>>] = t
                      /\ m.row = Current(m.game) /\ m.revision = Len(revisions[m.game])
      /\ OnOperation(t) => lock[<<"op", m.op>>] = t /\ operation[m.op] = "unused"
      /\ OnUser(t) => lock[<<"user", Req(t).user>>] = t
      /\ OnEnrollment(t) =>
           lock[<<"enrollment", m.account>>] = t /\ enrollment[m.account].status = "active"

\* What an account has staked on a day, in bets that are not void now.
Spent(a, day) ==
  SumFunction([b \in {x \in BetsOf(a) : bet[x].day = day /\ bet[x].status # "void"} |-> bet[b].stake])

ClaimPlanned(t) ==
  LET m == session[t]
  IN  /\ m.after = Changed(m.credit, AllocateDailyCredit(m.credit.debt))
      /\ \A c \in claims : c.account = m.account => c.day # KstDate(m.at)

BetPlanned(t) ==
  LET m == session[t]
  IN  /\ PlacementAccepted(m.at, m.row, m.credit.available, m.credit.debt,
                           Spent(m.account, KstDate(m.at)), Req(t).stake)
      /\ \A b \in BetsOf(m.account) : bet[b].game = m.game => bet[b].status # "pending"
      /\ m.after = Changed(m.credit, [available |-> -Req(t).stake, debt |-> 0])
      /\ m.entry = [account |-> m.account, game |-> m.game, market |-> m.row.market,
                    prediction |-> Req(t).prediction, stake |-> Req(t).stake,
                    day |-> KstDate(m.at), status |-> "pending", revision |-> 0, returned |-> 0]

\* A settlement of a row under a revision, from a credit.
Settled(row, m) ==
  LET result   == ResultOf(row.prediction, m.row)
      returned == ReturnOf(row.stake, result)
      delta    == returned - row.returned
      split    == AllocateSettlementDelta(m.credit.available, m.credit.debt, delta,
                                          row.revision = 0 /\ result = "void")
  IN  /\ m.after = IF delta = 0 THEN m.credit ELSE Changed(m.credit, split)
      /\ m.entry = [row EXCEPT !.status = IF result = "void" THEN "void" ELSE "settled",
                               !.revision = m.revision, !.returned = returned]

SettlementPlanned(t) ==
  LET m   == session[t]
      row == bet[Req(t).bet]
  IN  SettlementDue(row.revision, Req(t).revision, m.revision, m.row) /\ Settled(row, m)

AdjustmentPlanned(t) ==
  LET m == session[t]
  IN  /\ m.credit.available + Req(t).delta >= 0
      /\ m.after = Changed(m.credit, [available |-> Req(t).delta, debt |-> 0])

EnrollmentPlanned(t) ==
  LET m == session[t]
  IN  /\ m.opens \in Accounts /\ enrollment[m.opens].status = "none"
      /\ \A a \in Accounts : ~EnrolledAs(Req(t).user, a)

\* What it decided is still what the rules say.
Decided(t) ==
  Planned(t) =>
    /\ Kind(t) = "claim" => ClaimPlanned(t)
    /\ Kind(t) = "place" => BetPlanned(t)
    /\ Kind(t) = "settle" => SettlementPlanned(t)
    /\ Kind(t) = "adjust" => AdjustmentPlanned(t)
    /\ Kind(t) = "enroll" => EnrollmentPlanned(t)

\* The id of an account to open is with one session.
Opens(t) ==
  session[t].opens # Nobody =>
    /\ Planned(t) /\ Kind(t) = "enroll"
    /\ \A u \in Sessions : session[u].opens = session[t].opens => u = t

Good(t) == RunsAs(t) /\ Found(t) /\ Holds(t) /\ Decided(t) /\ Opens(t)

\* A row names an operation of its kind that was accepted.
Made(o, kind) == o \in DOMAIN request /\ request[o].kind = kind /\ operation[o] = "accepted"

\* What the tables say of one another.
Rows ==
  /\ \A c \in claims : c.op # Nobody => Made(c.op, "claim")
  /\ \A b \in Ops : bet[b] # NoBet =>
       /\ Made(b, "place")
       /\ bet[b].status = "pending" <=> bet[b].revision = 0
       /\ bet[b].revision = 0 => bet[b].returned = 0
  /\ \A x \in settlements :
       Made(x.op, "settle") /\ bet[x.bet] # NoBet /\ x.revision <= bet[x.bet].revision
  /\ \A o \in adjusted : Made(o, "adjust")
  /\ \A a \in Accounts : enrollment[a].status = "none" =>
       /\ account[a] = Empty /\ BetsOf(a) = {}
       /\ \A c \in claims : c.account # a
       /\ \A o \in adjusted : request[o].account # a

Serial == TypeOK /\ Rows /\ \A t \in Sessions : Good(t)

-----------------------------------------------------------------------------
\* What a session writes it has locked; the clock and the feed are Nobody's steps.
Respects(s) ==
  /\ request' = request
  /\ \A r \in Resources : lock[r] \notin {s, Nobody} => lock'[r] = lock[r]
  /\ \A t \in Sessions : t # s => session'[t] = session[t]
  /\ s \in Sessions =>
       \/ session'[s].opens \in {session[s].opens, Nobody}
       \/ \A t \in Sessions : session[t].opens # session'[s].opens
  /\ \A g \in Games : lock[<<"game", g>>] # Nobody => revisions'[g] = revisions[g]
  /\ \A o \in Ops : lock[<<"op", o>>] # s => operation'[o] = operation[o]
  /\ \A a \in Accounts : enrollment[a].status # "none" /\ lock[<<"account", a>>] # s =>
       /\ account'[a] = account[a]
       /\ \A c \in claims' : c.account = a => c \in claims
       /\ BetsOf(a)' = BetsOf(a) /\ \A b \in BetsOf(a) : bet'[b] = bet[b]
  /\ \A b \in Ops : bet[b] # NoBet =>
       bet'[b] # NoBet /\ bet'[b].account = bet[b].account /\ bet'[b].game = bet[b].game
  /\ \A a \in Accounts :
       \/ enrollment'[a] = enrollment[a]
       \/ /\ enrollment[a].status = "none" /\ enrollment'[a].status = "active"
          /\ s \in Sessions /\ session[s].opens = a
          /\ enrollment'[a].user \in Users /\ lock[<<"user", enrollment'[a].user>>] = s
       \/ /\ enrollment[a].status = "active" /\ enrollment'[a].status = "departed"
          /\ lock[<<"enrollment", a>>] = s

\* What the state predicates of a session say of it when the step leaves its record.
LEMMA OthersFound ==
  ASSUME Serial, NEW s, Respects(s), NEW t \in Sessions, t # s
  PROVE  RunsAs(t)' /\ Found(t)'
  <1>1. session'[t] = session[t] /\ request' = request
    BY DEF Respects
  <1>2. RunsAs(t) /\ Found(t)
    BY DEF Serial, Good
  <1>3. RunsAs(t)'
    BY <1>1, <1>2 DEF RunsAs, Kind
  <1>4. \A a \in Accounts : enrollment[a].status # "none" => enrollment'[a].status # "none"
    BY DEF Respects
  <1>5. \A b \in Ops : bet[b] # NoBet =>
          bet'[b] # NoBet /\ bet'[b].account = bet[b].account /\ bet'[b].game = bet[b].game
    BY DEF Respects
  <1>6. /\ OnAccount(t)' <=> OnAccount(t)
        /\ OnGame(t)' <=> OnGame(t)
        /\ OnEnrollment(t)' <=> OnEnrollment(t)
        /\ Kind(t)' = Kind(t) /\ Req(t)' = Req(t)
    BY <1>1 DEF OnAccount, OnGame, OnEnrollment, Planned, Kind, Req
  <1>7. Kind(t) = "settle" /\ session[t].pc # "idle" => Req(t).bet \in Ops
    BY <1>2, TransactionConstants DEF Serial, TypeOK, RunsAs, Kind, Req, WellFormed
  <1> QED
    BY <1>1, <1>2, <1>3, <1>4, <1>5, <1>6, <1>7 DEF Found, OnAccount, OnGame, Planned

\* Nobody else writes what a session holds.
LEMMA OthersHold ==
  ASSUME Serial, NEW s, Respects(s), NEW t \in Sessions, t # s
  PROVE  Holds(t)'
  <1>1. session'[t] = session[t] /\ request' = request
    BY DEF Respects
  <1>2. RunsAs(t) /\ Found(t) /\ Holds(t) /\ t # Nobody
    BY TransactionConstants DEF Serial, Good
  <1>3. /\ OnAccount(t)' <=> OnAccount(t)
        /\ OnGame(t)' <=> OnGame(t)
        /\ OnOperation(t)' <=> OnOperation(t)
        /\ OnUser(t)' <=> OnUser(t)
        /\ OnEnrollment(t)' <=> OnEnrollment(t)
        /\ Req(t)' = Req(t)
    BY <1>1 DEF OnAccount, OnGame, OnOperation, OnUser, OnEnrollment, Planned, Kind, Req
  <1>4. \A r \in Resources : lock[r] = t => lock'[r] = t
    BY <1>2 DEF Respects
  <1>5. ASSUME OnAccount(t)
        PROVE  /\ lock'[<<"account", session[t].account>>] = t
               /\ session[t].credit = account'[session[t].account]
    <2>1. /\ session[t].account \in Accounts
          /\ enrollment[session[t].account].status # "none"
          /\ lock[<<"account", session[t].account>>] = t
          /\ session[t].credit = account[session[t].account]
      BY <1>2, <1>5 DEF Found, Holds
    <2>2. account'[session[t].account] = account[session[t].account]
      BY <2>1 DEF Respects
    <2>3. <<"account", session[t].account>> \in Resources
      BY <2>1 DEF Resources
    <2> QED
      BY <1>4, <2>1, <2>2, <2>3
  <1>6. ASSUME OnGame(t)
        PROVE  /\ lock'[<<"game", session[t].game>>] = t
               /\ session[t].row = Current(session[t].game)'
               /\ session[t].revision = Len(revisions'[session[t].game])
    <2>1. /\ session[t].game \in Games
          /\ lock[<<"game", session[t].game>>] = t
          /\ session[t].row = Current(session[t].game)
          /\ session[t].revision = Len(revisions[session[t].game])
      BY <1>2, <1>6 DEF Found, Holds
    <2>2. revisions'[session[t].game] = revisions[session[t].game]
      BY <1>2, <2>1 DEF Respects
    <2>3. <<"game", session[t].game>> \in Resources
      BY <2>1 DEF Resources
    <2>4. Current(session[t].game)' = Current(session[t].game)
      BY <1>1, <2>2 DEF Current
    <2> QED
      BY <1>4, <2>1, <2>2, <2>3, <2>4
  <1>7. ASSUME OnOperation(t)
        PROVE  lock'[<<"op", session[t].op>>] = t /\ operation'[session[t].op] = "unused"
    <2>1. /\ session[t].op \in Ops
          /\ lock[<<"op", session[t].op>>] = t /\ operation[session[t].op] = "unused"
      BY <1>2, <1>7, TransactionConstants DEF Holds, RunsAs, OnOperation, Serial, TypeOK
    <2>2. <<"op", session[t].op>> \in Resources
      BY <2>1 DEF Resources
    <2>3. operation'[session[t].op] = operation[session[t].op]
      BY <2>1 DEF Respects
    <2> QED
      BY <1>4, <2>1, <2>2, <2>3
  <1>8. ASSUME OnUser(t)
        PROVE  lock'[<<"user", Req(t).user>>] = t
    <2>1. Req(t).user \in Users
      BY <1>2, <1>8, TransactionConstants
      DEF RunsAs, OnUser, Planned, Serial, TypeOK, Req, Kind, WellFormed
    <2>2. <<"user", Req(t).user>> \in Resources /\ lock[<<"user", Req(t).user>>] = t
      BY <1>2, <1>8, <2>1 DEF Resources, Holds
    <2> QED
      BY <1>4, <2>2
  <1>9. ASSUME OnEnrollment(t)
        PROVE  /\ lock'[<<"enrollment", session[t].account>>] = t
               /\ enrollment'[session[t].account].status = "active"
    <2>1. /\ session[t].account \in Accounts
          /\ lock[<<"enrollment", session[t].account>>] = t
          /\ enrollment[session[t].account].status = "active"
      BY <1>2, <1>9 DEF Found, Holds
    <2>2. <<"enrollment", session[t].account>> \in Resources
      BY <2>1 DEF Resources
    <2>3. enrollment'[session[t].account] = enrollment[session[t].account]
      BY <2>1 DEF Respects
    <2> QED
      BY <1>4, <2>1, <2>2, <2>3
  <1> QED
    BY <1>1, <1>3, <1>5, <1>6, <1>7, <1>8, <1>9 DEF Holds

\* The bets of an account nobody else may write, and what they have staked, stay.
LEMMA SpentKept ==
  ASSUME NEW a, BetsOf(a)' = BetsOf(a), \A b \in BetsOf(a) : bet'[b] = bet[b], NEW day
  PROVE  Spent(a, day)' = Spent(a, day)
  <1>1. {x \in BetsOf(a)' : bet'[x].day = day /\ bet'[x].status # "void"}
          = {x \in BetsOf(a) : bet[x].day = day /\ bet[x].status # "void"}
    OBVIOUS
  <1>2. [b \in {x \in BetsOf(a)' : bet'[x].day = day /\ bet'[x].status # "void"} |-> bet'[b].stake]
          = [b \in {x \in BetsOf(a) : bet[x].day = day /\ bet[x].status # "void"} |-> bet[b].stake]
    BY <1>1
  <1> QED
    BY <1>2 DEF Spent

\* What a session has decided stays right, whoever else commits.
LEMMA OthersDecided ==
  ASSUME Serial, NEW s, Respects(s), NEW t \in Sessions, t # s
  PROVE  Decided(t)'
  <1>1. session'[t] = session[t] /\ request' = request
    BY DEF Respects
  <1>2. RunsAs(t) /\ Found(t) /\ Holds(t) /\ Decided(t) /\ Opens(t) /\ t # Nobody
    BY TransactionConstants DEF Serial, Good
  <1>3. Kind(t)' = Kind(t) /\ Req(t)' = Req(t) /\ (Planned(t)' <=> Planned(t))
    BY <1>1 DEF Planned, Kind, Req
  <1> SUFFICES ASSUME Planned(t) PROVE Decided(t)'
    BY <1>3 DEF Decided
  <1> DEFINE m == session[t]
  <1>4. ASSUME Kind(t) \in {"claim", "place", "settle", "adjust"}
        PROVE  /\ m.account \in Accounts
               /\ \A c \in claims' : c.account = m.account => c \in claims
               /\ BetsOf(m.account)' = BetsOf(m.account)
               /\ \A b \in BetsOf(m.account) : bet'[b] = bet[b]
    <2>1. OnAccount(t)
      BY <1>4 DEF OnAccount
    <2>2. /\ m.account \in Accounts /\ enrollment[m.account].status # "none"
          /\ lock[<<"account", m.account>>] = t
      BY <1>2, <2>1 DEF Found, Holds
    <2> QED
      BY <2>2 DEF Respects
  <1>5. CASE Kind(t) = "claim"
    <2>1. ClaimPlanned(t)
      BY <1>2, <1>5 DEF Decided
    <2>2. ClaimPlanned(t)'
      BY <1>1, <1>4, <1>5, <2>1 DEF ClaimPlanned
    <2> QED
      BY <1>3, <1>5, <2>2 DEF Decided
  <1>6. CASE Kind(t) = "place"
    <2>1. BetPlanned(t)
      BY <1>2, <1>6 DEF Decided
    <2>2. Spent(m.account, KstDate(m.at))' = Spent(m.account, KstDate(m.at))
      <3>1. PICK a : a = m.account
        OBVIOUS
      <3>2. PICK day : day = KstDate(m.at)
        OBVIOUS
      <3>3. BetsOf(a)' = BetsOf(a) /\ \A b \in BetsOf(a) : bet'[b] = bet[b]
        BY <1>1, <1>4, <1>6, <3>1 DEF BetsOf
      <3>4. Spent(a, day)' = Spent(a, day)
        BY <3>3, SpentKept
      <3> QED
        BY <1>1, <3>1, <3>2, <3>4 DEF Spent, BetsOf
    <2>3. BetPlanned(t)'
      BY <1>1, <1>3, <1>4, <1>6, <2>1, <2>2 DEF BetPlanned
    <2> QED
      BY <1>3, <1>6, <2>3 DEF Decided
  <1>7. CASE Kind(t) = "settle"
    <2>1. SettlementPlanned(t)
      BY <1>2, <1>7 DEF Decided
    <2>2. Req(t).bet \in Ops
      BY <1>2, <1>7, TransactionConstants
      DEF Planned, Serial, TypeOK, RunsAs, Kind, Req, WellFormed
    <2>3. Req(t).bet \in BetsOf(m.account)
      BY <1>2, <1>7, <2>2 DEF Found, OnAccount, BetsOf
    <2>4. bet'[Req(t).bet] = bet[Req(t).bet]
      BY <1>4, <1>7, <2>3
    <2>5. SettlementPlanned(t)'
      BY <1>1, <1>3, <2>1, <2>4 DEF SettlementPlanned
    <2> QED
      BY <1>3, <1>7, <2>5 DEF Decided
  <1>8. CASE Kind(t) = "adjust"
    <2>1. AdjustmentPlanned(t)'
      BY <1>1, <1>2, <1>3, <1>8 DEF Decided, AdjustmentPlanned
    <2> QED
      BY <1>3, <1>8, <2>1 DEF Decided
  <1>9. CASE Kind(t) = "enroll"
    <2>1. EnrollmentPlanned(t) /\ lock[<<"user", Req(t).user>>] = t
      BY <1>2, <1>9 DEF Decided, Holds, OnUser
    <2>2. enrollment'[m.opens] = enrollment[m.opens]
      <3>1. m.opens \in Accounts /\ enrollment[m.opens].status = "none" /\ m.opens # Nobody
        BY <2>1, TransactionConstants DEF EnrollmentPlanned
      <3>2. s \in Sessions => session[s].opens # m.opens
        BY <1>2, <3>1 DEF Opens
      <3> QED
        BY <3>1, <3>2 DEF Respects
    <2>3. \A a \in Accounts : ~(enrollment'[a].status = "active" /\ enrollment'[a].user = Req(t).user)
      <3> TAKE a \in Accounts
      <3>1. ~(enrollment[a].status = "active" /\ enrollment[a].user = Req(t).user)
        BY <2>1 DEF EnrollmentPlanned, EnrolledAs
      <3>2. \/ enrollment'[a] = enrollment[a]
            \/ lock[<<"user", enrollment'[a].user>>] = s
            \/ enrollment'[a].status = "departed"
        BY DEF Respects
      <3> QED
        BY <2>1, <3>1, <3>2
    <2>4. EnrollmentPlanned(t)'
      BY <1>1, <1>3, <2>1, <2>2, <2>3 DEF EnrollmentPlanned, EnrolledAs
    <2> QED
      BY <1>3, <1>9, <2>4 DEF Decided
  <1>10. CASE Kind(t) \notin {"claim", "place", "settle", "adjust", "enroll"}
    BY <1>3, <1>10 DEF Decided
  <1> QED
    BY <1>5, <1>6, <1>7, <1>8, <1>9, <1>10

\* No other session takes the account id a session is about to open.
LEMMA OthersOpen ==
  ASSUME Serial, NEW s, Respects(s), NEW t \in Sessions, t # s
  PROVE  Opens(t)'
  <1>1. session'[t] = session[t] /\ request' = request /\ Opens(t)
    BY DEF Respects, Serial, Good
  <1>2. ASSUME session[t].opens # Nobody, NEW u \in Sessions, session'[u].opens = session[t].opens
        PROVE  u = t
    <2>1. CASE u = s
      BY <1>1, <1>2, <2>1 DEF Respects, Opens
    <2>2. CASE u # s
      BY <1>1, <1>2, <2>2 DEF Respects, Opens
    <2> QED
      BY <2>1, <2>2
  <1>3. (Planned(t)' <=> Planned(t)) /\ Kind(t)' = Kind(t)
    BY <1>1 DEF Planned, Kind
  <1> QED
    BY <1>1, <1>2, <1>3 DEF Opens

\* A step that respects the locks keeps what is known of all other sessions.
LEMMA OthersGood ==
  ASSUME Serial, NEW s, Respects(s), NEW t \in Sessions, t # s
  PROVE  Good(t)'
  BY OthersFound, OthersHold, OthersDecided, OthersOpen DEF Good

-----------------------------------------------------------------------------
\* The kinds of steps.

Answers == {"done", "denied", "duplicate", "nothing", "error"}

\* A session takes a free lock or none.
MayAcquire(s) == UNCHANGED lock \/ \E r \in Resources : Free(r) /\ Acquire(s, r)

\* An idle session holds nothing and has decided nothing.
LEMMA IdleIsGood ==
  ASSUME NEW s, session'[s] = Idle
  PROVE  Good(s)'
  BY DEF Good, RunsAs, Found, Holds, Decided, Opens, OnAccount, OnGame, OnOperation, OnUser,
         OnEnrollment, Planned, Idle

\* Idle is a state of a session.
LEMMA IdleType == Idle \in Runs
  BY DEF Idle, Runs, Steps, Credits, Empty

\* Tables that stay keep saying the same of one another.
LEMMA RowsStay ==
  ASSUME Rows, request' = request, UNCHANGED tables
  PROVE  Rows'
  <1>1. \A o, kind : Made(o, kind) => Made(o, kind)'
    BY DEF Made, tables
  <1>2. \A a : BetsOf(a)' = BetsOf(a)
    BY DEF BetsOf, tables
  <1> QED
    BY <1>1, <1>2 DEF Rows, tables

\* Every session is good after a step that respects the locks and leaves the one that
\* takes it good.
LEMMA AllGood ==
  ASSUME Serial, NEW s, Respects(s), s \in Sessions => Good(s)'
  PROVE  \A t \in Sessions : Good(t)'
  BY OthersGood

\* A statement that writes no table.
LEMMA InnerStep ==
  ASSUME Serial, NEW s \in Sessions, NEW m \in Runs, Continue(s, m), MayAcquire(s),
         UNCHANGED <<now, tables, revisions, inputs, answers>>,
         \/ m.opens \in {session[s].opens, Nobody}
         \/ \A t \in Sessions : session[t].opens # m.opens,
         Good(s)'
  PROVE  Serial'
  <1>1. /\ session' \in [Sessions -> Runs] /\ session'[s] = m
        /\ \A t \in Sessions : t # s => session'[t] = session[t]
    BY DEF Continue, Serial, TypeOK
  <1>2. /\ lock' \in [Resources -> Sessions \cup {Nobody}]
        /\ \A r \in Resources : lock[r] \notin {s, Nobody} => lock'[r] = lock[r]
    BY DEF MayAcquire, Free, Acquire, Serial, TypeOK
  <1>3. TypeOK'
    BY <1>1, <1>2 DEF Serial, TypeOK, tables, inputs
  <1>4. Respects(s)
    BY <1>1, <1>2 DEF Respects, tables, inputs, BetsOf
  <1>5. Rows'
    BY RowsStay DEF Serial, inputs
  <1> QED
    BY <1>3, <1>4, <1>5, AllGood DEF Serial

\* What the end of a transaction does besides its writes.
LEMMA FinishEffect ==
  ASSUME Serial, NEW s \in Sessions, NEW answer \in Answers, session[s].pc # "idle",
         Finish(s, answer)
  PROVE  /\ session' \in [Sessions -> Runs] /\ session'[s] = Idle
         /\ \A t \in Sessions : t # s => session'[t] = session[t]
         /\ lock' \in [Resources -> Sessions \cup {Nobody}]
         /\ \A r \in Resources : lock[r] \notin {s, Nobody} => lock'[r] = lock[r]
         /\ session[s].op \in Ops
         /\ answers' \in [Ops -> SUBSET Answers]
         /\ answers'[session[s].op] = answers[session[s].op] \cup {answer}
         /\ \A o \in Ops : o # session[s].op => answers'[o] = answers[o]
         /\ session'[s].opens = Nobody
         /\ Good(s)'
  <1>1. session[s].op \in Ops
    BY TransactionConstants DEF Serial, TypeOK, Good, RunsAs
  <1>2. /\ session' \in [Sessions -> Runs] /\ session'[s] = Idle
        /\ \A t \in Sessions : t # s => session'[t] = session[t]
    BY IdleType DEF Finish, Serial, TypeOK
  <1>3. /\ lock' \in [Resources -> Sessions \cup {Nobody}]
        /\ \A r \in Resources : lock[r] \notin {s, Nobody} => lock'[r] = lock[r]
    BY DEF Finish, Serial, TypeOK
  <1>4. answers \in [Ops -> SUBSET Answers]
    BY DEF Serial, TypeOK, Answers
  <1>5. /\ answers' \in [Ops -> SUBSET Answers]
        /\ answers'[session[s].op] = answers[session[s].op] \cup {answer}
        /\ \A o \in Ops : o # session[s].op => answers'[o] = answers[o]
    BY <1>1, <1>4 DEF Finish
  <1>6. Good(s)'
    BY <1>2, IdleIsGood
  <1>7. session'[s].opens = Nobody
    BY <1>2 DEF Idle
  <1> QED
    BY <1>1, <1>2, <1>3, <1>5, <1>6, <1>7

\* A transaction that ends without a write.
LEMMA FinishStep ==
  ASSUME Serial, NEW s \in Sessions, NEW answer \in Answers, session[s].pc # "idle",
         Finish(s, answer), UNCHANGED <<now, tables, revisions, inputs>>
  PROVE  Serial'
  <1>1. TypeOK'
    BY FinishEffect DEF Serial, TypeOK, tables, inputs, Answers
  <1>2. Respects(s)
    BY FinishEffect DEF Respects, tables, inputs, BetsOf
  <1>3. Rows'
    BY RowsStay DEF Serial, inputs
  <1> QED
    BY <1>1, <1>2, <1>3, FinishEffect, AllGood DEF Serial

-----------------------------------------------------------------------------
\* Each step keeps the invariant.

\* Nobody is no session.
LEMMA NobodyIsNone == Nobody \notin Sessions /\ Nobody \notin Accounts
  BY TransactionConstants

\* The clock.
LEMMA TickStep == Serial /\ Tick => Serial'
  <1> SUFFICES ASSUME Serial, Tick PROVE Serial'
    OBVIOUS
  <1>1. TypeOK'
    BY DEF Serial, TypeOK, Tick, tables, inputs
  <1>2. Respects(Nobody)
    BY NobodyIsNone DEF Respects, Tick, tables, inputs, BetsOf
  <1>3. Rows'
    BY RowsStay DEF Serial, Tick, inputs
  <1> QED
    BY <1>1, <1>2, <1>3, AllGood, NobodyIsNone DEF Serial

\* The row of a game is a revision.
LEMMA CurrentType == ASSUME TypeOK, NEW g \in Games PROVE Current(g) \in Revisions
  BY DEF TypeOK, Current, Last

\* The feed.
LEMMA RevisedStep ==
  ASSUME Serial, NEW g \in Games, NEW c \in Feed, GameRevised(g, c) PROVE Serial'
  <1>1. Current(g) \in Revisions
    BY CurrentType DEF Serial
  <1> DEFINE market == Current(g).market
             reopens == Current(g).status = "postponed" /\ c.status = "scheduled"
             next == [status |-> c.status, score |-> c.score, start |-> Current(g).start,
                      market |-> IF reopens THEN market + 1 ELSE market, updated |-> now]
  <1>2. revisions' = [revisions EXCEPT ![g] = Append(@, next)] /\ Free(<<"game", g>>)
        /\ UNCHANGED <<now, tables, session, lock, inputs, answers>>
    BY DEF GameRevised
  <1>3. next \in Revisions
    BY <1>1, TransactionConstants DEF Revisions, Serial, TypeOK
  <1>4. revisions' \in [Games -> Seq(Revisions) \ {<<>>}]
    <2>1. revisions[g] \in Seq(Revisions)
      BY DEF Serial, TypeOK
    <2>2. Append(revisions[g], next) \in Seq(Revisions) \ {<<>>}
      BY <1>3, <2>1
    <2> QED
      BY <1>2, <2>2 DEF Serial, TypeOK
  <1>5. TypeOK'
    BY <1>2, <1>4 DEF Serial, TypeOK, tables, inputs
  <1>6. Respects(Nobody)
    BY <1>2, NobodyIsNone DEF Respects, tables, inputs, BetsOf, Free, Serial, TypeOK
  <1>7. Rows'
    BY <1>2, RowsStay DEF Serial, inputs
  <1> QED
    BY <1>5, <1>6, <1>7, AllGood, NobodyIsNone DEF Serial

\* A request arrives.
LEMMA DeliverStep ==
  ASSUME Serial, NEW s \in Sessions, NEW o \in DOMAIN request, Deliver(s, o) PROVE Serial'
  <1> DEFINE m == [Idle EXCEPT !.pc = "begun", !.op = o, !.at = now]
  <1>1. o \in Ops
    BY TransactionConstants DEF Serial, TypeOK
  <1>2. m \in Runs
    BY <1>1, IdleType, ZenonT(40) DEF Runs, Steps, Serial, TypeOK
  <1>3. /\ session' \in [Sessions -> Runs] /\ session'[s] = m
        /\ \A t \in Sessions : t # s => session'[t] = session[t]
    BY <1>2 DEF Deliver, Serial, TypeOK
  <1>4. m.pc = "begun" /\ m.op = o /\ m.outcome = "none" /\ m.opens = Nobody
    BY DEF Idle
  <1>5. Good(s)'
    BY <1>3, <1>4 DEF Good, RunsAs, Found, Holds, Decided, Opens, OnAccount, OnGame, OnOperation,
                      OnUser, OnEnrollment, Planned, Deliver
  <1>6. TypeOK'
    BY <1>3 DEF Serial, TypeOK, Deliver, tables
  <1>7. Respects(s)
    BY <1>3, <1>4 DEF Respects, Deliver, tables, BetsOf
  <1>8. Rows'
    BY RowsStay DEF Serial, Deliver
  <1> QED
    BY <1>5, <1>6, <1>7, <1>8, AllGood DEF Serial

\* The bot stops or the connection is lost.
LEMMA AbortStep == ASSUME Serial, NEW s \in Sessions, Abort(s) PROVE Serial'
  BY FinishStep DEF Abort, Answers, Serial, Good, RunsAs

\* What is known of a session that is about to act.
LEMMA Acting ==
  ASSUME Serial, NEW s \in Sessions, session[s].pc # "idle"
  PROVE  /\ session[s] \in Runs /\ RunsAs(s) /\ Found(s) /\ Holds(s) /\ Decided(s) /\ Opens(s)
         /\ session[s].op \in DOMAIN request /\ session[s].op \in Ops
         /\ WellFormed(Req(s)) /\ Kind(s) = Req(s).kind
         /\ session[s].pc \notin {"key", "ready"} => session[s].opens = Nobody
  BY TransactionConstants DEF Serial, TypeOK, Good, RunsAs, Req, Kind, Opens, Planned

\* The names of the statements.
LEMMA StepNames ==
  /\ "begun" \in Steps /\ "found" \in Steps /\ "locked" \in Steps /\ "to_game" \in Steps
  /\ "game_locked" \in Steps /\ "key" \in Steps /\ "operation" \in Steps
  /\ "ready" \in Steps /\ "user_locked" \in Steps /\ "leaving" \in Steps
  BY DEF Steps

\* A refusal before the operation id is inserted.
LEMMA DenyStep ==
  ASSUME Serial, NEW s \in Sessions, session[s].pc # "idle", Kind(s) # "adjust",
         session[s].opens = Nobody, Deny(s),
         UNCHANGED <<now, tables, revisions, lock, inputs, answers>>
  PROVE  Serial'
  <1> DEFINE m == [session[s] EXCEPT !.pc = "key", !.outcome = "denied"]
  <1>1. session[s] \in Runs /\ session[s].op \in DOMAIN request
    BY Acting
  <1>2. m \in Runs
    BY <1>1, StepNames, ZenonT(40) DEF Runs
  <1>3. m.pc = "key" /\ m.outcome = "denied" /\ m.op = session[s].op /\ m.opens = Nobody
    BY <1>1 DEF Runs
  <1>4. session'[s] = m
    BY DEF Deny, Continue, Serial, TypeOK
  <1>5. Good(s)'
    BY <1>1, <1>3, <1>4 DEF Good, RunsAs, Found, Holds, Decided, Opens, OnAccount, OnGame,
      OnOperation, OnUser, OnEnrollment, Planned, Kind, Req, tables, inputs
  <1> QED
    BY <1>2, <1>3, <1>5, InnerStep DEF MayAcquire, Deny

\* The account is found, and nothing of it is known yet.
LEMMA FindAccountStep == ASSUME Serial, NEW s \in Sessions, FindAccount(s) PROVE Serial'
  <1>1. /\ session[s].pc = "begun" /\ Kind(s) \in {"claim", "place"}
        /\ UNCHANGED <<now, tables, revisions, lock, inputs, answers>>
    BY DEF FindAccount
  <1>2. /\ session[s] \in Runs /\ session[s].op \in DOMAIN request /\ session[s].opens = Nobody
    BY <1>1, Acting
  <1>3. ASSUME NEW a \in Accounts, EnrolledAs(Req(s).user, a),
               Continue(s, [session[s] EXCEPT !.pc = "found", !.account = a])
        PROVE  Serial'
    <2> DEFINE m == [session[s] EXCEPT !.pc = "found", !.account = a]
    <2>1. m \in Runs
      BY <1>2, StepNames, ZenonT(40) DEF Runs
    <2>2. m.pc = "found" /\ m.account = a /\ m.op = session[s].op /\ m.opens = Nobody
      BY <1>2 DEF Runs
    <2>3. session'[s] = m
      BY <1>3 DEF Continue, Serial, TypeOK
    <2>4. Good(s)'
      BY <1>1, <1>2, <1>3, <2>2, <2>3 DEF Good, RunsAs, Found, Holds, Decided, Opens,
        OnAccount, OnGame, OnOperation, OnUser, OnEnrollment, Planned, Kind, Req, tables, inputs, EnrolledAs
    <2> QED
      BY <1>1, <1>3, <2>1, <2>2, <2>4, InnerStep DEF MayAcquire
  <1> QED
    BY <1>1, <1>2, <1>3, DenyStep DEF FindAccount

\* The account row is locked and read.
LEMMA LockAccountStep == ASSUME Serial, NEW s \in Sessions, LockAccount(s) PROVE Serial'
  <1> DEFINE a == session[s].account
             m == [session[s] EXCEPT !.pc = "locked", !.credit = account[a]]
  <1>1. /\ session[s].pc = "found" /\ Free(<<"account", a>>) /\ Acquire(s, <<"account", a>>)
        /\ Continue(s, m) /\ UNCHANGED <<now, tables, revisions, inputs, answers>>
    BY DEF LockAccount
  <1>2. /\ session[s] \in Runs /\ session[s].op \in DOMAIN request /\ session[s].opens = Nobody
        /\ RunsAs(s) /\ Found(s) /\ Holds(s) /\ session[s].op \in Ops
    BY <1>1, Acting
  <1>3. a \in Accounts /\ account[a] \in Credits /\ <<"account", a>> \in Resources
    BY <1>1, <1>2 DEF Found, Serial, TypeOK, Resources
  <1>4. m \in Runs
    BY <1>2, <1>3, StepNames, ZenonT(40) DEF Runs
  <1>5. /\ m.pc = "locked" /\ m.op = session[s].op /\ m.account = a /\ m.credit = account[a]
        /\ m.opens = Nobody
    BY <1>2 DEF Runs
  <1>6. session'[s] = m
    BY <1>1 DEF Continue, Serial, TypeOK
  <1>7. /\ lock'[<<"account", a>>] = s
        /\ \A r \in Resources : r # <<"account", a>> => lock'[r] = lock[r]
    BY <1>1, <1>3 DEF Acquire, Serial, TypeOK
  <1>8. <<"op", session[s].op>> \in Resources /\ <<"op", session[s].op>> # <<"account", a>>
    BY <1>2 DEF Resources
  <1>9. RunsAs(s)' /\ Decided(s)' /\ Opens(s)'
    BY <1>1, <1>2, <1>5, <1>6 DEF RunsAs, Decided, Opens, Planned, Kind, inputs
  <1>10. Found(s)'
    BY <1>1, <1>2, <1>5, <1>6 DEF Found, RunsAs, OnAccount, OnGame, OnEnrollment, Planned, Kind, Req, tables, inputs
  <1>11. Holds(s)'
    BY <1>1, <1>2, <1>5, <1>6, <1>7, <1>8 DEF Holds, RunsAs, OnAccount, OnGame, OnOperation,
      OnUser, OnEnrollment, Planned, Kind, Req, tables, inputs
  <1> QED
    BY <1>1, <1>3, <1>4, <1>5, <1>9, <1>10, <1>11, InnerStep DEF MayAcquire, Good

\* The game row is locked and read.
LEMMA LockGameStep == ASSUME Serial, NEW s \in Sessions, LockGame(s) PROVE Serial'
  <1> DEFINE g == session[s].game
             m == [session[s] EXCEPT !.pc = "game_locked", !.revision = Len(revisions[g]),
                                     !.row = Current(g)]
  <1>1. /\ session[s].pc = "to_game" /\ Free(<<"game", g>>) /\ Acquire(s, <<"game", g>>)
        /\ Continue(s, m) /\ UNCHANGED <<now, tables, revisions, inputs, answers>>
    BY DEF LockGame
  <1>2. /\ session[s] \in Runs /\ session[s].op \in DOMAIN request /\ session[s].opens = Nobody
        /\ RunsAs(s) /\ Found(s) /\ Holds(s)
    BY <1>1, Acting
  <1>3. g \in Games /\ <<"game", g>> \in Resources /\ Current(g) \in Revisions /\ Len(revisions[g]) \in Nat
    BY <1>1, <1>2, CurrentType DEF Found, Serial, TypeOK, Resources
  <1>4. m \in Runs
    BY <1>2, <1>3, StepNames, ZenonT(40) DEF Runs
  <1>5. /\ m.pc = "game_locked" /\ m.op = session[s].op /\ m.account = session[s].account
        /\ m.credit = session[s].credit /\ m.game = g /\ m.row = Current(g)
        /\ m.revision = Len(revisions[g]) /\ m.opens = Nobody
    BY <1>2 DEF Runs
  <1>6. session'[s] = m
    BY <1>1 DEF Continue, Serial, TypeOK
  <1>7. /\ lock'[<<"game", g>>] = s
        /\ \A r \in Resources : r # <<"game", g>> => lock'[r] = lock[r]
    BY <1>1, <1>3 DEF Acquire, Serial, TypeOK
  <1>8. /\ session[s].account \in Accounts
        /\ <<"account", session[s].account>> \in Resources
        /\ <<"account", session[s].account>> # <<"game", g>>
    BY <1>1, <1>2 DEF Resources, Found, OnAccount
  <1>9. RunsAs(s)' /\ Decided(s)' /\ Opens(s)'
    BY <1>1, <1>2, <1>5, <1>6 DEF RunsAs, Decided, Opens, Planned, Kind, inputs
  <1>10. Found(s)'
    BY <1>1, <1>2, <1>5, <1>6 DEF Found, RunsAs, OnAccount, OnGame, OnEnrollment, Planned, Kind, Req, tables, inputs
  <1>11. Holds(s)'
    BY <1>1, <1>2, <1>5, <1>6, <1>7, <1>8 DEF Holds, RunsAs, OnAccount, OnGame, OnOperation,
      OnUser, OnEnrollment, Planned, Kind, Req, tables, inputs, Current
  <1> QED
    BY <1>1, <1>3, <1>4, <1>5, <1>9, <1>10, <1>11, InnerStep DEF MayAcquire, Good

-----------------------------------------------------------------------------
\* Plans.

\* What an account is worth.
Net(c) == c.available - c.debt

\* A daily credit is paid to the balance and to the debt, and neither gets negative.
LEMMA DailyCreditPaid ==
  ASSUME NEW c \in Credits
  PROVE  /\ Changed(c, AllocateDailyCredit(c.debt)) \in Credits
         /\ Net(Changed(c, AllocateDailyCredit(c.debt))) = Net(c) + DailyCredit
  BY RuleConstants DEF Credits, Changed, AllocateDailyCredit, Smaller, Net

\* The same of what a settlement adds or takes back.
LEMMA SettlementPaid ==
  ASSUME NEW c \in Credits, NEW delta \in Int, NEW refund \in BOOLEAN, refund => delta >= 0
  PROVE  LET after == Changed(c, AllocateSettlementDelta(c.available, c.debt, delta, refund))
         IN  after \in Credits /\ Net(after) = Net(c) + delta
  <1> DEFINE split == AllocateSettlementDelta(c.available, c.debt, delta, refund)
  <1>1. c.available \in Nat /\ c.debt \in Nat /\ c.version \in Nat
    BY DEF Credits
  <1>2. /\ split.available \in Int /\ split.debt \in Int
        /\ c.available + split.available >= 0 /\ c.debt + split.debt >= 0
        /\ split.available - split.debt = delta
    <2>1. CASE refund
      BY <1>1, <2>1 DEF AllocateSettlementDelta
    <2>2. CASE ~refund /\ delta > 0
      BY <1>1, <2>2 DEF AllocateSettlementDelta, Smaller
    <2>3. CASE ~refund /\ ~(delta > 0)
      BY <1>1, <2>3 DEF AllocateSettlementDelta, Smaller
    <2> QED
      BY <2>1, <2>2, <2>3
  <1> HIDE DEF split
  <1>3. Changed(c, split) \in Credits /\ Net(Changed(c, split)) = Net(c) + delta
    BY <1>1, <1>2 DEF Credits, Changed, Net
  <1> QED
    BY <1>3 DEF split

\* The same of an amount that the balance covers.
LEMMA AmountPaid ==
  ASSUME NEW c \in Credits, NEW x \in Int, c.available + x >= 0
  PROVE  /\ Changed(c, [available |-> x, debt |-> 0]) \in Credits
         /\ Net(Changed(c, [available |-> x, debt |-> 0])) = Net(c) + x
  BY DEF Credits, Changed, Net

\* A claim is answered, refused or planned under the account's lock.
LEMMA ExamineClaimStep == ASSUME Serial, NEW s \in Sessions, ExamineClaim(s) PROVE Serial'
  <1> DEFINE me == session[s]
             m == [me EXCEPT !.pc = "key", !.outcome = "done",
                     !.after = Changed(me.credit, AllocateDailyCredit(me.credit.debt))]
  <1>1. me.pc = "locked" /\ Kind(s) = "claim" /\ UNCHANGED <<now, tables, revisions, inputs>>
    BY DEF ExamineClaim
  <1>2. /\ me \in Runs /\ me.op \in DOMAIN request /\ me.opens = Nobody
        /\ RunsAs(s) /\ Found(s) /\ Holds(s)
    BY <1>1, Acting
  <1>3. CASE Finish(s, "done")
    BY <1>1, <1>3, FinishStep DEF Answers
  <1>4. CASE Deny(s) /\ UNCHANGED <<lock, answers>>
    BY <1>1, <1>2, <1>4, DenyStep
  <1>5. CASE /\ Continue(s, m) /\ UNCHANGED <<lock, answers>>
             /\ \A c \in claims : c.account = me.account => c.day # KstDate(me.at)
    <2>1. m.after \in Credits /\ m \in Runs
      <3>1. me.credit \in Credits
        BY <1>2 DEF Runs
      <3>2. Changed(me.credit, AllocateDailyCredit(me.credit.debt)) \in Credits
        BY <3>1, DailyCreditPaid
      <3> QED
        BY <1>2, <3>2, StepNames, ZenonT(40) DEF Runs
    <2>2. /\ m.pc = "key" /\ m.op = me.op /\ m.account = me.account /\ m.credit = me.credit
          /\ m.outcome = "done" /\ m.opens = Nobody /\ m.at = me.at
          /\ m.after = Changed(me.credit, AllocateDailyCredit(me.credit.debt))
      BY <1>2 DEF Runs
    <2>3. session'[s] = m
      BY <1>5 DEF Continue, Serial, TypeOK
    <2> HIDE DEF m
    <2>4. RunsAs(s)' /\ Opens(s)'
      BY <1>1, <1>2, <2>2, <2>3 DEF RunsAs, Opens, Kind, inputs
    <2>5. Found(s)' /\ Holds(s)'
      BY <1>1, <1>2, <1>5, <2>2, <2>3 DEF Found, Holds, RunsAs, OnAccount, OnGame, OnOperation,
        OnUser, OnEnrollment, Planned, Kind, Req, tables, inputs
    <2>6. ClaimPlanned(s)'
      BY <1>1, <1>5, <2>2, <2>3 DEF ClaimPlanned, tables
    <2>7. Decided(s)'
      BY <1>1, <2>2, <2>3, <2>6 DEF Decided, Kind, inputs
    <2> QED
      BY <1>1, <1>5, <2>1, <2>2, <2>4, <2>5, <2>7, InnerStep DEF MayAcquire, Good, m
  <1> QED
    BY <1>3, <1>4, <1>5 DEF ExamineClaim

\* A bet is answered, or its game is next.
LEMMA ExamineBetStep == ASSUME Serial, NEW s \in Sessions, ExamineBet(s) PROVE Serial'
  <1> DEFINE me == session[s]
             m == [me EXCEPT !.pc = "to_game", !.game = Req(s).game]
  <1>1. me.pc = "locked" /\ Kind(s) = "place" /\ UNCHANGED <<now, tables, revisions, inputs>>
    BY DEF ExamineBet
  <1>2. /\ me \in Runs /\ me.op \in DOMAIN request /\ me.opens = Nobody
        /\ RunsAs(s) /\ Found(s) /\ Holds(s) /\ Req(s).game \in Games
    BY <1>1, Acting DEF WellFormed
  <1>3. CASE Finish(s, "done")
    BY <1>1, <1>3, FinishStep DEF Answers
  <1>4. CASE Continue(s, m) /\ UNCHANGED <<lock, answers>>
    <2>1. m \in Runs
      BY <1>2, StepNames, ZenonT(40) DEF Runs
    <2>2. /\ m.pc = "to_game" /\ m.op = me.op /\ m.account = me.account /\ m.credit = me.credit
          /\ m.opens = Nobody /\ m.game = Req(s).game
      BY <1>2 DEF Runs
    <2>3. session'[s] = m
      BY <1>4 DEF Continue, Serial, TypeOK
    <2> HIDE DEF m
    <2>4. RunsAs(s)' /\ Opens(s)' /\ Decided(s)'
      BY <1>1, <1>2, <2>2, <2>3 DEF RunsAs, Opens, Decided, Planned, Kind, inputs
    <2>5. Found(s)' /\ Holds(s)'
      BY <1>1, <1>2, <1>4, <2>2, <2>3 DEF Found, Holds, RunsAs, OnAccount, OnGame, OnOperation,
        OnUser, OnEnrollment, Planned, Kind, Req, tables, inputs
    <2> QED
      BY <1>1, <1>4, <2>1, <2>2, <2>4, <2>5, InnerStep DEF MayAcquire, Good, m
  <1> QED
    BY <1>3, <1>4 DEF ExamineBet

\* The bet that is planned is one.
LEMMA BetPlanType ==
  ASSUME NEW a \in Accounts, NEW g \in Games, NEW row \in Revisions, NEW p \in Predictions,
         NEW stake \in Stakes, NEW day \in Int
  PROVE  [account |-> a, game |-> g, market |-> row.market, prediction |-> p, stake |-> stake,
          day |-> day, status |-> "pending", revision |-> 0, returned |-> 0] \in Bets
  <1>1. row.market \in Nat
    BY DEF Revisions
  <1> QED
    BY <1>1 DEF Bets

\* Dates are integers.
LEMMA DateType == ASSUME NEW t \in Int PROVE KstDate(t) \in Int
  BY RuleConstants DEF KstDate

\* A bet is planned on the account and the game under their locks.
LEMMA PlanBetStep == ASSUME Serial, NEW s \in Sessions, PlanBet(s) PROVE Serial'
  <1> DEFINE me == session[s]
             day == KstDate(me.at)
             after == Changed(me.credit, [available |-> -Req(s).stake, debt |-> 0])
             entry == [account |-> me.account, game |-> me.game, market |-> me.row.market,
                       prediction |-> Req(s).prediction, stake |-> Req(s).stake, day |-> day,
                       status |-> "pending", revision |-> 0, returned |-> 0]
             m == [me EXCEPT !.pc = "key", !.outcome = "done", !.after = after, !.entry = entry]
  <1>1. me.pc = "game_locked" /\ Kind(s) = "place"
        /\ UNCHANGED <<now, tables, revisions, lock, inputs, answers>>
    BY DEF PlanBet
  <1>2. /\ me \in Runs /\ me.op \in DOMAIN request /\ me.opens = Nobody
        /\ RunsAs(s) /\ Found(s) /\ Holds(s)
        /\ Req(s).prediction \in Predictions /\ Req(s).stake \in Stakes
    BY <1>1, Acting DEF WellFormed
  <1>3. CASE Deny(s)
    BY <1>1, <1>2, <1>3, DenyStep
  <1>4. CASE /\ Continue(s, m)
             /\ PlacementAccepted(me.at, me.row, me.credit.available, me.credit.debt,
                                  Spent(me.account, day), Req(s).stake)
             /\ \A b \in BetsOf(me.account) : bet[b].game = me.game => bet[b].status # "pending"
    <2>1. /\ me.account \in Accounts /\ me.game \in Games /\ me.row \in Revisions
          /\ me.credit \in Credits /\ me.at \in Int
      <3>1. me.account \in Accounts /\ me.game \in Games /\ me.row = Current(me.game)
        BY <1>1, <1>2 DEF Found, Holds, OnAccount, OnGame
      <3>2. me.row \in Revisions
        BY <3>1, CurrentType DEF Serial
      <3> QED
        BY <1>2, <3>1, <3>2 DEF Runs
    <2>2. after \in Credits
      <3>1. Req(s).stake \in Nat /\ Req(s).stake <= me.credit.available /\ me.credit.available \in Nat
        BY <1>2, <1>4, <2>1, RuleConstants DEF Stakes, PlacementAccepted, Credits
      <3>2. -Req(s).stake \in Int /\ me.credit.available + (-Req(s).stake) >= 0
        BY <3>1
      <3> QED
        BY <2>1, <3>2, AmountPaid
    <2>3. entry \in Bets
      BY <1>2, <2>1, DateType, BetPlanType
    <2>4. /\ m \in Runs /\ m.pc = "key" /\ m.op = me.op /\ m.account = me.account
          /\ m.credit = me.credit /\ m.outcome = "done" /\ m.opens = Nobody /\ m.at = me.at
          /\ m.game = me.game /\ m.row = me.row /\ m.revision = me.revision
          /\ m.after = after /\ m.entry = entry
      <3> HIDE DEF after, entry
      <3> QED
        BY <1>2, <2>2, <2>3, StepNames, ZenonT(40) DEF Runs
    <2>5. session'[s] = m
      BY <1>4 DEF Continue, Serial, TypeOK
    <2> HIDE DEF m
    <2>6. RunsAs(s)' /\ Opens(s)'
      BY <1>1, <1>2, <2>4, <2>5 DEF RunsAs, Opens, Kind, inputs
    <2>7. Found(s)' /\ Holds(s)'
      BY <1>1, <1>2, <1>4, <2>4, <2>5 DEF Found, Holds, RunsAs, OnAccount, OnGame, OnOperation,
        OnUser, OnEnrollment, Planned, Kind, Req, tables, inputs, Current
    <2>8. BetPlanned(s)'
      BY <1>1, <1>4, <2>4, <2>5 DEF BetPlanned, Spent, BetsOf, Req, tables, inputs
    <2>9. Decided(s)'
      BY <1>1, <2>4, <2>5, <2>8 DEF Decided, Kind, inputs
    <2> QED
      BY <1>1, <1>4, <2>4, <2>6, <2>7, <2>9, InnerStep DEF MayAcquire, Good, m
  <1> QED
    BY <1>3, <1>4 DEF PlanBet, Spent

-----------------------------------------------------------------------------
\* Settlements and adjustments.

\* A settlement is answered, refused or finds the owner of its bet.
LEMMA FindOwnerStep == ASSUME Serial, NEW s \in Sessions, FindOwner(s) PROVE Serial'
  <1> DEFINE me == session[s]
             m == [me EXCEPT !.pc = "found", !.account = bet[Req(s).bet].account]
  <1>1. me.pc = "begun" /\ Kind(s) = "settle" /\ UNCHANGED <<now, tables, revisions, inputs>>
    BY DEF FindOwner
  <1>2. /\ me \in Runs /\ me.op \in DOMAIN request /\ me.opens = Nobody
        /\ Req(s).bet \in Ops
    BY <1>1, Acting DEF WellFormed
  <1>3. CASE Finish(s, "done")
    BY <1>1, <1>3, FinishStep DEF Answers
  <1>4. CASE Deny(s) /\ UNCHANGED <<lock, answers>>
    BY <1>1, <1>2, <1>4, DenyStep
  <1>5. CASE bet[Req(s).bet] # NoBet /\ Continue(s, m) /\ UNCHANGED <<lock, answers>>
    <2>1. bet[Req(s).bet] \in Bets /\ bet[Req(s).bet].account \in Accounts
      BY <1>2, <1>5 DEF Serial, TypeOK, Bets
    <2>2. enrollment[bet[Req(s).bet].account].status # "none"
      BY <1>2, <1>5, <2>1 DEF Serial, Rows, BetsOf
    <2>3. m \in Runs
      BY <1>2, <2>1, StepNames, ZenonT(40) DEF Runs
    <2>4. /\ m.pc = "found" /\ m.op = me.op /\ m.account = bet[Req(s).bet].account
          /\ m.opens = Nobody
      BY <1>2 DEF Runs
    <2>5. session'[s] = m
      BY <1>5 DEF Continue, Serial, TypeOK
    <2> HIDE DEF m
    <2>6. RunsAs(s)' /\ Opens(s)' /\ Decided(s)'
      BY <1>1, <1>2, <2>4, <2>5 DEF RunsAs, Opens, Decided, Planned, Kind, inputs
    <2>7. Found(s)' /\ Holds(s)'
      BY <1>1, <1>2, <1>5, <2>1, <2>2, <2>4, <2>5 DEF Found, Holds, OnAccount, OnGame, OnOperation,
        OnUser, OnEnrollment, Planned, Kind, Req, tables, inputs
    <2> QED
      BY <1>1, <1>5, <2>3, <2>4, <2>6, <2>7, InnerStep DEF MayAcquire, Good, m
  <1> QED
    BY <1>3, <1>4, <1>5 DEF FindOwner

\* A settlement is answered under the account's lock, or its bet's game is next.
LEMMA ExamineSettlementStep == ASSUME Serial, NEW s \in Sessions, ExamineSettlement(s) PROVE Serial'
  <1> DEFINE me == session[s]
             m == [me EXCEPT !.pc = "to_game", !.game = bet[Req(s).bet].game]
  <1>1. me.pc = "locked" /\ Kind(s) = "settle" /\ UNCHANGED <<now, tables, revisions, inputs>>
    BY DEF ExamineSettlement
  <1>2. /\ me \in Runs /\ me.op \in DOMAIN request /\ me.opens = Nobody
        /\ RunsAs(s) /\ Found(s) /\ Holds(s) /\ Req(s).bet \in Ops
    BY <1>1, Acting DEF WellFormed
  <1>3. CASE Finish(s, "done")
    BY <1>1, <1>3, FinishStep DEF Answers
  <1>4. CASE Continue(s, m) /\ UNCHANGED <<lock, answers>>
    <2>1. bet[Req(s).bet].game \in Games
      BY <1>1, <1>2 DEF Found, OnAccount, Serial, TypeOK, Bets
    <2>2. m \in Runs
      BY <1>2, <2>1, StepNames, ZenonT(40) DEF Runs
    <2>3. /\ m.pc = "to_game" /\ m.op = me.op /\ m.account = me.account /\ m.credit = me.credit
          /\ m.opens = Nobody /\ m.game = bet[Req(s).bet].game
      BY <1>2 DEF Runs
    <2>4. session'[s] = m
      BY <1>4 DEF Continue, Serial, TypeOK
    <2> HIDE DEF m
    <2>5. RunsAs(s)' /\ Opens(s)' /\ Decided(s)'
      BY <1>1, <1>2, <2>3, <2>4 DEF RunsAs, Opens, Decided, Planned, Kind, inputs
    <2>6. Found(s)' /\ Holds(s)'
      BY <1>1, <1>2, <1>4, <2>1, <2>3, <2>4 DEF Found, Holds, RunsAs, OnAccount, OnGame, OnOperation,
        OnUser, OnEnrollment, Planned, Kind, Req, tables, inputs
    <2> QED
      BY <1>1, <1>4, <2>2, <2>3, <2>5, <2>6, InnerStep DEF MayAcquire, Good, m
  <1> QED
    BY <1>3, <1>4 DEF ExamineSettlement

\* What a result returns is a natural number.
LEMMA ReturnType == ASSUME NEW stake \in Nat, NEW result PROVE ReturnOf(stake, result) \in Nat
  BY DEF ReturnOf

\* What a settlement would return less what the bet has returned is an integer, and no
\* first refund takes anything back.
LEMMA DeltaType ==
  ASSUME Serial, NEW b \in Ops, bet[b] # NoBet, NEW result
  PROVE  LET delta == ReturnOf(bet[b].stake, result) - bet[b].returned
         IN  /\ delta \in Int /\ ReturnOf(bet[b].stake, result) \in Nat
             /\ (bet[b].revision = 0 /\ result = "void") => delta >= 0
  <1>1. bet[b].stake \in Nat /\ bet[b].returned \in Nat
    BY RuleConstants DEF Serial, TypeOK, Bets, Stakes
  <1>2. ReturnOf(bet[b].stake, result) \in Nat
    BY <1>1, ReturnType
  <1>3. bet[b].revision = 0 => bet[b].returned = 0
    BY DEF Serial, Rows
  <1> QED
    BY <1>1, <1>2, <1>3

\* A settlement is planned on the account, the bet and the game under the locks.
LEMMA PlanSettlementStep == ASSUME Serial, NEW s \in Sessions, PlanSettlement(s) PROVE Serial'
  <1> DEFINE me == session[s]
             row == bet[Req(s).bet]
             result == ResultOf(row.prediction, me.row)
             returned == ReturnOf(row.stake, result)
             delta == returned - row.returned
             split == AllocateSettlementDelta(me.credit.available, me.credit.debt, delta,
                                              row.revision = 0 /\ result = "void")
             after == IF delta = 0 THEN me.credit ELSE Changed(me.credit, split)
             entry == [row EXCEPT !.status = IF result = "void" THEN "void" ELSE "settled",
                                  !.revision = me.revision, !.returned = returned]
             m == [me EXCEPT !.pc = "key", !.outcome = "done", !.after = after, !.entry = entry]
  <1>1. me.pc = "game_locked" /\ Kind(s) = "settle"
        /\ UNCHANGED <<now, tables, revisions, lock, inputs, answers>>
    BY DEF PlanSettlement
  <1>2. /\ me \in Runs /\ me.op \in DOMAIN request /\ me.opens = Nobody
        /\ RunsAs(s) /\ Found(s) /\ Holds(s) /\ Req(s).bet \in Ops
    BY <1>1, Acting DEF WellFormed
  <1>3. CASE Deny(s)
    BY <1>1, <1>2, <1>3, DenyStep
  <1>4. CASE Continue(s, m) /\ SettlementDue(row.revision, Req(s).revision, me.revision, me.row)
    <2>1. row # NoBet /\ row \in Bets /\ me.credit \in Credits /\ me.revision \in Nat
      BY <1>1, <1>2 DEF Found, OnAccount, Serial, TypeOK, Runs
    <2>2. returned \in Nat /\ delta \in Int /\ (row.revision = 0 /\ result = "void" => delta >= 0)
      BY <1>2, <2>1, DeltaType
    <2>3. after \in Credits
      <3> HIDE DEF delta, result
      <3>1. (row.revision = 0 /\ result = "void") \in BOOLEAN
        OBVIOUS
      <3>2. Changed(me.credit, split) \in Credits
        BY <2>1, <2>2, <3>1, SettlementPaid
      <3> QED
        BY <2>1, <3>2
    <2>4. entry \in Bets
      <3> HIDE DEF result, returned
      <3> QED
        BY <2>1, <2>2 DEF Bets
    <2>5. /\ m \in Runs /\ m.pc = "key" /\ m.op = me.op /\ m.account = me.account
          /\ m.credit = me.credit /\ m.outcome = "done" /\ m.opens = Nobody /\ m.at = me.at
          /\ m.game = me.game /\ m.row = me.row /\ m.revision = me.revision
          /\ m.after = after /\ m.entry = entry
      <3> HIDE DEF after, entry
      <3> QED
        BY <1>2, <2>3, <2>4, StepNames, ZenonT(40) DEF Runs
    <2>6. session'[s] = m
      BY <1>4 DEF Continue, Serial, TypeOK
    <2> HIDE DEF m
    <2>7. RunsAs(s)' /\ Opens(s)'
      BY <1>1, <1>2, <2>5, <2>6 DEF RunsAs, Opens, Kind, inputs
    <2>8. Found(s)' /\ Holds(s)'
      <3>1. Found(s)'
        BY <1>1, <1>2, <2>5, <2>6 DEF Found, RunsAs, OnAccount, OnGame, OnEnrollment, Planned,
          Kind, Req, tables, inputs
      <3>2. Holds(s)'
        <4>1. Kind(s)' = "settle" /\ ~OnOperation(s)' /\ ~OnUser(s)' /\ ~OnEnrollment(s)'
          BY <1>1, <2>5, <2>6 DEF OnOperation, OnUser, OnEnrollment, Planned, Kind, inputs
        <4>2. /\ lock[<<"account", me.account>>] = s /\ me.credit = account[me.account]
              /\ lock[<<"game", me.game>>] = s
              /\ me.row = Current(me.game) /\ me.revision = Len(revisions[me.game])
          BY <1>1, <1>2 DEF Holds, OnAccount, OnGame
        <4> QED
          BY <1>1, <2>5, <2>6, <4>1, <4>2 DEF Holds, tables, Current
      <3> QED
        BY <3>1, <3>2
    <2>9. Req(s)' = Req(s) /\ bet' = bet
      BY <1>1, <2>5, <2>6 DEF Req, tables, inputs
    <2>10. SettlementPlanned(s)'
      BY <1>1, <1>4, <2>5, <2>6, <2>9, ZenonT(40) DEF SettlementPlanned, Settled
    <2>11. Decided(s)'
      BY <1>1, <2>5, <2>6, <2>10 DEF Decided, Kind, inputs
    <2> QED
      BY <1>1, <1>4, <2>5, <2>7, <2>8, <2>11, InnerStep DEF MayAcquire, Good, m
  <1> QED
    BY <1>3, <1>4 DEF PlanSettlement

\* An adjustment decides after it has inserted its operation id.
LEMMA AdjustBeginsStep == ASSUME Serial, NEW s \in Sessions, AdjustBegins(s) PROVE Serial'
  <1> DEFINE me == session[s]
             m == [me EXCEPT !.pc = "key", !.outcome = "later"]
  <1>1. /\ me.pc = "begun" /\ Kind(s) = "adjust" /\ Continue(s, m)
        /\ UNCHANGED <<now, tables, revisions, lock, inputs, answers>>
    BY DEF AdjustBegins
  <1>2. me \in Runs /\ me.op \in DOMAIN request /\ me.opens = Nobody
    BY <1>1, Acting
  <1>3. m \in Runs
    BY <1>2, StepNames, ZenonT(40) DEF Runs
  <1>4. m.pc = "key" /\ m.outcome = "later" /\ m.op = me.op /\ m.opens = Nobody
    BY <1>2 DEF Runs
  <1>5. session'[s] = m
    BY <1>1 DEF Continue, Serial, TypeOK
  <1> HIDE DEF m
  <1>6. Good(s)'
    BY <1>1, <1>2, <1>4, <1>5 DEF Good, RunsAs, Found, Holds, Decided, Opens, OnAccount, OnGame,
      OnOperation, OnUser, OnEnrollment, Planned, Kind, inputs
  <1> QED
    BY <1>1, <1>3, <1>4, <1>6, InnerStep DEF MayAcquire, m

\* An adjustment finds its account.
LEMMA FindAdjustedStep == ASSUME Serial, NEW s \in Sessions, FindAdjusted(s) PROVE Serial'
  <1> DEFINE me == session[s]
             a == Req(s).account
             m1 == [me EXCEPT !.pc = "ready", !.outcome = "denied"]
             m2 == [me EXCEPT !.pc = "found", !.account = a, !.owner = enrollment[a].user]
  <1>1. me.pc = "operation" /\ UNCHANGED <<now, tables, revisions, lock, inputs, answers>>
    BY DEF FindAdjusted
  <1>2. /\ me \in Runs /\ me.op \in DOMAIN request /\ me.opens = Nobody
        /\ RunsAs(s) /\ Holds(s) /\ Kind(s) = "adjust" /\ a \in Accounts
    BY <1>1, Acting DEF WellFormed, RunsAs
  <1>3. CASE Continue(s, m1)
    <2>1. m1 \in Runs
      <3>1. me \in Runs
        BY <1>2
      <3> HIDE DEF me
      <3> QED
        BY <3>1, StepNames, ZenonT(40) DEF Runs
    <2>2. m1.pc = "ready" /\ m1.outcome = "denied" /\ m1.op = me.op /\ m1.opens = Nobody
      BY <1>2 DEF Runs
    <2>3. session'[s] = m1
      BY <1>3 DEF Continue, Serial, TypeOK
    <2> HIDE DEF m1
    <2>4. Good(s)'
      BY <1>1, <1>2, <2>2, <2>3 DEF Good, RunsAs, Found, Holds, Decided, Opens, OnAccount, OnGame,
        OnOperation, OnUser, OnEnrollment, Planned, Kind, tables, inputs
    <2> QED
      BY <1>1, <1>3, <2>1, <2>2, <2>4, InnerStep DEF MayAcquire, m1
  <1>4. CASE enrollment[a].status # "none" /\ Continue(s, m2)
    <2>1. m2 \in Runs
      <3>1. enrollment[a].user \in Users \cup {Nobody} /\ a \in Accounts \cup {Nobody}
        BY <1>2 DEF Serial, TypeOK
      <3>2. me \in Runs
        BY <1>2
      <3> DEFINE owner == enrollment[a].user
      <3>3. owner \in Users \cup {Nobody}
        BY <3>1
      <3> HIDE DEF me, a, owner
      <3>4. [me EXCEPT !.pc = "found", !.account = a, !.owner = owner] \in Runs
        BY <3>1, <3>2, <3>3, StepNames, ZenonT(40) DEF Runs
      <3> QED
        BY <3>4 DEF owner
    <2>2. m2.pc = "found" /\ m2.account = a /\ m2.op = me.op /\ m2.opens = Nobody
      BY <1>2 DEF Runs
    <2>3. session'[s] = m2
      BY <1>4 DEF Continue, Serial, TypeOK
    <2> HIDE DEF m2
    <2>4. Good(s)'
      BY <1>1, <1>2, <1>4, <2>2, <2>3 DEF Good, RunsAs, Found, Holds, Decided, Opens, OnAccount,
        OnGame, OnOperation, OnUser, OnEnrollment, Planned, Kind, Req, tables, inputs
    <2> QED
      BY <1>1, <1>4, <2>1, <2>2, <2>4, InnerStep DEF MayAcquire, m2
  <1> QED
    BY <1>3, <1>4 DEF FindAdjusted

\* An adjustment is planned or refused under the account's lock.
LEMMA PlanAdjustmentStep == ASSUME Serial, NEW s \in Sessions, PlanAdjustment(s) PROVE Serial'
  <1> DEFINE me == session[s]
             after == Changed(me.credit, [available |-> Req(s).delta, debt |-> 0])
             m1 == [me EXCEPT !.pc = "ready", !.outcome = "denied"]
             m2 == [me EXCEPT !.pc = "ready", !.outcome = "done", !.after = after]
  <1>1. me.pc = "locked" /\ Kind(s) = "adjust"
        /\ UNCHANGED <<now, tables, revisions, lock, inputs, answers>>
    BY DEF PlanAdjustment
  <1>2. /\ me \in Runs /\ me.op \in DOMAIN request /\ me.opens = Nobody
        /\ RunsAs(s) /\ Found(s) /\ Holds(s) /\ Req(s).delta \in Int /\ me.credit \in Credits
    BY <1>1, Acting DEF WellFormed, Runs
  <1>3. CASE Continue(s, m1)
    <2>1. m1 \in Runs
      <3>1. me \in Runs
        BY <1>2
      <3> HIDE DEF me
      <3> QED
        BY <3>1, StepNames, ZenonT(40) DEF Runs
    <2>2. m1.pc = "ready" /\ m1.outcome = "denied" /\ m1.op = me.op /\ m1.opens = Nobody
      BY <1>2 DEF Runs
    <2>3. session'[s] = m1
      BY <1>3 DEF Continue, Serial, TypeOK
    <2> HIDE DEF m1
    <2>4. Good(s)'
      BY <1>1, <1>2, <2>2, <2>3 DEF Good, RunsAs, Found, Holds, Decided, Opens, OnAccount, OnGame,
        OnOperation, OnUser, OnEnrollment, Planned, Kind, tables, inputs
    <2> QED
      BY <1>1, <1>3, <2>1, <2>2, <2>4, InnerStep DEF MayAcquire, m1
  <1>4. CASE me.credit.available + Req(s).delta >= 0 /\ Continue(s, m2)
    <2>1. after \in Credits
      BY <1>2, <1>4, AmountPaid
    <2>2. /\ m2 \in Runs /\ m2.pc = "ready" /\ m2.op = me.op /\ m2.account = me.account
          /\ m2.credit = me.credit /\ m2.outcome = "done" /\ m2.opens = Nobody /\ m2.after = after
      <3> HIDE DEF after
      <3> QED
        BY <1>2, <2>1, StepNames, ZenonT(40) DEF Runs
    <2>3. session'[s] = m2
      BY <1>4 DEF Continue, Serial, TypeOK
    <2> HIDE DEF m2
    <2>4. RunsAs(s)' /\ Opens(s)' /\ Decided(s)'
      BY <1>1, <1>2, <1>4, <2>2, <2>3 DEF RunsAs, Opens, Decided, AdjustmentPlanned, Planned, Kind, Req, inputs
    <2>5. Found(s)' /\ Holds(s)'
      BY <1>1, <1>2, <2>2, <2>3 DEF Found, Holds, RunsAs, OnAccount, OnGame, OnOperation, OnUser,
        OnEnrollment, Planned, Kind, Req, tables, inputs
    <2> QED
      BY <1>1, <1>4, <2>2, <2>4, <2>5, InnerStep DEF MayAcquire, Good, m2
  <1> QED
    BY <1>3, <1>4 DEF PlanAdjustment, AdjustmentAllowed

-----------------------------------------------------------------------------
\* Enrolments, departures and the operation id.

\* The user's row is locked.
LEMMA LockUserStep == ASSUME Serial, NEW s \in Sessions, LockUser(s) PROVE Serial'
  <1> DEFINE me == session[s]
             u == Req(s).user
             m == [me EXCEPT !.pc = "user_locked"]
  <1>1. /\ me.pc = "begun" /\ Kind(s) = "enroll" /\ Free(<<"user", u>>) /\ Acquire(s, <<"user", u>>)
        /\ Continue(s, m) /\ UNCHANGED <<now, tables, revisions, inputs, answers>>
    BY DEF LockUser
  <1>2. me \in Runs /\ me.op \in DOMAIN request /\ me.opens = Nobody /\ u \in Users
    BY <1>1, Acting DEF WellFormed
  <1>3. m \in Runs
    BY <1>2, StepNames, ZenonT(40) DEF Runs
  <1>4. m.pc = "user_locked" /\ m.op = me.op /\ m.opens = Nobody
    BY <1>2 DEF Runs
  <1>5. session'[s] = m
    BY <1>1 DEF Continue, Serial, TypeOK
  <1>6. <<"user", u>> \in Resources /\ lock'[<<"user", u>>] = s
    BY <1>1, <1>2 DEF Resources, Acquire, Serial, TypeOK
  <1> HIDE DEF m
  <1>7. Good(s)'
    BY <1>1, <1>2, <1>4, <1>5, <1>6 DEF Good, RunsAs, Found, Holds, Decided, Opens, OnAccount, OnGame,
      OnOperation, OnUser, OnEnrollment, Planned, Kind, Req, inputs
  <1> QED
    BY <1>1, <1>3, <1>4, <1>6, <1>7, InnerStep DEF MayAcquire, m

\* A new account is chosen, or the user is enrolled already.
LEMMA PlanEnrollmentStep == ASSUME Serial, NEW s \in Sessions, PlanEnrollment(s) PROVE Serial'
  <1> DEFINE me == session[s]
  <1>1. me.pc = "user_locked" /\ UNCHANGED <<now, tables, revisions, lock, inputs, answers>>
    BY DEF PlanEnrollment
  <1>2. /\ me \in Runs /\ me.op \in DOMAIN request /\ me.opens = Nobody
        /\ RunsAs(s) /\ Holds(s) /\ Kind(s) = "enroll"
    BY <1>1, Acting DEF RunsAs
  <1>3. CASE Deny(s)
    BY <1>1, <1>2, <1>3, DenyStep
  <1>4. ASSUME \A c \in Accounts : ~EnrolledAs(Req(s).user, c), NEW a \in Accounts,
               enrollment[a].status = "none", \A t \in Sessions : session[t].opens # a,
               Continue(s, [me EXCEPT !.pc = "key", !.opens = a, !.outcome = "done"])
        PROVE  Serial'
    <2> DEFINE m == [me EXCEPT !.pc = "key", !.opens = a, !.outcome = "done"]
    <2>1. m \in Runs
      <3>1. a \in Accounts \cup {Nobody} /\ "key" \in Steps
        BY StepNames
      <3>2. "done" \in {"none", "later", "denied", "done"} /\ me \in Runs
        BY <1>2
      <3> QED
        BY <3>1, <3>2 DEF Runs
    <2>2. m.pc = "key" /\ m.op = me.op /\ m.opens = a /\ m.outcome = "done"
      BY <1>2 DEF Runs
    <2>3. session'[s] = m /\ \A t \in Sessions : t # s => session'[t] = session[t]
      BY <1>4 DEF Continue, Serial, TypeOK
    <2> HIDE DEF m
    <2>4. Kind(s)' = "enroll" /\ Req(s)' = Req(s)
      BY <1>1, <1>2, <2>2, <2>3 DEF Kind, Req, inputs
    <2>5. RunsAs(s)' /\ Found(s)' /\ Holds(s)'
      BY <1>1, <1>2, <2>2, <2>3, <2>4 DEF RunsAs, Found, Holds, OnAccount, OnGame, OnOperation,
        OnUser, OnEnrollment, Planned, Kind, Req, tables, inputs
    <2>6. EnrollmentPlanned(s)'
      BY <1>1, <1>4, <2>2, <2>3, <2>4 DEF EnrollmentPlanned, EnrolledAs, tables
    <2>7. Opens(s)'
      BY <1>4, <2>2, <2>3, <2>4 DEF Opens, Planned
    <2>8. Decided(s)'
      BY <2>4, <2>6 DEF Decided
    <2>9. \A t \in Sessions : session[t].opens # m.opens
      BY <1>4, <2>2
    <2>10. Continue(s, m)
      BY <1>4 DEF m
    <2> QED
      BY <1>1, <2>1, <2>5, <2>7, <2>8, <2>9, <2>10, InnerStep DEF MayAcquire, Good
  <1> QED
    BY <1>3, <1>4 DEF PlanEnrollment

\* A departure finds the enrolment, or has nothing to do.
LEMMA FindEnrollmentStep == ASSUME Serial, NEW s \in Sessions, FindEnrollment(s) PROVE Serial'
  <1> DEFINE me == session[s]
  <1>1. me.pc = "begun" /\ Kind(s) = "depart" /\ UNCHANGED <<now, tables, revisions, inputs>>
    BY DEF FindEnrollment
  <1>2. me \in Runs /\ me.op \in DOMAIN request /\ me.opens = Nobody
    BY <1>1, Acting
  <1>3. CASE Finish(s, "nothing")
    BY <1>1, <1>3, FinishStep DEF Answers
  <1>4. ASSUME NEW a \in Accounts, EnrolledAs(Req(s).user, a), UNCHANGED <<lock, answers>>,
               Continue(s, [me EXCEPT !.pc = "leaving", !.account = a])
        PROVE  Serial'
    <2> DEFINE m == [me EXCEPT !.pc = "leaving", !.account = a]
    <2>1. m \in Runs
      BY <1>2, StepNames, ZenonT(40) DEF Runs
    <2>2. m.pc = "leaving" /\ m.account = a /\ m.op = me.op /\ m.opens = Nobody
      BY <1>2 DEF Runs
    <2>3. session'[s] = m
      BY <1>4 DEF Continue, Serial, TypeOK
    <2> HIDE DEF m
    <2>4. Good(s)'
      BY <1>1, <1>2, <1>4, <2>2, <2>3 DEF Good, RunsAs, Found, Holds, Decided, Opens, OnAccount,
        OnGame, OnOperation, OnUser, OnEnrollment, Planned, Kind, tables, inputs, EnrolledAs
    <2>5. Continue(s, m)
      BY <1>4 DEF m
    <2> QED
      BY <1>1, <1>4, <2>1, <2>2, <2>4, <2>5, InnerStep DEF MayAcquire
  <1> QED
    BY <1>3, <1>4 DEF FindEnrollment

\* The enrolment is locked and still active, or there is nothing to do.
LEMMA LockEnrollmentStep == ASSUME Serial, NEW s \in Sessions, LockEnrollment(s) PROVE Serial'
  <1> DEFINE me == session[s]
             a == me.account
             m == [me EXCEPT !.pc = "key", !.outcome = "done"]
  <1>1. me.pc = "leaving" /\ UNCHANGED <<now, tables, revisions, inputs>> /\ Free(<<"enrollment", a>>)
    BY DEF LockEnrollment
  <1>2. /\ me \in Runs /\ me.op \in DOMAIN request /\ me.opens = Nobody
        /\ RunsAs(s) /\ Kind(s) = "depart" /\ a \in Accounts
    BY <1>1, Acting DEF RunsAs, Found
  <1>3. CASE Finish(s, "nothing")
    BY <1>1, <1>3, FinishStep DEF Answers
  <1>4. CASE /\ enrollment[a].status = "active" /\ Acquire(s, <<"enrollment", a>>)
             /\ Continue(s, m) /\ UNCHANGED answers
    <2>1. m \in Runs
      BY <1>2, StepNames, ZenonT(40) DEF Runs
    <2>2. m.pc = "key" /\ m.outcome = "done" /\ m.account = a /\ m.op = me.op /\ m.opens = Nobody
      BY <1>2 DEF Runs
    <2>3. session'[s] = m
      BY <1>4 DEF Continue, Serial, TypeOK
    <2>4. <<"enrollment", a>> \in Resources /\ lock'[<<"enrollment", a>>] = s
      BY <1>2, <1>4 DEF Resources, Acquire, Serial, TypeOK
    <2> HIDE DEF m
    <2>5. Good(s)'
      BY <1>1, <1>2, <1>4, <2>2, <2>3, <2>4 DEF Good, RunsAs, Found, Holds, Decided, Opens, OnAccount,
        OnGame, OnOperation, OnUser, OnEnrollment, Planned, Kind, tables, inputs
    <2> QED
      BY <1>1, <1>4, <2>1, <2>2, <2>4, <2>5, InnerStep DEF MayAcquire, m
  <1> QED
    BY <1>3, <1>4 DEF LockEnrollment

\* The operation id is inserted or found.
LEMMA TakeOperationStep == ASSUME Serial, NEW s \in Sessions, TakeOperation(s) PROVE Serial'
  <1> DEFINE me == session[s]
             o == me.op
             next == IF Kind(s) = "adjust" THEN "operation" ELSE "ready"
             m == [me EXCEPT !.pc = next]
  <1>1. me.pc = "key" /\ UNCHANGED <<now, tables, revisions, inputs>> /\ Free(<<"op", o>>)
    BY DEF TakeOperation
  <1>2. /\ me \in Runs /\ me.op \in DOMAIN request /\ o \in Ops
        /\ RunsAs(s) /\ Found(s) /\ Holds(s) /\ Decided(s) /\ Opens(s)
    BY <1>1, Acting
  <1>3. CASE Finish(s, RepeatedAnswer(s))
    <2>1. RepeatedAnswer(s) \in Answers
      BY DEF RepeatedAnswer, Answers
    <2> QED
      BY <1>1, <1>3, <2>1, FinishStep
  <1>4. CASE operation[o] = "unused" /\ Acquire(s, <<"op", o>>) /\ Continue(s, m) /\ UNCHANGED answers
    <2>1. m \in Runs /\ next \in {"operation", "ready"}
      BY <1>2, StepNames, ZenonT(40) DEF Runs
    <2>2. /\ m.pc = next /\ m.outcome = me.outcome /\ m.account = me.account /\ m.op = me.op
          /\ m.opens = me.opens /\ m.at = me.at /\ m.credit = me.credit /\ m.game = me.game
          /\ m.row = me.row /\ m.revision = me.revision /\ m.after = me.after /\ m.entry = me.entry
      BY <1>2 DEF Runs
    <2>3. session'[s] = m /\ \A t \in Sessions : t # s => session'[t] = session[t]
      BY <1>4 DEF Continue, Serial, TypeOK
    <2>4. /\ <<"op", o>> \in Resources /\ lock'[<<"op", o>>] = s
          /\ \A r \in Resources : r # <<"op", o>> => lock'[r] = lock[r]
      BY <1>2, <1>4 DEF Resources, Acquire, Serial, TypeOK
    <2>5. MayAcquire(s) /\ Continue(s, m)
      BY <1>1, <1>4, <2>4 DEF MayAcquire
    <2> HIDE DEF m
    <2>6. Kind(s)' = Kind(s) /\ Req(s)' = Req(s)
      BY <1>1, <2>2, <2>3 DEF Kind, Req, inputs
    <2>7. /\ OnAccount(s)' => OnAccount(s)
          /\ OnGame(s)' => OnGame(s)
          /\ OnUser(s)' => OnUser(s)
          /\ OnEnrollment(s)' => OnEnrollment(s)
          /\ Planned(s)' => Planned(s)
      BY <1>1, <2>1, <2>2, <2>3, <2>6 DEF OnAccount, OnGame, OnUser, OnEnrollment, Planned
    <2>8. RunsAs(s)'
      BY <1>1, <1>2, <2>1, <2>2, <2>3, <2>6 DEF RunsAs, inputs
    <2>9. Found(s)'
      BY <1>1, <1>2, <2>1, <2>2, <2>3, <2>6, <2>7 DEF Found, tables
    <2>10. Holds(s)'
      <3>1. ASSUME OnAccount(s) PROVE <<"account", me.account>> \in Resources
        BY <1>2, <3>1 DEF Found, Resources
      <3>2. ASSUME OnGame(s) PROVE <<"game", me.game>> \in Resources
        BY <1>2, <3>2 DEF Found, Resources
      <3>3. ASSUME OnUser(s) PROVE <<"user", Req(s).user>> \in Resources
        BY <1>1, <3>3, Acting DEF OnUser, WellFormed, Resources
      <3>4. ASSUME OnEnrollment(s) PROVE <<"enrollment", me.account>> \in Resources
        BY <1>2, <3>4 DEF Found, Resources
      <3> QED
        BY <1>1, <1>2, <1>4, <2>2, <2>3, <2>4, <2>6, <2>7, <3>1, <3>2, <3>3, <3>4
        DEF Holds, Current, tables
    <2>11. Decided(s)'
      <3>1. ClaimPlanned(s) => ClaimPlanned(s)'
        BY <1>1, <2>2, <2>3 DEF ClaimPlanned, tables
      <3>2. BetPlanned(s) => BetPlanned(s)'
        BY <1>1, <2>2, <2>3, <2>6 DEF BetPlanned, Spent, BetsOf, tables
      <3>3. SettlementPlanned(s) => SettlementPlanned(s)'
        <4>1. bet' = bet
          BY <1>1 DEF tables
        <4> QED
          BY <2>2, <2>3, <2>6, <4>1, ZenonT(40) DEF SettlementPlanned, Settled
      <3>4. AdjustmentPlanned(s) => AdjustmentPlanned(s)'
        BY <2>2, <2>3, <2>6 DEF AdjustmentPlanned
      <3>5. EnrollmentPlanned(s) => EnrollmentPlanned(s)'
        BY <1>1, <2>2, <2>3, <2>6 DEF EnrollmentPlanned, EnrolledAs, tables
      <3> QED
        BY <1>2, <2>6, <2>7, <3>1, <3>2, <3>3, <3>4, <3>5 DEF Decided
    <2>12. Opens(s)'
      BY <1>1, <1>2, <2>1, <2>2, <2>3, <2>6 DEF Opens, Planned, RunsAs
    <2>13. m.opens \in {me.opens, Nobody}
      BY <2>2
    <2> QED
      BY <1>1, <1>4, <2>1, <2>5, <2>8, <2>9, <2>10, <2>11, <2>12, <2>13, InnerStep DEF Good
  <1> QED
    BY <1>3, <1>4 DEF TakeOperation

-----------------------------------------------------------------------------
\* Commits.

\* What the commits have in common, and the commit of each kind of request.
Commits(s, kind) ==
  /\ session[s].pc = "ready" /\ session[s].outcome = "done" /\ Kind(s) = kind
  /\ operation' = [operation EXCEPT ![session[s].op] = "accepted"]
  /\ \E answer \in {"done", "error"} : Finish(s, answer)
  /\ UNCHANGED <<now, revisions, inputs>>
Pays(s) == account' = [account EXCEPT ![session[s].account] = session[s].after]

ClaimCommits(s) ==
  /\ Commits(s, "claim") /\ Pays(s)
  /\ claims' = claims \cup {[account |-> session[s].account, day |-> KstDate(session[s].at),
                             op |-> session[s].op]}
  /\ UNCHANGED <<enrollment, bet, settlements, adjusted>>
BetCommits(s) ==
  /\ Commits(s, "place") /\ Pays(s) /\ ~MarketTaken(session[s].entry)
  /\ bet' = [bet EXCEPT ![session[s].op] = session[s].entry]
  /\ UNCHANGED <<enrollment, claims, settlements, adjusted>>
SettlementCommits(s) ==
  /\ Commits(s, "settle") /\ Pays(s)
  /\ bet' = [bet EXCEPT ![Req(s).bet] = session[s].entry]
  /\ settlements' = settlements \cup
       {[op |-> session[s].op, bet |-> Req(s).bet, revision |-> session[s].revision]}
  /\ UNCHANGED <<enrollment, claims, adjusted>>
AdjustmentCommits(s) ==
  /\ Commits(s, "adjust") /\ Pays(s)
  /\ adjusted' = adjusted \cup {session[s].op}
  /\ UNCHANGED <<enrollment, claims, bet, settlements>>
EnrollmentCommits(s) ==
  /\ Commits(s, "enroll")
  /\ enrollment' = [enrollment EXCEPT ![session[s].opens] =
                      [status |-> "active", user |-> Req(s).user]]
  /\ account' = [account EXCEPT ![session[s].opens] = Empty]
  /\ UNCHANGED <<claims, bet, settlements, adjusted>>
DepartureCommits(s) ==
  /\ Commits(s, "depart")
  /\ enrollment' = [enrollment EXCEPT ![session[s].account] =
                      [status |-> "departed", user |-> Nobody]]
  /\ UNCHANGED <<account, claims, bet, settlements, adjusted>>

\* A commit is one of these.
LEMMA CommitKinds ==
  ASSUME NEW s, CommitDone(s)
  PROVE  \/ ClaimCommits(s) \/ BetCommits(s) \/ SettlementCommits(s)
         \/ AdjustmentCommits(s) \/ EnrollmentCommits(s) \/ DepartureCommits(s)
  BY DEF CommitDone, ClaimCommits, BetCommits, SettlementCommits, AdjustmentCommits,
         EnrollmentCommits, DepartureCommits, Commits, Pays

\* Operations that were decided stay so.
LEMMA MadeStays ==
  ASSUME Serial, NEW o \in Ops, operation[o] = "unused", NEW decision,
         operation' = [operation EXCEPT ![o] = decision], request' = request
  PROVE  /\ \A p, kind : Made(p, kind) => Made(p, kind)'
         /\ \A p, kind : Made(p, kind) => p # o
         /\ operation'[o] = decision
         /\ \A p \in Ops : p # o => operation'[p] = operation[p]
  BY TransactionConstants DEF Made, Serial, TypeOK

\* What a session that commits knows, and what its commit does in any case.
LEMMA Committing ==
  ASSUME Serial, NEW s \in Sessions, NEW kind, Commits(s, kind)
  PROVE  /\ session[s] \in Runs /\ session[s].op \in Ops /\ session[s].op \in DOMAIN request
         /\ Planned(s) /\ Kind(s) = kind /\ WellFormed(Req(s)) /\ Req(s).kind = kind
         /\ Found(s) /\ Holds(s) /\ Decided(s) /\ Opens(s)
         /\ operation[session[s].op] = "unused" /\ lock[<<"op", session[s].op>>] = s
         /\ operation' \in [Ops -> {"unused", "accepted", "denied"}]
         /\ operation'[session[s].op] = "accepted"
         /\ \A p \in Ops : p # session[s].op => operation'[p] = operation[p]
         /\ \A p, k : Made(p, k) => Made(p, k)' /\ p # session[s].op
         /\ \A o : o = session[s].op => Made(o, kind)'
         /\ now' = now /\ revisions' = revisions /\ request' = request
         /\ session' \in [Sessions -> Runs] /\ session'[s] = Idle
         /\ \A t \in Sessions : t # s => session'[t] = session[t]
         /\ lock' \in [Resources -> Sessions \cup {Nobody}]
         /\ \A r \in Resources : lock[r] \notin {s, Nobody} => lock'[r] = lock[r]
         /\ answers' \in [Ops -> SUBSET Answers]
         /\ session'[s].opens = Nobody
         /\ Good(s)'
  <1>1. session[s].pc = "ready" /\ session[s].outcome = "done" /\ Kind(s) = kind
    BY DEF Commits
  <1>2. PICK answer \in {"done", "error"} : Finish(s, answer)
    BY DEF Commits
  <1>3. answer \in Answers
    BY DEF Answers
  <1>4. /\ session[s] \in Runs /\ session[s].op \in Ops /\ session[s].op \in DOMAIN request
        /\ WellFormed(Req(s)) /\ Req(s).kind = kind
        /\ Found(s) /\ Holds(s) /\ Decided(s) /\ Opens(s)
    BY <1>1, Acting
  <1>5. operation[session[s].op] = "unused" /\ lock[<<"op", session[s].op>>] = s /\ Planned(s)
    BY <1>1, <1>4 DEF Holds, OnOperation, Planned
  <1>6. operation' \in [Ops -> {"unused", "accepted", "denied"}]
    BY <1>4 DEF Commits, Serial, TypeOK
  <1>7. now' = now /\ revisions' = revisions /\ request' = request
    BY DEF Commits, inputs
  <1>8. /\ operation'[session[s].op] = "accepted"
        /\ \A p \in Ops : p # session[s].op => operation'[p] = operation[p]
        /\ \A p, k : Made(p, k) => Made(p, k)' /\ p # session[s].op
    BY <1>4, <1>5, <1>7, MadeStays DEF Commits
  <1>9. \A o : o = session[s].op => Made(o, kind)'
    BY <1>4, <1>7, <1>8 DEF Made, Req
  <1>10. /\ session' \in [Sessions -> Runs] /\ session'[s] = Idle
         /\ \A t \in Sessions : t # s => session'[t] = session[t]
         /\ lock' \in [Resources -> Sessions \cup {Nobody}]
         /\ \A r \in Resources : lock[r] \notin {s, Nobody} => lock'[r] = lock[r]
         /\ answers' \in [Ops -> SUBSET Answers]
         /\ session'[s].opens = Nobody
         /\ Good(s)'
    BY <1>1, <1>2, <1>3, FinishEffect
  <1> QED
    BY <1>1, <1>4, <1>5, <1>6, <1>7, <1>8, <1>9, <1>10

\* What a commit that pays an account knows of it.
LEMMA Paying ==
  ASSUME Serial, NEW s \in Sessions, NEW kind \in {"claim", "place", "settle", "adjust"},
         Commits(s, kind), Pays(s)
  PROVE  LET a == session[s].account
         IN  /\ a \in Accounts /\ enrollment[a].status # "none"
             /\ lock[<<"account", a>>] = s /\ session[s].credit = account[a]
             /\ session[s].after \in Credits
             /\ account' \in [Accounts -> Credits] /\ account'[a] = session[s].after
             /\ \A c \in Accounts : c # a => account'[c] = account[c]
  <1>1. /\ session[s] \in Runs /\ Planned(s) /\ Kind(s) = kind /\ Found(s) /\ Holds(s)
    BY Committing
  <1>2. OnAccount(s)
    BY <1>1 DEF OnAccount
  <1>3. session[s].after \in Credits
    BY <1>1 DEF Runs
  <1>4. /\ session[s].account \in Accounts /\ enrollment[session[s].account].status # "none"
        /\ lock[<<"account", session[s].account>>] = s /\ session[s].credit = account[session[s].account]
    BY <1>1, <1>2 DEF Found, Holds
  <1> QED
    BY <1>3, <1>4 DEF Pays, Serial, TypeOK

\* A claim commits.
LEMMA ClaimCommitStep == ASSUME Serial, NEW s \in Sessions, ClaimCommits(s) PROVE Serial'
  <1> DEFINE a == session[s].account
             o == session[s].op
             new == [account |-> a, day |-> KstDate(session[s].at), op |-> o]
  <1>1. /\ Commits(s, "claim") /\ Pays(s) /\ claims' = claims \cup {new}
        /\ UNCHANGED <<enrollment, bet, settlements, adjusted>>
    BY DEF ClaimCommits
  <1>2. /\ session[s] \in Runs /\ o \in Ops /\ lock[<<"op", o>>] = s
        /\ operation' \in [Ops -> {"unused", "accepted", "denied"}]
        /\ \A p \in Ops : p # o => operation'[p] = operation[p]
        /\ \A p, k : Made(p, k) => Made(p, k)'
        /\ \A p : p = o => Made(p, "claim")'
        /\ now' = now /\ revisions' = revisions /\ request' = request
        /\ session' \in [Sessions -> Runs]
        /\ \A t \in Sessions : t # s => session'[t] = session[t]
        /\ lock' \in [Resources -> Sessions \cup {Nobody}]
        /\ \A r \in Resources : lock[r] \notin {s, Nobody} => lock'[r] = lock[r]
        /\ answers' \in [Ops -> SUBSET Answers] /\ session'[s].opens = Nobody /\ Good(s)'
    BY <1>1, Committing
  <1>3. /\ a \in Accounts /\ enrollment[a].status # "none" /\ lock[<<"account", a>>] = s
        /\ account' \in [Accounts -> Credits]
        /\ \A c \in Accounts : c # a => account'[c] = account[c]
    BY <1>1, Paying
  <1>4. new \in [account : Accounts, day : Int, op : Ops \cup {Nobody}] /\ new.account = a /\ new.op = o
    BY <1>2, <1>3, DateType DEF Runs
  <1> HIDE DEF new
  <1>5. TypeOK'
    BY <1>1, <1>2, <1>3, <1>4 DEF Serial, TypeOK, Answers
  <1>6. Respects(s)
    BY <1>1, <1>2, <1>3, <1>4 DEF Respects, BetsOf
  <1>7. Rows'
    <2>1. \A c \in claims' : c.op # Nobody => Made(c.op, "claim")'
      BY <1>1, <1>2, <1>4 DEF Serial, Rows
    <2>2. \A c \in Accounts : enrollment'[c].status = "none" =>
            /\ account'[c] = Empty /\ BetsOf(c)' = {}
            /\ \A x \in claims' : x.account # c
            /\ \A p \in adjusted' : request'[p].account # c
      BY <1>1, <1>2, <1>3, <1>4 DEF Serial, Rows, BetsOf
    <2>3. \A b \in Ops : bet'[b] # NoBet =>
            /\ Made(b, "place")'
            /\ bet'[b].status = "pending" <=> bet'[b].revision = 0
            /\ bet'[b].revision = 0 => bet'[b].returned = 0
      BY <1>1, <1>2 DEF Serial, Rows
    <2>4. /\ \A x \in settlements' :
               Made(x.op, "settle")' /\ bet'[x.bet] # NoBet /\ x.revision <= bet'[x.bet].revision
          /\ \A p \in adjusted' : Made(p, "adjust")'
      BY <1>1, <1>2 DEF Serial, Rows
    <2> QED
      BY <2>1, <2>2, <2>3, <2>4 DEF Rows
  <1> QED
    BY <1>2, <1>5, <1>6, <1>7, AllGood DEF Serial

\* A bet commits.
LEMMA BetCommitStep == ASSUME Serial, NEW s \in Sessions, BetCommits(s) PROVE Serial'
  <1> DEFINE a == session[s].account
             o == session[s].op
             new == session[s].entry
  <1>1. /\ Commits(s, "place") /\ Pays(s) /\ bet' = [bet EXCEPT ![o] = new]
        /\ UNCHANGED <<enrollment, claims, settlements, adjusted>>
    BY DEF BetCommits
  <1>2. /\ session[s] \in Runs /\ o \in Ops /\ lock[<<"op", o>>] = s
        /\ operation' \in [Ops -> {"unused", "accepted", "denied"}]
        /\ \A p \in Ops : p # o => operation'[p] = operation[p]
        /\ \A p, k : Made(p, k) => Made(p, k)' /\ p # o
        /\ \A p : p = o => Made(p, "place")'
        /\ now' = now /\ revisions' = revisions /\ request' = request
        /\ session' \in [Sessions -> Runs]
        /\ \A t \in Sessions : t # s => session'[t] = session[t]
        /\ lock' \in [Resources -> Sessions \cup {Nobody}]
        /\ \A r \in Resources : lock[r] \notin {s, Nobody} => lock'[r] = lock[r]
        /\ answers' \in [Ops -> SUBSET Answers] /\ session'[s].opens = Nobody /\ Good(s)'
    BY <1>1, Committing
  <1>3. /\ a \in Accounts /\ enrollment[a].status # "none" /\ lock[<<"account", a>>] = s
        /\ account' \in [Accounts -> Credits]
        /\ \A c \in Accounts : c # a => account'[c] = account[c]
    BY <1>1, Paying
  <1>4. new \in Bets \cup {NoBet} /\ new.account = a /\ new.status = "pending" /\ new.revision = 0
        /\ new.returned = 0
    <2>1. BetPlanned(s)
      BY <1>1, Committing DEF Decided
    <2> QED
      BY <1>2, <2>1 DEF BetPlanned, Runs
  <1>5. bet[o] = NoBet
    BY <1>2 DEF Serial, Rows
  <1>6. /\ bet' \in [Ops -> Bets \cup {NoBet}] /\ bet'[o] = new
        /\ \A b \in Ops : b # o => bet'[b] = bet[b]
    BY <1>1, <1>2, <1>4 DEF Serial, TypeOK
  <1> HIDE DEF new
  <1>7. TypeOK'
    BY <1>1, <1>2, <1>3, <1>6 DEF Serial, TypeOK, Answers
  <1>8. ASSUME NEW c \in Accounts, c # a
        PROVE  BetsOf(c)' = BetsOf(c) /\ \A b \in BetsOf(c) : bet'[b] = bet[b]
    BY <1>4, <1>5, <1>6, <1>8 DEF BetsOf
  <1>9. Respects(s)
    BY <1>1, <1>2, <1>3, <1>5, <1>6, <1>8 DEF Respects
  <1>10. Rows'
    <2>1. \A c \in claims' : c.op # Nobody => Made(c.op, "claim")'
      BY <1>1, <1>2 DEF Serial, Rows
    <2>2. \A c \in Accounts : enrollment'[c].status = "none" =>
            /\ account'[c] = Empty /\ BetsOf(c)' = {}
            /\ \A x \in claims' : x.account # c
            /\ \A p \in adjusted' : request'[p].account # c
      BY <1>1, <1>2, <1>3, <1>8 DEF Serial, Rows
    <2>3. \A b \in Ops : bet'[b] # NoBet =>
            /\ Made(b, "place")'
            /\ bet'[b].status = "pending" <=> bet'[b].revision = 0
            /\ bet'[b].revision = 0 => bet'[b].returned = 0
      BY <1>2, <1>4, <1>6 DEF Serial, Rows
    <2>4. /\ \A x \in settlements' :
               Made(x.op, "settle")' /\ bet'[x.bet] # NoBet /\ x.revision <= bet'[x.bet].revision
          /\ \A p \in adjusted' : Made(p, "adjust")'
      <3>1. \A x \in settlements : x.bet \in Ops /\ x.bet # o
        BY <1>5 DEF Serial, Rows, TypeOK
      <3> QED
        BY <1>1, <1>2, <1>6, <3>1 DEF Serial, Rows
    <2> QED
      BY <2>1, <2>2, <2>3, <2>4 DEF Rows
  <1> QED
    BY <1>2, <1>7, <1>9, <1>10, AllGood DEF Serial

\* What a settlement that is planned knows of its bet and makes of it.
LEMMA Settling ==
  ASSUME Serial, NEW s \in Sessions, Commits(s, "settle")
  PROVE  LET b   == Req(s).bet
             new == session[s].entry
         IN  /\ b \in Ops /\ bet[b] # NoBet /\ bet[b] \in Bets
             /\ bet[b].account = session[s].account /\ bet[b].game = session[s].game
             /\ session[s].game \in Games
             /\ session[s].row = Current(session[s].game)
             /\ session[s].revision = Len(revisions[session[s].game])
             /\ SettlementDue(bet[b].revision, Req(s).revision, session[s].revision, session[s].row)
             /\ Settled(bet[b], session[s])
             /\ new \in Bets /\ new.account = bet[b].account /\ new.game = bet[b].game
             /\ new.market = bet[b].market /\ new.prediction = bet[b].prediction
             /\ new.stake = bet[b].stake /\ new.day = bet[b].day
             /\ new.status # "pending" /\ new.revision = session[s].revision
             /\ new.status =
                  IF ResultOf(bet[b].prediction, session[s].row) = "void" THEN "void" ELSE "settled"
             /\ new.returned =
                  ReturnOf(bet[b].stake, ResultOf(bet[b].prediction, session[s].row))
             /\ bet[b].revision < new.revision /\ new.revision \in Nat \ {0}
  <1> DEFINE b == Req(s).bet
             new == session[s].entry
             row == bet[b]
  <1>1. /\ session[s] \in Runs /\ Planned(s) /\ Kind(s) = "settle" /\ Found(s) /\ Holds(s)
        /\ SettlementPlanned(s) /\ b \in Ops
    BY Committing DEF Decided, WellFormed
  <1>2. OnAccount(s) /\ OnGame(s)
    BY <1>1 DEF OnAccount, OnGame
  <1>3. /\ row # NoBet /\ row.account = session[s].account /\ row.game = session[s].game
        /\ session[s].game \in Games
        /\ session[s].row = Current(session[s].game)
        /\ session[s].revision = Len(revisions[session[s].game])
    BY <1>1, <1>2 DEF Found, Holds
  <1>4. row \in Bets
    BY <1>1, <1>3 DEF Serial, TypeOK
  <1>5. /\ SettlementDue(row.revision, Req(s).revision, session[s].revision, session[s].row)
        /\ Settled(row, session[s])
    BY <1>1 DEF SettlementPlanned
  <1>6. row.revision < session[s].revision /\ session[s].revision \in Nat \ {0}
    <2>1. row.revision \in Nat /\ session[s].revision \in Nat
      BY <1>1, <1>4 DEF Bets, Runs
    <2> QED
      BY <1>5, <2>1 DEF SettlementDue
  <1>7. PICK result : result = ResultOf(row.prediction, session[s].row)
    OBVIOUS
  <1>8. new = [row EXCEPT !.status = IF result = "void" THEN "void" ELSE "settled",
                          !.revision = session[s].revision, !.returned = ReturnOf(row.stake, result)]
    BY <1>5, <1>7 DEF Settled
  <1>9. ReturnOf(row.stake, result) \in Nat
    <2>1. row.stake \in Nat
      BY <1>4, RuleConstants DEF Bets, Stakes
    <2> QED
      BY <2>1, ReturnType
  <1>10. /\ new \in Bets /\ new.account = row.account /\ new.game = row.game
         /\ new.market = row.market /\ new.prediction = row.prediction
         /\ new.stake = row.stake /\ new.day = row.day
         /\ new.status = IF result = "void" THEN "void" ELSE "settled"
         /\ new.revision = session[s].revision /\ new.returned = ReturnOf(row.stake, result)
    BY <1>4, <1>6, <1>8, <1>9 DEF Bets
  <1>11. new.status # "pending" /\ row.revision < new.revision /\ new.revision \in Nat \ {0}
    BY <1>6, <1>10
  <1> QED
    BY <1>1, <1>3, <1>4, <1>5, <1>7, <1>10, <1>11

\* A settlement commits.
LEMMA SettlementCommitStep == ASSUME Serial, NEW s \in Sessions, SettlementCommits(s) PROVE Serial'
  <1> DEFINE a == session[s].account
             o == session[s].op
             b == Req(s).bet
             new == session[s].entry
             x == [op |-> o, bet |-> b, revision |-> session[s].revision]
  <1>1. /\ Commits(s, "settle") /\ Pays(s) /\ bet' = [bet EXCEPT ![b] = new]
        /\ settlements' = settlements \cup {x}
        /\ UNCHANGED <<enrollment, claims, adjusted>>
    BY DEF SettlementCommits
  <1>2. /\ session[s] \in Runs /\ o \in Ops /\ lock[<<"op", o>>] = s
        /\ operation' \in [Ops -> {"unused", "accepted", "denied"}]
        /\ \A p \in Ops : p # o => operation'[p] = operation[p]
        /\ \A p, k : Made(p, k) => Made(p, k)' /\ p # o
        /\ \A p : p = o => Made(p, "settle")'
        /\ now' = now /\ revisions' = revisions /\ request' = request
        /\ session' \in [Sessions -> Runs]
        /\ \A t \in Sessions : t # s => session'[t] = session[t]
        /\ lock' \in [Resources -> Sessions \cup {Nobody}]
        /\ \A r \in Resources : lock[r] \notin {s, Nobody} => lock'[r] = lock[r]
        /\ answers' \in [Ops -> SUBSET Answers] /\ session'[s].opens = Nobody /\ Good(s)'
    BY <1>1, Committing
  <1>3. /\ a \in Accounts /\ enrollment[a].status # "none" /\ lock[<<"account", a>>] = s
        /\ account' \in [Accounts -> Credits]
        /\ \A c \in Accounts : c # a => account'[c] = account[c]
    BY <1>1, Paying
  <1>4. /\ b \in Ops /\ bet[b] # NoBet /\ bet[b].account = a /\ session[s].revision \in Nat
        /\ new \in Bets /\ new.account = a /\ new.game = bet[b].game
        /\ new.status # "pending" /\ new.revision = session[s].revision
        /\ bet[b].revision < new.revision /\ new.revision \in Nat \ {0} /\ bet[b].revision \in Nat
    BY <1>1, Settling DEF Bets
  <1>5. /\ bet' \in [Ops -> Bets \cup {NoBet}] /\ bet'[b] = new
        /\ \A p \in Ops : p # b => bet'[p] = bet[p]
    BY <1>1, <1>4 DEF Serial, TypeOK
  <1>6. new # NoBet
    BY <1>4, NoBetAssumption
  <1>7. x \in [op : Ops, bet : Ops, revision : Nat] /\ x.op = o /\ x.bet = b /\ x.revision = new.revision
    BY <1>2, <1>4
  <1> HIDE DEF new, x, b
  <1>8. TypeOK'
    BY <1>1, <1>2, <1>3, <1>5, <1>7 DEF Serial, TypeOK, Answers
  <1>9. \A c \in Accounts : BetsOf(c)' = BetsOf(c)
    BY <1>4, <1>5, <1>6 DEF BetsOf
  <1>10. ASSUME NEW c \in Accounts, c # a
         PROVE  \A p \in BetsOf(c) : bet'[p] = bet[p]
    BY <1>4, <1>5, <1>10 DEF BetsOf
  <1>11. Respects(s)
    BY <1>1, <1>2, <1>3, <1>4, <1>5, <1>6, <1>9, <1>10 DEF Respects
  <1>12. Rows'
    <2>1. \A c \in claims' : c.op # Nobody => Made(c.op, "claim")'
      BY <1>1, <1>2 DEF Serial, Rows
    <2>2. \A c \in Accounts : enrollment'[c].status = "none" =>
            /\ account'[c] = Empty /\ BetsOf(c)' = {}
            /\ \A y \in claims' : y.account # c
            /\ \A p \in adjusted' : request'[p].account # c
      BY <1>1, <1>2, <1>3, <1>9 DEF Serial, Rows
    <2>3. \A p \in Ops : bet'[p] # NoBet =>
            /\ Made(p, "place")'
            /\ bet'[p].status = "pending" <=> bet'[p].revision = 0
            /\ bet'[p].revision = 0 => bet'[p].returned = 0
      BY <1>2, <1>4, <1>5 DEF Serial, Rows
    <2>4. \A y \in settlements' :
            Made(y.op, "settle")' /\ bet'[y.bet] # NoBet /\ y.revision <= bet'[y.bet].revision
      <3> TAKE y \in settlements'
      <3>1. CASE y = x
        BY <1>2, <1>4, <1>5, <1>6, <1>7, <3>1
      <3>2. CASE y \in settlements
        <4>1. /\ y.bet \in Ops /\ y.revision \in Nat /\ Made(y.op, "settle")'
              /\ bet[y.bet] # NoBet /\ y.revision <= bet[y.bet].revision
          BY <1>2, <3>2 DEF Serial, Rows, TypeOK
        <4>2. CASE y.bet = b
          BY <1>4, <1>5, <1>6, <4>1, <4>2
        <4>3. CASE y.bet # b
          BY <1>5, <4>1, <4>3
        <4> QED
          BY <4>2, <4>3
      <3> QED
        BY <1>1, <3>1, <3>2
    <2>5. \A p \in adjusted' : Made(p, "adjust")'
      BY <1>1, <1>2 DEF Serial, Rows
    <2> QED
      BY <2>1, <2>2, <2>3, <2>4, <2>5 DEF Rows
  <1> QED
    BY <1>2, <1>8, <1>11, <1>12, AllGood DEF Serial

\* An adjustment commits.
LEMMA AdjustmentCommitStep == ASSUME Serial, NEW s \in Sessions, AdjustmentCommits(s) PROVE Serial'
  <1> DEFINE a == session[s].account
             o == session[s].op
  <1>1. /\ Commits(s, "adjust") /\ Pays(s) /\ adjusted' = adjusted \cup {o}
        /\ UNCHANGED <<enrollment, claims, bet, settlements>>
    BY DEF AdjustmentCommits
  <1>2. /\ session[s] \in Runs /\ o \in Ops /\ lock[<<"op", o>>] = s
        /\ operation' \in [Ops -> {"unused", "accepted", "denied"}]
        /\ \A p \in Ops : p # o => operation'[p] = operation[p]
        /\ \A p, k : Made(p, k) => Made(p, k)'
        /\ \A p : p = o => Made(p, "adjust")'
        /\ now' = now /\ revisions' = revisions /\ request' = request
        /\ session' \in [Sessions -> Runs]
        /\ \A t \in Sessions : t # s => session'[t] = session[t]
        /\ lock' \in [Resources -> Sessions \cup {Nobody}]
        /\ \A r \in Resources : lock[r] \notin {s, Nobody} => lock'[r] = lock[r]
        /\ answers' \in [Ops -> SUBSET Answers] /\ session'[s].opens = Nobody /\ Good(s)'
    BY <1>1, Committing
  <1>3. /\ a \in Accounts /\ enrollment[a].status # "none" /\ lock[<<"account", a>>] = s
        /\ account' \in [Accounts -> Credits]
        /\ \A c \in Accounts : c # a => account'[c] = account[c]
    BY <1>1, Paying
  <1>4. request[o].account = a
    <2>1. Found(s) /\ Planned(s) /\ Kind(s) = "adjust"
      BY <1>1, Committing
    <2> QED
      BY <2>1 DEF Found, OnAccount, Req
  <1>5. TypeOK'
    BY <1>1, <1>2, <1>3 DEF Serial, TypeOK, Answers
  <1>6. Respects(s)
    BY <1>1, <1>2, <1>3 DEF Respects, BetsOf
  <1>7. Rows'
    <2>1. \A c \in claims' : c.op # Nobody => Made(c.op, "claim")'
      BY <1>1, <1>2 DEF Serial, Rows
    <2>2. \A c \in Accounts : enrollment'[c].status = "none" =>
            /\ account'[c] = Empty /\ BetsOf(c)' = {}
            /\ \A x \in claims' : x.account # c
            /\ \A p \in adjusted' : request'[p].account # c
      BY <1>1, <1>2, <1>3, <1>4 DEF Serial, Rows, BetsOf
    <2>3. \A b \in Ops : bet'[b] # NoBet =>
            /\ Made(b, "place")'
            /\ bet'[b].status = "pending" <=> bet'[b].revision = 0
            /\ bet'[b].revision = 0 => bet'[b].returned = 0
      BY <1>1, <1>2 DEF Serial, Rows
    <2>4. /\ \A x \in settlements' :
               Made(x.op, "settle")' /\ bet'[x.bet] # NoBet /\ x.revision <= bet'[x.bet].revision
          /\ \A p \in adjusted' : Made(p, "adjust")'
      BY <1>1, <1>2 DEF Serial, Rows
    <2> QED
      BY <2>1, <2>2, <2>3, <2>4 DEF Rows
  <1> QED
    BY <1>2, <1>5, <1>6, <1>7, AllGood DEF Serial

\* An enrolment commits.
LEMMA EnrollmentCommitStep == ASSUME Serial, NEW s \in Sessions, EnrollmentCommits(s) PROVE Serial'
  <1> DEFINE a == session[s].opens
             o == session[s].op
  <1>1. /\ Commits(s, "enroll")
        /\ enrollment' = [enrollment EXCEPT ![a] = [status |-> "active", user |-> Req(s).user]]
        /\ account' = [account EXCEPT ![a] = Empty]
        /\ UNCHANGED <<claims, bet, settlements, adjusted>>
    BY DEF EnrollmentCommits
  <1>2. /\ session[s] \in Runs /\ o \in Ops /\ lock[<<"op", o>>] = s
        /\ operation' \in [Ops -> {"unused", "accepted", "denied"}]
        /\ \A p \in Ops : p # o => operation'[p] = operation[p]
        /\ \A p, k : Made(p, k) => Made(p, k)'
        /\ \A p : p = o => Made(p, "enroll")'
        /\ now' = now /\ revisions' = revisions /\ request' = request
        /\ session' \in [Sessions -> Runs]
        /\ \A t \in Sessions : t # s => session'[t] = session[t]
        /\ lock' \in [Resources -> Sessions \cup {Nobody}]
        /\ \A r \in Resources : lock[r] \notin {s, Nobody} => lock'[r] = lock[r]
        /\ answers' \in [Ops -> SUBSET Answers] /\ session'[s].opens = Nobody /\ Good(s)'
    BY <1>1, Committing
  <1>3. /\ a \in Accounts /\ enrollment[a].status = "none" /\ Req(s).user \in Users
        /\ lock[<<"user", Req(s).user>>] = s
    <2>1. Planned(s) /\ Kind(s) = "enroll" /\ WellFormed(Req(s)) /\ Req(s).kind = "enroll"
      BY <1>1, Committing
    <2>2. Holds(s) /\ Decided(s)
      BY <1>1, Committing
    <2>3. EnrollmentPlanned(s)
      BY <2>1, <2>2 DEF Decided
    <2>4. Req(s).user \in Users
      BY <2>1 DEF WellFormed
    <2>5. lock[<<"user", Req(s).user>>] = s
      BY <2>1, <2>2 DEF Holds, OnUser
    <2> QED
      BY <2>3, <2>4, <2>5 DEF EnrollmentPlanned
  <1>4. account[a] = Empty /\ account' = account
    BY <1>1, <1>3 DEF Serial, Rows, TypeOK
  <1>5. /\ enrollment' \in [Accounts -> [status : {"none", "active", "departed"},
                                         user : Users \cup {Nobody}]]
        /\ enrollment'[a].status = "active" /\ enrollment'[a].user = Req(s).user
        /\ \A c \in Accounts : c # a => enrollment'[c] = enrollment[c]
    BY <1>1, <1>3 DEF Serial, TypeOK
  <1>6. TypeOK'
    BY <1>1, <1>2, <1>4, <1>5 DEF Serial, TypeOK, Answers
  <1>7. Respects(s)
    BY <1>1, <1>2, <1>3, <1>4, <1>5 DEF Respects, BetsOf
  <1>8. Rows'
    <2>1. \A c \in claims' : c.op # Nobody => Made(c.op, "claim")'
      BY <1>1, <1>2 DEF Serial, Rows
    <2>2. \A c \in Accounts : enrollment'[c].status = "none" =>
            /\ account'[c] = Empty /\ BetsOf(c)' = {}
            /\ \A x \in claims' : x.account # c
            /\ \A p \in adjusted' : request'[p].account # c
      BY <1>1, <1>2, <1>4, <1>5 DEF Serial, Rows, BetsOf
    <2>3. \A b \in Ops : bet'[b] # NoBet =>
            /\ Made(b, "place")'
            /\ bet'[b].status = "pending" <=> bet'[b].revision = 0
            /\ bet'[b].revision = 0 => bet'[b].returned = 0
      BY <1>1, <1>2 DEF Serial, Rows
    <2>4. /\ \A x \in settlements' :
               Made(x.op, "settle")' /\ bet'[x.bet] # NoBet /\ x.revision <= bet'[x.bet].revision
          /\ \A p \in adjusted' : Made(p, "adjust")'
      BY <1>1, <1>2 DEF Serial, Rows
    <2> QED
      BY <2>1, <2>2, <2>3, <2>4 DEF Rows
  <1> QED
    BY <1>2, <1>6, <1>7, <1>8, AllGood DEF Serial

\* A departure commits.
LEMMA DepartureCommitStep == ASSUME Serial, NEW s \in Sessions, DepartureCommits(s) PROVE Serial'
  <1> DEFINE a == session[s].account
             o == session[s].op
  <1>1. /\ Commits(s, "depart")
        /\ enrollment' = [enrollment EXCEPT ![a] = [status |-> "departed", user |-> Nobody]]
        /\ UNCHANGED <<account, claims, bet, settlements, adjusted>>
    BY DEF DepartureCommits
  <1>2. /\ session[s] \in Runs /\ o \in Ops /\ lock[<<"op", o>>] = s
        /\ operation' \in [Ops -> {"unused", "accepted", "denied"}]
        /\ \A p \in Ops : p # o => operation'[p] = operation[p]
        /\ \A p, k : Made(p, k) => Made(p, k)'
        /\ \A p : p = o => Made(p, "depart")'
        /\ now' = now /\ revisions' = revisions /\ request' = request
        /\ session' \in [Sessions -> Runs]
        /\ \A t \in Sessions : t # s => session'[t] = session[t]
        /\ lock' \in [Resources -> Sessions \cup {Nobody}]
        /\ \A r \in Resources : lock[r] \notin {s, Nobody} => lock'[r] = lock[r]
        /\ answers' \in [Ops -> SUBSET Answers] /\ session'[s].opens = Nobody /\ Good(s)'
    BY <1>1, Committing
  <1>3. /\ a \in Accounts /\ enrollment[a].status = "active" /\ lock[<<"enrollment", a>>] = s
    <2>1. Found(s) /\ Holds(s) /\ Planned(s) /\ Kind(s) = "depart"
      BY <1>1, Committing
    <2> QED
      BY <2>1 DEF Found, Holds, OnEnrollment
  <1>4. /\ enrollment' \in [Accounts -> [status : {"none", "active", "departed"},
                                         user : Users \cup {Nobody}]]
        /\ enrollment'[a].status = "departed"
        /\ \A c \in Accounts : c # a => enrollment'[c] = enrollment[c]
    BY <1>1, <1>3 DEF Serial, TypeOK
  <1>5. TypeOK'
    BY <1>1, <1>2, <1>4 DEF Serial, TypeOK, Answers
  <1>6. Respects(s)
    BY <1>1, <1>2, <1>3, <1>4 DEF Respects, BetsOf
  <1>7. Rows'
    <2>1. \A c \in claims' : c.op # Nobody => Made(c.op, "claim")'
      BY <1>1, <1>2 DEF Serial, Rows
    <2>2. \A c \in Accounts : enrollment'[c].status = "none" =>
            /\ account'[c] = Empty /\ BetsOf(c)' = {}
            /\ \A x \in claims' : x.account # c
            /\ \A p \in adjusted' : request'[p].account # c
      BY <1>1, <1>2, <1>4 DEF Serial, Rows, BetsOf
    <2>3. \A b \in Ops : bet'[b] # NoBet =>
            /\ Made(b, "place")'
            /\ bet'[b].status = "pending" <=> bet'[b].revision = 0
            /\ bet'[b].revision = 0 => bet'[b].returned = 0
      BY <1>1, <1>2 DEF Serial, Rows
    <2>4. /\ \A x \in settlements' :
               Made(x.op, "settle")' /\ bet'[x.bet] # NoBet /\ x.revision <= bet'[x.bet].revision
          /\ \A p \in adjusted' : Made(p, "adjust")'
      BY <1>1, <1>2 DEF Serial, Rows
    <2> QED
      BY <2>1, <2>2, <2>3, <2>4 DEF Rows
  <1> QED
    BY <1>2, <1>5, <1>6, <1>7, AllGood DEF Serial

\* A refusal commits, and leaves its operation id decided.
LEMMA CommitDeniedStep == ASSUME Serial, NEW s \in Sessions, CommitDenied(s) PROVE Serial'
  <1> DEFINE o == session[s].op
             decision == IF Kind(s) = "adjust" THEN "accepted" ELSE "denied"
  <1>1. /\ session[s].pc = "ready" /\ operation' = [operation EXCEPT ![o] = decision]
        /\ Finish(s, "denied")
        /\ UNCHANGED <<now, enrollment, account, claims, bet, settlements, adjusted, revisions, inputs>>
    BY DEF CommitDenied
  <1>2. o \in Ops /\ operation[o] = "unused" /\ lock[<<"op", o>>] = s
    BY <1>1, Acting DEF Holds, OnOperation
  <1>3. request' = request /\ "denied" \in Answers
    BY <1>1 DEF inputs, Answers
  <1>4. /\ \A p, k : Made(p, k) => Made(p, k)'
        /\ \A p \in Ops : p # o => operation'[p] = operation[p]
    BY <1>1, <1>2, <1>3, MadeStays
  <1>5. /\ session' \in [Sessions -> Runs] /\ session'[s].opens = Nobody
        /\ \A t \in Sessions : t # s => session'[t] = session[t]
        /\ lock' \in [Resources -> Sessions \cup {Nobody}]
        /\ \A r \in Resources : lock[r] \notin {s, Nobody} => lock'[r] = lock[r]
        /\ answers' \in [Ops -> SUBSET Answers] /\ Good(s)'
    BY <1>1, <1>3, FinishEffect
  <1>6. operation' \in [Ops -> {"unused", "accepted", "denied"}]
    BY <1>1, <1>2 DEF Serial, TypeOK
  <1>7. TypeOK'
    BY <1>1, <1>3, <1>5, <1>6 DEF Serial, TypeOK, Answers
  <1>8. Respects(s)
    BY <1>1, <1>2, <1>3, <1>4, <1>5 DEF Respects, BetsOf
  <1>9. Rows'
    <2>1. \A a : BetsOf(a)' = BetsOf(a)
      BY <1>1 DEF BetsOf
    <2> QED
      BY <1>1, <1>3, <1>4, <2>1 DEF Serial, Rows
  <1> QED
    BY <1>5, <1>7, <1>8, <1>9, AllGood DEF Serial

\* A bet on a market that is taken rolls back.
LEMMA FailBetStep == ASSUME Serial, NEW s \in Sessions, FailBet(s) PROVE Serial'
  BY FinishStep DEF FailBet, Answers

\* Every commit.
LEMMA CommitStep == ASSUME Serial, NEW s \in Sessions, CommitDone(s) PROVE Serial'
  BY CommitKinds, ClaimCommitStep, BetCommitStep, SettlementCommitStep, AdjustmentCommitStep,
     EnrollmentCommitStep, DepartureCommitStep

\* Every statement.
LEMMA StatementStep == ASSUME Serial, NEW s \in Sessions, Statement(s) PROVE Serial'
  BY FindAccountStep, LockAccountStep, ExamineClaimStep, ExamineBetStep, LockGameStep, PlanBetStep,
     FindOwnerStep, ExamineSettlementStep, PlanSettlementStep, AdjustBeginsStep, FindAdjustedStep,
     PlanAdjustmentStep, LockUserStep, PlanEnrollmentStep, FindEnrollmentStep, LockEnrollmentStep,
     TakeOperationStep, CommitDeniedStep, CommitStep, FailBetStep DEF Statement

\* Stuttering.
LEMMA StutterStep == Serial /\ UNCHANGED vars => Serial'
  <1> SUFFICES ASSUME Serial, UNCHANGED vars PROVE Serial'
    OBVIOUS
  <1>1. TypeOK'
    BY DEF Serial, TypeOK, vars, tables, inputs
  <1>2. Respects(Nobody)
    BY NobodyIsNone DEF Respects, vars, tables, inputs, BetsOf
  <1>3. Rows'
    BY RowsStay DEF Serial, vars, inputs
  <1> QED
    BY <1>1, <1>2, <1>3, AllGood, NobodyIsNone DEF Serial

\* Every step.
LEMMA StepSerial == Serial /\ [Next]_vars => Serial'
  BY TickStep, RevisedStep, DeliverStep, AbortStep, StatementStep, StutterStep DEF Next

\* Nothing has happened at the start.
LEMMA InitSerial == Init => Serial
  <1> SUFFICES ASSUME Init PROVE Serial
    OBVIOUS
  <1>1. Empty \in Credits /\ Opening \in Credits
    BY RuleConstants DEF Empty, Opening, Credits
  <1>2. /\ enrollment \in [Accounts -> [status : {"none", "active", "departed"},
                                        user : Users \cup {Nobody}]]
        /\ account \in [Accounts -> Credits]
    BY <1>1, TransactionConstants DEF Init
  <1>3. /\ claims \subseteq [account : Accounts, day : Int, op : Ops \cup {Nobody}]
        /\ bet \in [Ops -> Bets \cup {NoBet}] /\ settlements = {} /\ adjusted = {}
        /\ operation \in [Ops -> {"unused", "accepted", "denied"}]
        /\ now \in Int /\ request \in Requests
    BY DEF Init
  <1>4. revisions \in [Games -> Seq(Revisions) \ {<<>>}]
    <2> DEFINE row == [status |-> "scheduled", score |-> NoScore, start |-> GameStart,
                       market |-> 1, updated |-> 0]
    <2>1. row \in Revisions
      BY TransactionConstants DEF Revisions, GameStatuses
    <2> HIDE DEF row
    <2>2. <<row>> \in Seq(Revisions) \ {<<>>}
      BY <2>1
    <2>3. revisions = [g \in Games |-> <<row>>]
      BY DEF Init, row
    <2> QED
      BY <2>2, <2>3
  <1>5. /\ session \in [Sessions -> Runs] /\ \A s \in Sessions : session[s] = Idle
        /\ lock \in [Resources -> Sessions \cup {Nobody}]
        /\ answers \in [Ops -> SUBSET Answers]
    BY IdleType DEF Init
  <1>6. TypeOK
    BY <1>2, <1>3, <1>4, <1>5 DEF TypeOK, Answers
  <1>7. ASSUME NEW t \in Sessions PROVE Good(t)
    <2>1. session[t] = Idle
      BY <1>5
    <2> QED
      BY <2>1 DEF Good, RunsAs, Found, Holds, Decided, Opens, OnAccount, OnGame, OnOperation,
        OnUser, OnEnrollment, Planned, Idle
  <1>8. Rows
    <2>1. \A c \in claims : c.op = Nobody /\ c.account \in Accounts /\ Members[c.account] # Nobody
      BY DEF Init
    <2>2. \A a \in Accounts : enrollment[a].status = "none" => Members[a] = Nobody
      BY DEF Init
    <2>3. \A a \in Accounts : Members[a] = Nobody => account[a] = Empty
      BY DEF Init
    <2>4. \A b \in Ops : bet[b] = NoBet
      BY DEF Init
    <2> QED
      BY <1>3, <2>1, <2>2, <2>3, <2>4 DEF Rows, BetsOf
  <1> QED
    BY <1>6, <1>7, <1>8 DEF Serial

\* Types, for any users, games, requests and connections.
THEOREM TransactionsTypeOK == Spec => []TypeOK
  <1>1. Serial => TypeOK
    BY DEF Serial
  <1> QED
    BY <1>1, InitSerial, StepSerial, PTL DEF Spec

-----------------------------------------------------------------------------
\* What the steps do to the tables.

\* A step writes no table but operation_ledger, or it is a commit of one kind.
LEMMA StepKinds ==
  ASSUME [Next]_vars
  PROVE  \/ UNCHANGED <<enrollment, account, claims, bet, settlements, adjusted, request>>
         \/ \E s \in Sessions :
              \/ ClaimCommits(s) \/ BetCommits(s) \/ SettlementCommits(s)
              \/ AdjustmentCommits(s) \/ EnrollmentCommits(s) \/ DepartureCommits(s)
  <1> DEFINE Same == UNCHANGED <<enrollment, account, claims, bet, settlements, adjusted, request>>
             Kinds6 == \E s \in Sessions :
                         \/ ClaimCommits(s) \/ BetCommits(s) \/ SettlementCommits(s)
                         \/ AdjustmentCommits(s) \/ EnrollmentCommits(s) \/ DepartureCommits(s)
  <1>1. ASSUME Tick \/ UNCHANGED vars \/ \E g \in Games, c \in Feed : GameRevised(g, c) PROVE Same
    BY <1>1 DEF Tick, vars, GameRevised, tables, inputs
  <1>2. ASSUME NEW s \in Sessions, Abort(s) \/ \E o \in DOMAIN request : Deliver(s, o) PROVE Same
    BY <1>2 DEF Abort, Deliver, tables, inputs
  <1>3. ASSUME NEW s \in Sessions,
               \/ FindAccount(s) \/ LockAccount(s) \/ ExamineClaim(s) \/ ExamineBet(s)
               \/ LockGame(s) \/ PlanBet(s) \/ FindOwner(s) \/ ExamineSettlement(s)
               \/ PlanSettlement(s) \/ AdjustBegins(s)
        PROVE  Same
    BY <1>3 DEF FindAccount, LockAccount, ExamineClaim, ExamineBet, LockGame, PlanBet, FindOwner,
      ExamineSettlement, PlanSettlement, AdjustBegins, tables, inputs
  <1>4. ASSUME NEW s \in Sessions,
               \/ FindAdjusted(s) \/ PlanAdjustment(s) \/ LockUser(s) \/ PlanEnrollment(s)
               \/ FindEnrollment(s) \/ LockEnrollment(s) \/ TakeOperation(s) \/ CommitDenied(s)
               \/ FailBet(s)
        PROVE  Same
    BY <1>4 DEF FindAdjusted, PlanAdjustment, LockUser, PlanEnrollment, FindEnrollment,
      LockEnrollment, TakeOperation, CommitDenied, FailBet, tables, inputs
  <1>5. ASSUME NEW s \in Sessions, CommitDone(s) PROVE Kinds6
    BY <1>5, CommitKinds
  <1> HIDE DEF Same, Kinds6
  <1>6. Same \/ Kinds6
    BY <1>1, <1>2, <1>3, <1>4, <1>5 DEF Next, Statement
  <1> QED
    BY <1>6 DEF Same, Kinds6

-----------------------------------------------------------------------------
\* No update is lost.

\* The summands of an account's worth.
ClaimsOf(a) == {c \in claims : c.account = a}
AdjustmentsOf(a) == {p \in adjusted : request[p].account = a}
Adjusted(a) == SumFunction([o \in AdjustmentsOf(a) |-> request[o].delta])
Won(a) == SumFunction([b \in BetsOf(a) |-> bet[b].returned - bet[b].stake])

\* They are finitely many, and they are what the account is worth.
FinitelyMany(a) ==
  IsFiniteSet(ClaimsOf(a)) /\ IsFiniteSet(AdjustmentsOf(a)) /\ IsFiniteSet(BetsOf(a))
Explained(a) ==
  Net(account[a]) = DailyCredit * Cardinality(ClaimsOf(a)) + Adjusted(a) + Won(a)

Accounted == \A a \in Accounts : FinitelyMany(a) /\ Explained(a)

\* The property in these terms.
LEMMA AccountedIsKept == TypeOK /\ Accounted => NoLostUpdate
  BY DEF Accounted, Explained, NoLostUpdate, Net, ClaimsOf, Adjusted, AdjustmentsOf, Won

\* The summands are numbers.
LEMMA SummandTypes ==
  ASSUME Serial, NEW a \in Accounts, FinitelyMany(a)
  PROVE  /\ Cardinality(ClaimsOf(a)) \in Nat
         /\ DailyCredit * Cardinality(ClaimsOf(a)) \in Int
         /\ \A o \in AdjustmentsOf(a) : request[o].delta \in Int
         /\ \A b \in BetsOf(a) : bet[b].returned - bet[b].stake \in Int
         /\ Adjusted(a) \in Int /\ Won(a) \in Int /\ Net(account[a]) \in Int
  <1>1. Cardinality(ClaimsOf(a)) \in Nat
    BY FS_CardinalityType DEF FinitelyMany
  <1>2. DailyCredit * Cardinality(ClaimsOf(a)) \in Int
    BY <1>1, RuleConstants
  <1>3. \A o \in AdjustmentsOf(a) : request[o].delta \in Int
    BY TransactionConstants DEF AdjustmentsOf, Serial, Rows, Made, TypeOK, WellFormed
  <1>4. \A b \in BetsOf(a) : bet[b].returned - bet[b].stake \in Int
    <2> TAKE b \in BetsOf(a)
    <2>1. bet[b] \in Bets
      BY DEF BetsOf, Serial, TypeOK
    <2>2. bet[b].returned \in Int /\ bet[b].stake \in Int
      BY <2>1, RuleConstants DEF Bets, Stakes
    <2> QED
      BY <2>2
  <1>5. Adjusted(a) \in Int
    <2> DEFINE f == [o \in AdjustmentsOf(a) |-> request[o].delta]
    <2>1. IsFiniteSet(DOMAIN f) /\ \A x \in DOMAIN f : f[x] \in Int
      BY <1>3 DEF FinitelyMany
    <2> HIDE DEF f
    <2>2. SumFunction(f) \in Int
      BY <2>1, SumFunctionType
    <2> QED
      BY <2>2 DEF f, Adjusted
  <1>6. Won(a) \in Int
    <2> DEFINE f == [b \in BetsOf(a) |-> bet[b].returned - bet[b].stake]
    <2>1. IsFiniteSet(DOMAIN f) /\ \A x \in DOMAIN f : f[x] \in Int
      BY <1>4 DEF FinitelyMany
    <2> HIDE DEF f
    <2>2. SumFunction(f) \in Int
      BY <2>1, SumFunctionType
    <2> QED
      BY <2>2 DEF f, Won
  <1>7. Net(account[a]) \in Int
    BY DEF Serial, TypeOK, Credits, Net
  <1> QED
    BY <1>1, <1>2, <1>3, <1>4, <1>5, <1>6, <1>7

\* The sum of the same adjustments is the same.
LEMMA AdjustedStays ==
  ASSUME NEW a, AdjustmentsOf(a)' = AdjustmentsOf(a), request' = request
  PROVE  Adjusted(a)' = Adjusted(a)
  <1>1. [o \in AdjustmentsOf(a)' |-> request'[o].delta] = [o \in AdjustmentsOf(a) |-> request[o].delta]
    OBVIOUS
  <1> QED
    BY <1>1 DEF Adjusted

\* The same for bets.
LEMMA WonStays ==
  ASSUME NEW a, BetsOf(a)' = BetsOf(a), \A b \in BetsOf(a) : bet'[b] = bet[b]
  PROVE  Won(a)' = Won(a)
  <1>1. [b \in BetsOf(a)' |-> bet'[b].returned - bet'[b].stake]
          = [b \in BetsOf(a) |-> bet[b].returned - bet[b].stake]
    OBVIOUS
  <1> QED
    BY <1>1 DEF Won

\* An account whose rows are left alone.
LEMMA LeftAlone ==
  ASSUME NEW a, FinitelyMany(a), Explained(a), account'[a] = account[a], request' = request,
         ClaimsOf(a)' = ClaimsOf(a), AdjustmentsOf(a)' = AdjustmentsOf(a),
         BetsOf(a)' = BetsOf(a), \A b \in BetsOf(a) : bet'[b] = bet[b]
  PROVE  FinitelyMany(a)' /\ Explained(a)'
  <1>1. Adjusted(a)' = Adjusted(a) /\ Won(a)' = Won(a)
    BY AdjustedStays, WonStays
  <1> QED
    BY <1>1 DEF FinitelyMany, Explained

\* A claim adds one grant and the daily credit.
LEMMA ClaimAccounted ==
  ASSUME Serial, Accounted, NEW s \in Sessions, ClaimCommits(s) PROVE Accounted'
  <1> DEFINE a == session[s].account
             new == [account |-> a, day |-> KstDate(session[s].at), op |-> session[s].op]
  <1>1. /\ Commits(s, "claim") /\ Pays(s) /\ claims' = claims \cup {new}
        /\ UNCHANGED <<enrollment, bet, settlements, adjusted>>
    BY DEF ClaimCommits
  <1>2. /\ request' = request /\ ClaimPlanned(s) /\ session[s].credit \in Credits
    BY <1>1, Committing, ZenonT(40) DEF Decided, Runs
  <1>3. /\ a \in Accounts /\ session[s].credit = account[a] /\ account'[a] = session[s].after
        /\ \A c \in Accounts : c # a => account'[c] = account[c]
    BY <1>1, Paying
  <1>4. new.account = a /\ new.day = KstDate(session[s].at)
    OBVIOUS
  <1>5. new \notin claims
    BY <1>2, <1>4 DEF ClaimPlanned
  <1> HIDE DEF new
  <1>6. \A c : BetsOf(c)' = BetsOf(c) /\ AdjustmentsOf(c)' = AdjustmentsOf(c)
               /\ \A b \in BetsOf(c) : bet'[b] = bet[b]
    BY <1>1, <1>2 DEF BetsOf, AdjustmentsOf
  <1>7. ASSUME NEW c \in Accounts, c # a PROVE FinitelyMany(c)' /\ Explained(c)'
    <2>1. ClaimsOf(c)' = ClaimsOf(c) /\ account'[c] = account[c]
      BY <1>1, <1>3, <1>4, <1>7 DEF ClaimsOf
    <2> QED
      BY <1>2, <1>6, <1>7, <2>1, LeftAlone DEF Accounted
  <1>8. ASSUME NEW c \in Accounts, c = a PROVE FinitelyMany(c)' /\ Explained(c)'
    <2>1. ClaimsOf(c)' = ClaimsOf(c) \cup {new} /\ new \notin ClaimsOf(c)
      BY <1>1, <1>4, <1>5, <1>8 DEF ClaimsOf
    <2>2. FinitelyMany(c) /\ Explained(c)
      BY DEF Accounted
    <2>3. /\ IsFiniteSet(ClaimsOf(c)')
          /\ Cardinality(ClaimsOf(c)') = Cardinality(ClaimsOf(c)) + 1
      BY <2>1, <2>2, FS_AddElement DEF FinitelyMany
    <2>4. Adjusted(c)' = Adjusted(c) /\ Won(c)' = Won(c)
      BY <1>2, <1>6, AdjustedStays, WonStays
    <2>5. Net(account'[c]) = Net(account[c]) + DailyCredit
      BY <1>2, <1>3, <1>8, DailyCreditPaid DEF ClaimPlanned
    <2>6. DailyCredit * (Cardinality(ClaimsOf(c)) + 1) = DailyCredit * Cardinality(ClaimsOf(c)) + DailyCredit
      BY <2>2, SummandTypes, RuleConstants
    <2>7. Explained(c)'
      <3>1. Net(account'[c]) = DailyCredit * Cardinality(ClaimsOf(c)') + Adjusted(c) + Won(c)
        BY <2>2, <2>3, <2>5, <2>6, SummandTypes, RuleConstants DEF Explained
      <3> QED
        BY <2>4, <3>1 DEF Explained, Net
    <2> QED
      BY <1>6, <2>2, <2>3, <2>7 DEF FinitelyMany
  <1> QED
    BY <1>7, <1>8 DEF Accounted

\* What a bet that is planned is, and what it was checked against.
LEMMA Placing ==
  ASSUME Serial, NEW s \in Sessions, Commits(s, "place")
  PROVE  LET new == session[s].entry
         IN  /\ session[s].op \in Ops /\ bet[session[s].op] = NoBet
             /\ BetPlanned(s) /\ new \in Bets /\ new.account = session[s].account
             /\ session[s].account \in Accounts
             /\ session[s].credit \in Credits
             /\ session[s].credit = account[session[s].account]
             /\ new.game = session[s].game /\ session[s].game \in Games
             /\ session[s].row = Current(session[s].game) /\ new.market = session[s].row.market
             /\ new.stake = Req(s).stake /\ new.stake \in Nat
             /\ new.day = KstDate(session[s].at) /\ new.status = "pending"
             /\ new.returned = 0
  <1> DEFINE new == session[s].entry
             day == KstDate(session[s].at)
  <1>1. /\ session[s] \in Runs /\ session[s].op \in Ops /\ Planned(s) /\ Kind(s) = "place"
        /\ Found(s) /\ Holds(s) /\ Decided(s) /\ WellFormed(Req(s)) /\ Req(s).kind = "place"
        /\ operation[session[s].op] = "unused"
    BY Committing
  <1>2. OnAccount(s) /\ OnGame(s)
    BY <1>1 DEF OnAccount, OnGame
  <1>3. BetPlanned(s)
    BY <1>1 DEF Decided
  <1>4. bet[session[s].op] = NoBet
    BY <1>1 DEF Serial, Rows, Made
  <1>5. /\ session[s].account \in Accounts /\ session[s].credit = account[session[s].account]
        /\ session[s].game \in Games /\ session[s].row = Current(session[s].game)
    BY <1>1, <1>2 DEF Found, Holds
  <1>6. session[s].credit \in Credits /\ session[s].at \in Int
    BY <1>1 DEF Runs
  <1>7. Req(s).prediction \in Predictions /\ Req(s).stake \in Stakes
    BY <1>1 DEF WellFormed
  <1>8. session[s].row \in Revisions /\ day \in Int
    BY <1>5, <1>6, CurrentType, DateType DEF Serial
  <1>9. new = [account |-> session[s].account, game |-> session[s].game,
               market |-> session[s].row.market, prediction |-> Req(s).prediction,
               stake |-> Req(s).stake, day |-> day, status |-> "pending", revision |-> 0,
               returned |-> 0]
    BY <1>3 DEF BetPlanned
  <1>10. new \in Bets
    BY <1>5, <1>7, <1>8, <1>9, BetPlanType
  <1>11. /\ new.account = session[s].account /\ new.game = session[s].game
         /\ new.market = session[s].row.market /\ new.stake = Req(s).stake /\ new.day = day
         /\ new.status = "pending" /\ new.returned = 0
    BY <1>9
  <1>12. new.stake \in Nat
    BY <1>7, <1>11, RuleConstants DEF Stakes
  <1> QED
    BY <1>1, <1>3, <1>4, <1>5, <1>6, <1>10, <1>11, <1>12

\* A bet adds its stake to what is won, negative, and takes it from the balance.
LEMMA BetAccounted ==
  ASSUME Serial, Accounted, NEW s \in Sessions, BetCommits(s) PROVE Accounted'
  <1> DEFINE a == session[s].account
             o == session[s].op
             new == session[s].entry
  <1>1. /\ Commits(s, "place") /\ Pays(s) /\ bet' = [bet EXCEPT ![o] = new]
        /\ UNCHANGED <<enrollment, claims, settlements, adjusted>>
    BY DEF BetCommits
  <1>2. /\ request' = request /\ BetPlanned(s) /\ session[s].credit \in Credits /\ o \in Ops
        /\ new.stake = Req(s).stake /\ new.stake \in Nat /\ new \in Bets
        /\ new.account = a /\ new.returned = 0 /\ bet[o] = NoBet
    BY <1>1, Placing DEF Commits, inputs
  <1>3. /\ a \in Accounts /\ session[s].credit = account[a] /\ account'[a] = session[s].after
        /\ \A c \in Accounts : c # a => account'[c] = account[c]
    BY <1>1, Paying
  <1>4. /\ new.account = a /\ new.stake = Req(s).stake /\ new.returned = 0
        /\ session[s].after = Changed(session[s].credit, [available |-> -Req(s).stake, debt |-> 0])
    BY <1>2 DEF BetPlanned
  <1>5. bet[o] = NoBet /\ Req(s).stake \in Int /\ Req(s).stake <= session[s].credit.available
    BY <1>2 DEF BetPlanned, PlacementAccepted
  <1>6. new # NoBet
    BY <1>2, NoBetAssumption
  <1>7. bet'[o] = new /\ \A b \in Ops : b # o => bet'[b] = bet[b]
    BY <1>1, <1>2 DEF Serial, TypeOK
  <1> HIDE DEF new
  <1>8. \A c : ClaimsOf(c)' = ClaimsOf(c) /\ AdjustmentsOf(c)' = AdjustmentsOf(c)
    BY <1>1, <1>2 DEF ClaimsOf, AdjustmentsOf
  <1>9. ASSUME NEW c \in Accounts, c # a PROVE FinitelyMany(c)' /\ Explained(c)'
    <2>1. BetsOf(c)' = BetsOf(c) /\ (\A b \in BetsOf(c) : bet'[b] = bet[b]) /\ account'[c] = account[c]
      BY <1>3, <1>4, <1>5, <1>7, <1>9 DEF BetsOf
    <2> QED
      BY <1>2, <1>8, <2>1, LeftAlone DEF Accounted
  <1>10. ASSUME NEW c \in Accounts, c = a PROVE FinitelyMany(c)' /\ Explained(c)'
    <2>1. FinitelyMany(c) /\ Explained(c)
      BY DEF Accounted
    <2>2. BetsOf(c)' = BetsOf(c) \cup {o} /\ o \notin BetsOf(c)
      BY <1>2, <1>4, <1>5, <1>6, <1>7, <1>10 DEF BetsOf
    <2>3. IsFiniteSet(BetsOf(c)')
      BY <2>1, <2>2, FS_AddElement DEF FinitelyMany
    <2>4. Won(c)' = Won(c) - Req(s).stake
      <3> DEFINE f == [b \in BetsOf(c) |-> bet[b].returned - bet[b].stake]
                 g == [b \in BetsOf(c)' |-> bet'[b].returned - bet'[b].stake]
      <3>1. \A b \in BetsOf(c) : f[b] \in Int
        BY <2>1, SummandTypes
      <3>2. \A b \in BetsOf(c) : g[b] = f[b]
        BY <1>7, <2>2 DEF BetsOf
      <3>3. g[o] = 0 - Req(s).stake
        BY <1>4, <1>7, <2>2
      <3>4. DOMAIN f = BetsOf(c) /\ DOMAIN g = DOMAIN f \cup {o} /\ o \notin DOMAIN f
        BY <2>2
      <3>5. IsFiniteSet(DOMAIN f)
        BY <2>1, <3>4 DEF FinitelyMany
      <3> HIDE DEF f, g
      <3>6. \A b \in DOMAIN g : g[b] \in Int
        BY <1>5, <3>1, <3>2, <3>3, <3>4
      <3>7. SumFunction(g) = SumFunction(f) + g[o]
        BY <3>2, <3>4, <3>5, <3>6, SumFunctionExtend
      <3>8. Won(c)' = SumFunction(g) /\ Won(c) = SumFunction(f) /\ Won(c) \in Int
        BY <2>1, SummandTypes DEF Won, f, g
      <3> QED
        BY <1>5, <3>3, <3>7, <3>8
    <2>5. Net(account'[c]) = Net(account[c]) - Req(s).stake
      <3>1. -Req(s).stake \in Int /\ session[s].credit.available + (-Req(s).stake) >= 0
        BY <1>2, <1>5 DEF Credits
      <3>2. Net(account'[c]) = Net(account[c]) + (-Req(s).stake)
        BY <1>2, <1>3, <1>4, <1>10, <3>1, AmountPaid
      <3> QED
        BY <1>5, <2>1, <3>2, SummandTypes
    <2>6. Adjusted(c)' = Adjusted(c)
      BY <1>2, <1>8, AdjustedStays
    <2>7. Explained(c)'
      <3>1. Net(account'[c]) = DailyCredit * Cardinality(ClaimsOf(c)) + Adjusted(c) + (Won(c) - Req(s).stake)
        BY <1>5, <2>1, <2>5, SummandTypes DEF Explained
      <3> QED
        BY <1>8, <2>4, <2>6, <3>1 DEF Explained, Net
    <2> QED
      BY <1>8, <2>1, <2>3, <2>7 DEF FinitelyMany
  <1> QED
    BY <1>9, <1>10 DEF Accounted

\* What a settlement pays is what its bet returns more or less.
LEMMA SettledPays ==
  ASSUME Serial, NEW s \in Sessions, Commits(s, "settle")
  PROVE  LET b   == Req(s).bet
             new == session[s].entry
         IN  /\ session[s].credit \in Credits
             /\ new.returned - bet[b].returned \in Int
             /\ Net(session[s].after) = Net(session[s].credit) + (new.returned - bet[b].returned)
  <1> DEFINE b == Req(s).bet
             new == session[s].entry
             result == ResultOf(bet[b].prediction, session[s].row)
             delta == ReturnOf(bet[b].stake, result) - bet[b].returned
             refund == bet[b].revision = 0 /\ result = "void"
  <1>1. /\ bet[b] \in Bets /\ Settled(bet[b], session[s]) /\ b \in Ops /\ bet[b] # NoBet
        /\ new.returned = ReturnOf(bet[b].stake, result)
    BY Settling
  <1>2. session[s].credit \in Credits
    BY Committing DEF Runs
  <1>3. bet[b].stake \in Nat /\ bet[b].returned \in Nat
    BY <1>1, RuleConstants DEF Bets, Stakes
  <1>4. ReturnOf(bet[b].stake, result) \in Nat
    BY <1>3, ReturnType
  <1>5. delta \in Int /\ refund \in BOOLEAN
    BY <1>3, <1>4
  <1>6. refund => delta >= 0
    <2>1. refund => bet[b].returned = 0
      BY <1>1 DEF Serial, Rows
    <2> QED
      BY <1>3, <1>4, <2>1
  <1>7. session[s].after =
          IF delta = 0 THEN session[s].credit
          ELSE Changed(session[s].credit,
                 AllocateSettlementDelta(session[s].credit.available, session[s].credit.debt, delta, refund))
    BY <1>1 DEF Settled
  <1>8. Net(session[s].credit) \in Int
    BY <1>2 DEF Net, Credits
  <1>9. new.returned - bet[b].returned = delta
    BY <1>1
  <1> HIDE DEF delta, refund
  <1>10. Net(session[s].after) = Net(session[s].credit) + delta
    <2>1. CASE delta = 0
      BY <1>7, <1>8, <2>1
    <2>2. CASE delta # 0
      BY <1>2, <1>5, <1>6, <1>7, <2>2, SettlementPaid
    <2> QED
      BY <2>1, <2>2
  <1> QED
    BY <1>2, <1>5, <1>9, <1>10

\* A settlement changes what one bet returned and the balance by as much.
LEMMA SettlementAccounted ==
  ASSUME Serial, Accounted, NEW s \in Sessions, SettlementCommits(s) PROVE Accounted'
  <1> DEFINE a == session[s].account
             b == Req(s).bet
             new == session[s].entry
             delta == new.returned - bet[b].returned
  <1>1. /\ Commits(s, "settle") /\ Pays(s) /\ bet' = [bet EXCEPT ![b] = new]
        /\ UNCHANGED <<enrollment, claims, adjusted>>
    BY DEF SettlementCommits
  <1>2. /\ b \in Ops /\ bet[b] # NoBet /\ bet[b] \in Bets /\ bet[b].account = a
        /\ new \in Bets /\ new.account = a /\ new.stake = bet[b].stake
    BY <1>1, Settling
  <1>3. request' = request
    BY <1>1 DEF Commits, inputs
  <1>4. /\ delta \in Int /\ Net(session[s].after) = Net(session[s].credit) + delta
    BY <1>1, SettledPays
  <1>5. /\ a \in Accounts /\ session[s].credit = account[a] /\ account'[a] = session[s].after
        /\ \A c \in Accounts : c # a => account'[c] = account[c]
    BY <1>1, Paying
  <1>6. new # NoBet
    BY <1>2, NoBetAssumption
  <1>7. bet'[b] = new /\ \A p \in Ops : p # b => bet'[p] = bet[p]
    BY <1>1, <1>2 DEF Serial, TypeOK
  <1>8. new.returned \in Int /\ new.stake \in Int /\ bet[b].returned \in Int
    BY <1>2, RuleConstants DEF Bets, Stakes
  <1>9. delta = new.returned - bet[b].returned
    OBVIOUS
  <1> HIDE DEF new, delta
  <1>10. \A c : ClaimsOf(c)' = ClaimsOf(c) /\ AdjustmentsOf(c)' = AdjustmentsOf(c)
    BY <1>1, <1>3 DEF ClaimsOf, AdjustmentsOf
  <1>11. \A c : BetsOf(c)' = BetsOf(c)
    BY <1>2, <1>6, <1>7 DEF BetsOf
  <1>12. ASSUME NEW c \in Accounts, c # a PROVE FinitelyMany(c)' /\ Explained(c)'
    <2>1. (\A p \in BetsOf(c) : bet'[p] = bet[p]) /\ account'[c] = account[c]
      BY <1>2, <1>5, <1>7, <1>12 DEF BetsOf
    <2> QED
      BY <1>3, <1>10, <1>11, <2>1, LeftAlone DEF Accounted
  <1>13. ASSUME NEW c \in Accounts, c = a PROVE FinitelyMany(c)' /\ Explained(c)'
    <2>1. FinitelyMany(c) /\ Explained(c)
      BY DEF Accounted
    <2>2. Won(c)' = Won(c) + delta
      <3> DEFINE f == [p \in BetsOf(c) |-> bet[p].returned - bet[p].stake]
                 g == [p \in BetsOf(c)' |-> bet'[p].returned - bet'[p].stake]
      <3>1. b \in BetsOf(c)
        BY <1>2, <1>13 DEF BetsOf
      <3>2. DOMAIN f = BetsOf(c) /\ DOMAIN g = DOMAIN f
        BY <1>11
      <3>3. \A p \in DOMAIN f : f[p] \in Int
        BY <2>1, SummandTypes
      <3>4. \A p \in DOMAIN f \ {b} : f[p] = g[p]
        BY <1>7, <1>11 DEF BetsOf
      <3>5. f[b] = bet[b].returned - bet[b].stake /\ g[b] = new.returned - new.stake
        BY <1>7, <1>11, <3>1
      <3>6. IsFiniteSet(DOMAIN f) /\ b \in DOMAIN f
        BY <2>1, <3>1, <3>2 DEF FinitelyMany
      <3>7. Won(c)' = SumFunction(g) /\ Won(c) = SumFunction(f) /\ Won(c) \in Int
        BY <2>1, SummandTypes DEF Won
      <3> HIDE DEF f, g
      <3>8. \A p \in DOMAIN f : g[p] \in Int
        BY <1>8, <3>3, <3>4, <3>5
      <3>9. SumFunction(g) = SumFunction(f) + (g[b] - f[b])
        BY <3>2, <3>3, <3>4, <3>6, <3>8, SumFunctionChange
      <3>10. g[b] - f[b] = delta
        BY <1>2, <1>8, <1>9, <3>5
      <3> QED
        BY <3>7, <3>9, <3>10
    <2>3. Net(account'[c]) = Net(account[c]) + delta
      BY <1>4, <1>5, <1>13
    <2>4. Adjusted(c)' = Adjusted(c)
      BY <1>3, <1>10, AdjustedStays
    <2>5. Explained(c)'
      <3>1. Net(account'[c]) = DailyCredit * Cardinality(ClaimsOf(c)) + Adjusted(c) + (Won(c) + delta)
        BY <1>4, <2>1, <2>3, SummandTypes DEF Explained
      <3> QED
        BY <1>10, <2>2, <2>4, <3>1 DEF Explained, Net
    <2> QED
      BY <1>10, <1>11, <2>1, <2>5 DEF FinitelyMany
  <1> QED
    BY <1>12, <1>13 DEF Accounted

\* An adjustment adds its amount to what was posted and to the balance.
LEMMA AdjustmentAccounted ==
  ASSUME Serial, Accounted, NEW s \in Sessions, AdjustmentCommits(s) PROVE Accounted'
  <1> DEFINE a == session[s].account
             o == session[s].op
             x == Req(s).delta
  <1>1. /\ Commits(s, "adjust") /\ Pays(s) /\ adjusted' = adjusted \cup {o}
        /\ UNCHANGED <<enrollment, claims, bet, settlements>>
    BY DEF AdjustmentCommits
  <1>2. /\ request' = request /\ o \in Ops /\ Planned(s) /\ Kind(s) = "adjust" /\ Found(s)
        /\ Decided(s) /\ WellFormed(Req(s)) /\ Req(s).kind = "adjust"
        /\ session[s] \in Runs /\ \A p, k : Made(p, k) => p # o
    BY <1>1, Committing, ZenonT(40)
  <1>3. request[o].account = a /\ request[o].delta = x /\ x \in Int
    BY <1>2 DEF Found, OnAccount, WellFormed, Req
  <1>4. o \notin adjusted
    BY <1>2 DEF Serial, Rows
  <1>5. /\ session[s].credit.available + x >= 0
        /\ session[s].after = Changed(session[s].credit, [available |-> x, debt |-> 0])
        /\ session[s].credit \in Credits
    BY <1>2 DEF Decided, AdjustmentPlanned, Runs
  <1>6. /\ a \in Accounts /\ session[s].credit = account[a] /\ account'[a] = session[s].after
        /\ \A c \in Accounts : c # a => account'[c] = account[c]
    BY <1>1, Paying
  <1> HIDE DEF x
  <1>7. \A c : /\ ClaimsOf(c)' = ClaimsOf(c) /\ BetsOf(c)' = BetsOf(c)
               /\ \A b \in BetsOf(c) : bet'[b] = bet[b]
    BY <1>1 DEF ClaimsOf, BetsOf
  <1>8. ASSUME NEW c \in Accounts, c # a PROVE FinitelyMany(c)' /\ Explained(c)'
    <2>1. AdjustmentsOf(c)' = AdjustmentsOf(c) /\ account'[c] = account[c]
      BY <1>1, <1>2, <1>3, <1>6, <1>8 DEF AdjustmentsOf
    <2> QED
      BY <1>2, <1>7, <2>1, LeftAlone DEF Accounted
  <1>9. ASSUME NEW c \in Accounts, c = a PROVE FinitelyMany(c)' /\ Explained(c)'
    <2>1. FinitelyMany(c) /\ Explained(c)
      BY DEF Accounted
    <2>2. AdjustmentsOf(c)' = AdjustmentsOf(c) \cup {o} /\ o \notin AdjustmentsOf(c)
      BY <1>1, <1>2, <1>3, <1>4, <1>9 DEF AdjustmentsOf
    <2>3. IsFiniteSet(AdjustmentsOf(c)')
      BY <2>1, <2>2, FS_AddElement DEF FinitelyMany
    <2>4. Adjusted(c)' = Adjusted(c) + x
      <3> DEFINE f == [p \in AdjustmentsOf(c) |-> request[p].delta]
                 g == [p \in AdjustmentsOf(c)' |-> request'[p].delta]
      <3>1. \A p \in DOMAIN f : f[p] \in Int
        BY <2>1, SummandTypes
      <3>2. \A p \in DOMAIN f : g[p] = f[p]
        BY <1>2, <2>2
      <3>3. g[o] = x
        BY <1>2, <1>3, <2>2
      <3>4. DOMAIN g = DOMAIN f \cup {o} /\ o \notin DOMAIN f
        BY <2>2
      <3>5. IsFiniteSet(DOMAIN f)
        BY <2>1 DEF FinitelyMany
      <3>6. Adjusted(c)' = SumFunction(g) /\ Adjusted(c) = SumFunction(f)
        BY DEF Adjusted
      <3> HIDE DEF f, g
      <3>7. \A p \in DOMAIN g : g[p] \in Int
        BY <1>3, <3>1, <3>2, <3>3, <3>4
      <3> QED
        BY <3>2, <3>3, <3>4, <3>5, <3>6, <3>7, SumFunctionExtend
    <2>5. Net(account'[c]) = Net(account[c]) + x
      BY <1>3, <1>5, <1>6, <1>9, AmountPaid
    <2>6. Won(c)' = Won(c)
      BY <1>7, WonStays
    <2>7. Explained(c)'
      <3>1. Net(account'[c]) = DailyCredit * Cardinality(ClaimsOf(c)) + (Adjusted(c) + x) + Won(c)
        BY <1>3, <2>1, <2>5, SummandTypes DEF Explained
      <3> QED
        BY <1>7, <2>4, <2>6, <3>1 DEF Explained, Net
    <2> QED
      BY <1>7, <2>1, <2>3, <2>7 DEF FinitelyMany
  <1> QED
    BY <1>8, <1>9 DEF Accounted

\* An account that is opened is worth nothing, as it was.
LEMMA EnrollmentAccounted ==
  ASSUME Serial, Accounted, NEW s \in Sessions, EnrollmentCommits(s) PROVE Accounted'
  <1> DEFINE a == session[s].opens
  <1>1. /\ Commits(s, "enroll") /\ account' = [account EXCEPT ![a] = Empty]
        /\ UNCHANGED <<claims, bet, settlements, adjusted>>
    BY DEF EnrollmentCommits
  <1>2. request' = request /\ Planned(s) /\ Kind(s) = "enroll" /\ Decided(s)
    BY <1>1, Committing
  <1>3. a \in Accounts /\ enrollment[a].status = "none"
    BY <1>2 DEF Decided, EnrollmentPlanned
  <1>4. account' = account
    BY <1>1, <1>3 DEF Serial, Rows, TypeOK
  <1>5. \A c : /\ ClaimsOf(c)' = ClaimsOf(c) /\ BetsOf(c)' = BetsOf(c)
               /\ AdjustmentsOf(c)' = AdjustmentsOf(c)
               /\ \A b \in BetsOf(c) : bet'[b] = bet[b]
    BY <1>1, <1>2 DEF ClaimsOf, BetsOf, AdjustmentsOf
  <1> QED
    BY <1>2, <1>4, <1>5, LeftAlone DEF Accounted

\* The account keeps its worth through every step.
LEMMA StepAccounted == ASSUME Serial, Accounted, [Next]_vars PROVE Accounted'
  <1>1. ASSUME UNCHANGED <<enrollment, account, claims, bet, settlements, adjusted, request>>
               \/ \E s \in Sessions : DepartureCommits(s)
        PROVE  Accounted'
    <2>1. UNCHANGED <<account, claims, bet, adjusted, request>>
      BY <1>1 DEF DepartureCommits, Commits, inputs
    <2>2. \A c : /\ ClaimsOf(c)' = ClaimsOf(c) /\ BetsOf(c)' = BetsOf(c)
                 /\ AdjustmentsOf(c)' = AdjustmentsOf(c)
                 /\ \A b \in BetsOf(c) : bet'[b] = bet[b]
      BY <2>1 DEF ClaimsOf, BetsOf, AdjustmentsOf
    <2> QED
      BY <2>1, <2>2, LeftAlone DEF Accounted
  <1> QED
    BY <1>1, StepKinds, ClaimAccounted, BetAccounted, SettlementAccounted, AdjustmentAccounted,
       EnrollmentAccounted

\* At the start a member has one grant and nothing else.
LEMMA InitAccounted == Init => Accounted
  <1> SUFFICES ASSUME Init, NEW a \in Accounts PROVE FinitelyMany(a) /\ Explained(a)
    BY DEF Accounted
  <1> DEFINE grant == [account |-> a, day |-> -1, op |-> Nobody]
  <1>1. BetsOf(a) = {} /\ AdjustmentsOf(a) = {}
    BY DEF Init, BetsOf, AdjustmentsOf
  <1>2. Adjusted(a) = 0 /\ Won(a) = 0
    BY <1>1, SumFunctionEmpty DEF Adjusted, Won
  <1>3. ClaimsOf(a) = IF Members[a] = Nobody THEN {} ELSE {grant}
    BY DEF Init, ClaimsOf
  <1>4. /\ account[a] = IF Members[a] = Nobody THEN Empty ELSE Opening
    BY DEF Init
  <1> HIDE DEF grant
  <1>5. /\ IsFiniteSet(ClaimsOf(a))
        /\ Cardinality(ClaimsOf(a)) = IF Members[a] = Nobody THEN 0 ELSE 1
    BY <1>3, FS_EmptySet, FS_Singleton
  <1>6. Net(account[a]) = IF Members[a] = Nobody THEN 0 ELSE DailyCredit
    BY <1>4, RuleConstants DEF Net, Empty, Opening
  <1> QED
    BY <1>1, <1>2, <1>5, <1>6, FS_EmptySet, RuleConstants DEF FinitelyMany, Explained

\* No update is lost, for any requests and connections, whatever their interleaving.
THEOREM TransactionsLoseNoUpdate == Spec => []NoLostUpdate
  <1>1. Init => Serial /\ Accounted
    BY InitSerial, InitAccounted
  <1>2. Serial /\ Accounted /\ [Next]_vars => (Serial /\ Accounted)'
    BY StepSerial, StepAccounted
  <1>3. Serial /\ Accounted => NoLostUpdate
    BY AccountedIsKept DEF Serial
  <1> QED
    BY <1>1, <1>2, <1>3, PTL DEF Spec

-----------------------------------------------------------------------------
\* Nothing happens twice.

\* A claim that commits is of a day and of an operation that no other claim has.
LEMMA ClaimOnce == ASSUME Serial, AtMostOnce, NEW s \in Sessions, ClaimCommits(s) PROVE AtMostOnce'
  <1> DEFINE new == [account |-> session[s].account, day |-> KstDate(session[s].at),
                     op |-> session[s].op]
  <1>1. /\ Commits(s, "claim") /\ claims' = claims \cup {new}
        /\ UNCHANGED <<enrollment, bet, settlements, adjusted>>
    BY DEF ClaimCommits
  <1>2. /\ ClaimPlanned(s) /\ \A p, k : Made(p, k) => p # session[s].op
        /\ session[s].op \in Ops /\ session[s].op # Nobody
    <2>1. /\ Planned(s) /\ Kind(s) = "claim" /\ Decided(s) /\ session[s].op \in Ops
          /\ \A p, k : Made(p, k) => p # session[s].op
      BY <1>1, Committing
    <2> QED
      BY <2>1, TransactionConstants DEF Decided
  <1>3. /\ new.account = session[s].account /\ new.day = KstDate(session[s].at)
        /\ new.op = session[s].op
    OBVIOUS
  <1>4. \A c \in claims : /\ ~(c.account = new.account /\ c.day = new.day)
                          /\ c.op # new.op
    BY <1>2, <1>3 DEF ClaimPlanned, Serial, Rows
  <1> HIDE DEF new
  <1>5. GrantedOnce'
    BY <1>1, <1>4 DEF AtMostOnce, GrantedOnce
  <1>6. (OneActiveAccount /\ OneBetPerMarket /\ SettledOnce)'
    BY <1>1 DEF AtMostOnce, OneActiveAccount, OneBetPerMarket, SettledOnce, EnrolledAs, BetsOf
  <1> QED
    BY <1>5, <1>6 DEF AtMostOnce

\* A bet that commits finds neither an open bet on its game nor one in its market.
LEMMA BetOnce == ASSUME Serial, AtMostOnce, NEW s \in Sessions, BetCommits(s) PROVE AtMostOnce'
  <1> DEFINE o == session[s].op
             new == session[s].entry
  <1>1. /\ Commits(s, "place") /\ bet' = [bet EXCEPT ![o] = new] /\ ~MarketTaken(new)
        /\ UNCHANGED <<enrollment, claims, settlements, adjusted>>
    BY DEF BetCommits
  <1>2. /\ o \in Ops /\ bet[o] = NoBet /\ BetPlanned(s) /\ new \in Bets
        /\ new.account = session[s].account /\ new.game = session[s].game /\ new.status = "pending"
    BY <1>1, Placing
  <1>3. bet'[o] = new /\ \A b \in Ops : b # o => bet'[b] = bet[b]
    BY <1>1, <1>2 DEF Serial, TypeOK
  <1>4. \A b \in BetsOf(new.account) :
          bet[b].game = new.game => bet[b].status # "pending" /\ bet[b].market # new.market
    BY <1>1, <1>2 DEF BetPlanned, MarketTaken
  <1> HIDE DEF new
  <1>5. OneBetPerMarket'
    <2>1. SUFFICES ASSUME NEW a \in Accounts, NEW b \in BetsOf(a)', NEW c \in BetsOf(a)',
                          bet'[b].game = bet'[c].game,
                          \/ bet'[b].market = bet'[c].market
                          \/ {bet'[b].status, bet'[c].status} = {"pending"}
                   PROVE  b = c
      BY DEF OneBetPerMarket
    <2>2. CASE b # o /\ c # o
      <3>1. b \in BetsOf(a) /\ c \in BetsOf(a) /\ bet'[b] = bet[b] /\ bet'[c] = bet[c]
        BY <1>3, <2>2 DEF BetsOf
      <3> QED
        BY <2>1, <3>1 DEF AtMostOnce, OneBetPerMarket
    <2>3. ASSUME NEW p, NEW q, p \in BetsOf(a)', q \in BetsOf(a)', p = o, q # o,
                 bet'[p].game = bet'[q].game,
                 bet'[p].market = bet'[q].market \/ bet'[q].status = "pending"
          PROVE  FALSE
      BY <1>3, <1>4, <2>3 DEF BetsOf
    <2>4. {bet'[b].status, bet'[c].status} = {"pending"} =>
            bet'[b].status = "pending" /\ bet'[c].status = "pending"
      OBVIOUS
    <2> QED
      BY <2>1, <2>2, <2>3, <2>4
  <1>6. (OneActiveAccount /\ GrantedOnce /\ SettledOnce)'
    BY <1>1 DEF AtMostOnce, OneActiveAccount, GrantedOnce, SettledOnce, EnrolledAs
  <1> QED
    BY <1>5, <1>6 DEF AtMostOnce

\* A settlement that commits is of a later revision than those of its bet, and the bet
\* stays in its market, closed.
LEMMA SettlementOnce ==
  ASSUME Serial, AtMostOnce, NEW s \in Sessions, SettlementCommits(s) PROVE AtMostOnce'
  <1> DEFINE o == session[s].op
             b == Req(s).bet
             new == session[s].entry
             x == [op |-> o, bet |-> b, revision |-> session[s].revision]
  <1>1. /\ Commits(s, "settle") /\ bet' = [bet EXCEPT ![b] = new]
        /\ settlements' = settlements \cup {x}
        /\ UNCHANGED <<enrollment, claims, adjusted>>
    BY DEF SettlementCommits
  <1>2. /\ b \in Ops /\ bet[b] # NoBet /\ bet[b] \in Bets /\ new \in Bets
        /\ new.account = bet[b].account /\ new.game = bet[b].game /\ new.market = bet[b].market
        /\ new.status # "pending" /\ bet[b].revision < new.revision
        /\ new.revision = session[s].revision
    BY <1>1, Settling
  <1>3. \A p, k : Made(p, k) => p # o
    BY <1>1, Committing
  <1>4. bet'[b] = new /\ \A p \in Ops : p # b => bet'[p] = bet[p]
    BY <1>1, <1>2 DEF Serial, TypeOK
  <1>5. x.op = o /\ x.bet = b /\ x.revision = new.revision
    BY <1>2
  <1> HIDE DEF new, x
  <1>6. \A y \in settlements : y.op # x.op /\ ~(y.bet = x.bet /\ y.revision = x.revision)
    <2> TAKE y \in settlements
    <2>1. y.op # o /\ y.revision <= bet[y.bet].revision /\ y.revision \in Nat
      BY <1>3 DEF Serial, Rows, TypeOK
    <2>2. bet[b].revision \in Nat /\ new.revision \in Nat
      BY <1>2 DEF Bets
    <2> QED
      BY <1>2, <1>5, <2>1, <2>2
  <1>7. SettledOnce'
    BY <1>1, <1>6 DEF AtMostOnce, SettledOnce
  <1>8. OneBetPerMarket'
    <2>1. \A p \in Ops : /\ bet'[p] # NoBet => bet[p] # NoBet
                         /\ bet'[p].account = bet[p].account /\ bet'[p].game = bet[p].game
                         /\ bet'[p].market = bet[p].market
                         /\ bet'[p].status = "pending" => bet[p].status = "pending"
      BY <1>2, <1>4
    <2>2. \A a : BetsOf(a)' \subseteq BetsOf(a)
      BY <2>1 DEF BetsOf
    <2>3. \A p, q \in Ops : {bet'[p].status, bet'[q].status} = {"pending"} =>
            {bet[p].status, bet[q].status} = {"pending"}
      BY <2>1
    <2>4. SUFFICES ASSUME NEW a \in Accounts, NEW p \in BetsOf(a)', NEW q \in BetsOf(a)',
                          bet'[p].game = bet'[q].game,
                          \/ bet'[p].market = bet'[q].market
                          \/ {bet'[p].status, bet'[q].status} = {"pending"}
                   PROVE  p = q
      BY DEF OneBetPerMarket
    <2>5. p \in Ops /\ q \in Ops /\ p \in BetsOf(a) /\ q \in BetsOf(a)
      BY <2>2, <2>4 DEF BetsOf
    <2>6. /\ bet[p].game = bet[q].game
          /\ \/ bet[p].market = bet[q].market
             \/ {bet[p].status, bet[q].status} = {"pending"}
      BY <2>1, <2>3, <2>4, <2>5
    <2> QED
      BY <2>5, <2>6 DEF AtMostOnce, OneBetPerMarket
  <1>9. (OneActiveAccount /\ GrantedOnce)'
    BY <1>1 DEF AtMostOnce, OneActiveAccount, GrantedOnce, EnrolledAs
  <1> QED
    BY <1>7, <1>8, <1>9 DEF AtMostOnce

\* An enrollment that commits is the only active one of its user: it looked for another
\* under the user's lock, which every enrollment of the user takes.
LEMMA EnrolledOnce ==
  ASSUME Serial, AtMostOnce, NEW s \in Sessions, EnrollmentCommits(s) PROVE AtMostOnce'
  <1> DEFINE a == session[s].opens
  <1>1. /\ Commits(s, "enroll")
        /\ enrollment' = [enrollment EXCEPT ![a] = [status |-> "active", user |-> Req(s).user]]
        /\ UNCHANGED <<claims, bet, settlements, adjusted>>
    BY DEF EnrollmentCommits
  <1>2. EnrollmentPlanned(s)
    BY <1>1, Committing DEF Decided
  <1>3. /\ a \in Accounts /\ \A c \in Accounts : ~EnrolledAs(Req(s).user, c)
        /\ enrollment'[a].user = Req(s).user
        /\ \A c \in Accounts : c # a => enrollment'[c] = enrollment[c]
    BY <1>1, <1>2 DEF EnrollmentPlanned, Serial, TypeOK
  <1>4. OneActiveAccount'
    BY <1>3 DEF AtMostOnce, OneActiveAccount, EnrolledAs
  <1>5. (OneBetPerMarket /\ SettledOnce /\ GrantedOnce)'
    BY <1>1 DEF AtMostOnce, OneBetPerMarket, SettledOnce, GrantedOnce, BetsOf
  <1> QED
    BY <1>4, <1>5 DEF AtMostOnce

\* Every other step leaves what is there once.
LEMMA StepOnce == ASSUME Serial, AtMostOnce, [Next]_vars PROVE AtMostOnce'
  <1>1. ASSUME UNCHANGED <<enrollment, account, claims, bet, settlements, adjusted, request>>
               \/ \E s \in Sessions : AdjustmentCommits(s)
        PROVE  AtMostOnce'
    <2>1. UNCHANGED <<enrollment, claims, bet, settlements>>
      BY <1>1 DEF AdjustmentCommits
    <2> QED
      BY <2>1 DEF AtMostOnce, OneBetPerMarket, SettledOnce, GrantedOnce, BetsOf, OneActiveAccount,
        EnrolledAs
  <1>2. ASSUME NEW s \in Sessions, DepartureCommits(s) PROVE AtMostOnce'
    <2>1. UNCHANGED <<claims, bet, settlements>>
      BY <1>2 DEF DepartureCommits
    <2>2. \A a \in Accounts, u \in Users : EnrolledAs(u, a)' => EnrolledAs(u, a)
      BY <1>2 DEF DepartureCommits, EnrolledAs, Serial, TypeOK
    <2>3. (OneBetPerMarket /\ SettledOnce /\ GrantedOnce)'
      BY <2>1 DEF AtMostOnce, OneBetPerMarket, SettledOnce, GrantedOnce, BetsOf
    <2>4. OneActiveAccount'
      BY <2>2 DEF AtMostOnce, OneActiveAccount
    <2> QED
      BY <2>3, <2>4 DEF AtMostOnce
  <1> QED
    BY <1>1, <1>2, StepKinds, ClaimOnce, BetOnce, SettlementOnce, EnrolledOnce

\* At the start every member has one account and one grant.
LEMMA InitOnce == Init => AtMostOnce
  <1> SUFFICES ASSUME Init PROVE AtMostOnce
    OBVIOUS
  <1>1. GrantedOnce
    BY DEF Init, GrantedOnce
  <1>2. OneBetPerMarket /\ SettledOnce
    BY DEF Init, OneBetPerMarket, SettledOnce, BetsOf
  <1>3. OneActiveAccount
    <2>1. \A a \in Accounts, u \in Users : EnrolledAs(u, a) => Members[a] = u /\ Members[a] # Nobody
      BY TransactionConstants DEF Init, EnrolledAs
    <2> QED
      BY <2>1, TransactionConstants DEF OneActiveAccount
  <1> QED
    BY <1>1, <1>2, <1>3 DEF AtMostOnce

\* Nothing happens twice, however often each request is delivered and to how many
\* connections at once.
THEOREM TransactionsHappenOnce == Spec => []AtMostOnce
  <1>1. Init => Serial /\ AtMostOnce
    BY InitSerial, InitOnce
  <1>2. Serial /\ AtMostOnce /\ [Next]_vars => (Serial /\ AtMostOnce)'
    BY StepSerial, StepOnce
  <1> QED
    BY <1>1, <1>2, PTL DEF Spec

-----------------------------------------------------------------------------
\* What was checked still holds at the commit.

\* A bet that appears was placed by the transaction that commits, on what it holds.
LEMMA BetsFollowTheRules == ASSUME Serial, [Next]_vars PROVE BetsMeetTheRules
  <1>1. ASSUME NEW b \in Ops, bet[b] = NoBet, bet'[b] # NoBet
        PROVE  \E s \in Sessions : BetCommits(s) /\ b = session[s].op
    <2>1. ASSUME NEW s \in Sessions, SettlementCommits(s) PROVE FALSE
      <3>1. Req(s).bet \in Ops /\ bet[Req(s).bet] # NoBet /\ bet' = [bet EXCEPT ![Req(s).bet] = session[s].entry]
        BY <2>1, Settling DEF SettlementCommits
      <3> QED
        BY <1>1, <3>1 DEF Serial, TypeOK
    <2>2. ASSUME NEW s \in Sessions, BetCommits(s) PROVE b = session[s].op
      <3>1. bet' = [bet EXCEPT ![session[s].op] = session[s].entry]
        BY <2>2 DEF BetCommits
      <3> QED
        BY <1>1, <3>1 DEF Serial, TypeOK
    <2> QED
      BY <1>1, <2>1, <2>2, StepKinds DEF ClaimCommits, AdjustmentCommits, EnrollmentCommits, DepartureCommits
  <1>2. ASSUME NEW s \in Sessions, BetCommits(s)
        PROVE  LET new == bet'[session[s].op]
               IN  /\ Current(new.game).status = "scheduled"
                   /\ Current(new.game).market = new.market
                   /\ account[new.account].debt = 0
                   /\ account[new.account].available >= new.stake
                   /\ Spent(new.account, new.day) + new.stake <= DailyStakeLimit
    <2> DEFINE new == session[s].entry
    <2>1. Commits(s, "place") /\ bet' = [bet EXCEPT ![session[s].op] = new]
      BY <1>2 DEF BetCommits
    <2>2. /\ session[s].op \in Ops /\ BetPlanned(s)
          /\ new.account = session[s].account /\ new.game = session[s].game
          /\ session[s].credit = account[session[s].account] /\ session[s].credit \in Credits
          /\ session[s].row = Current(session[s].game) /\ new.market = session[s].row.market
          /\ new.stake = Req(s).stake /\ new.stake \in Nat /\ new.day = KstDate(session[s].at)
      BY <2>1, Placing
    <2>3. bet'[session[s].op] = new
      BY <2>1, <2>2 DEF Serial, TypeOK
    <2>4. PlacementAccepted(session[s].at, session[s].row, session[s].credit.available,
            session[s].credit.debt, Spent(new.account, new.day), new.stake)
      BY <2>2 DEF BetPlanned
    <2>5. /\ session[s].row.status = "scheduled" /\ session[s].credit.debt = 0
          /\ new.stake <= session[s].credit.available
          /\ Spent(new.account, new.day) + new.stake <= DailyStakeLimit
      BY <2>4 DEF PlacementAccepted
    <2>6. session[s].credit.available >= new.stake
      BY <2>2, <2>5 DEF Credits
    <2> HIDE DEF new
    <2> QED
      BY <2>2, <2>3, <2>5, <2>6
  <1> QED
    BY <1>1, <1>2 DEF BetsMeetTheRules, Spent

\* A settlement that appears is of the game's result at that moment.
LEMMA SettlementsFollowTheResult == ASSUME Serial, [Next]_vars PROVE SettlesCurrentResult
  <1>1. ASSUME NEW x \in settlements' \ settlements
        PROVE  \E s \in Sessions : SettlementCommits(s)
    BY <1>1, StepKinds
    DEF ClaimCommits, BetCommits, AdjustmentCommits, EnrollmentCommits, DepartureCommits
  <1>2. ASSUME NEW x \in settlements' \ settlements, NEW s \in Sessions, SettlementCommits(s)
        PROVE  LET row == bet'[x.bet]
               IN  /\ x.revision = Len(revisions[row.game])
                   /\ Terminal(Current(row.game))
                   /\ row.returned = ReturnOf(row.stake, ResultOf(row.prediction, Current(row.game)))
    <2> DEFINE new == session[s].entry
               b == Req(s).bet
    <2>1. /\ Commits(s, "settle") /\ bet' = [bet EXCEPT ![b] = new]
          /\ settlements' = settlements \cup
               {[op |-> session[s].op, bet |-> b, revision |-> session[s].revision]}
      BY <1>2 DEF SettlementCommits
    <2>2. x.bet = b /\ x.revision = session[s].revision
      BY <2>1
    <2>3. /\ b \in Ops /\ bet[b].game = session[s].game
          /\ session[s].row = Current(session[s].game)
          /\ session[s].revision = Len(revisions[session[s].game])
          /\ SettlementDue(bet[b].revision, Req(s).revision, session[s].revision, session[s].row)
          /\ new.game = bet[b].game /\ new.prediction = bet[b].prediction
          /\ new.stake = bet[b].stake
          /\ new.returned = ReturnOf(bet[b].stake, ResultOf(bet[b].prediction, session[s].row))
      BY <2>1, Settling
    <2>4. bet'[b] = new
      BY <2>1, <2>3 DEF Serial, TypeOK
    <2>5. Terminal(session[s].row)
      BY <2>3 DEF SettlementDue
    <2> HIDE DEF new, b
    <2> QED
      BY <2>2, <2>3, <2>4, <2>5
  <1> QED
    BY <1>1, <1>2 DEF SettlesCurrentResult

-----------------------------------------------------------------------------
\* Whose accounts bets and claims commit on.

\* What a bet or a claim has found is still its user's, or has been left.
FoundTheirs(t) ==
  session[t].account # Nobody /\ Kind(t) \in {"claim", "place"} =>
    session[t].account \in Accounts /\ BelongsTo(Req(t).user, session[t].account)

\* An account is left but never handed on.
LEMMA AccountsAreNotHandedOn ==
  ASSUME Serial, [Next]_vars, NEW u, NEW a \in Accounts, BelongsTo(u, a)
  PROVE  BelongsTo(u, a)'
  <1>1. enrollment[a].status # "none"
    BY DEF BelongsTo, EnrolledAs
  <1>2. ASSUME NEW s \in Sessions, EnrollmentCommits(s) PROVE enrollment'[a] = enrollment[a]
    <2>1. /\ enrollment' = [enrollment EXCEPT ![session[s].opens] =
                              [status |-> "active", user |-> Req(s).user]]
          /\ Decided(s) /\ Planned(s) /\ Kind(s) = "enroll"
      BY <1>2 DEF EnrollmentCommits, Commits, Serial, Good, Planned
    <2>2. session[s].opens # a
      BY <1>1, <2>1 DEF Decided, EnrollmentPlanned
    <2> QED
      BY <2>1, <2>2 DEF Serial, TypeOK
  <1>3. ASSUME NEW s \in Sessions, DepartureCommits(s)
        PROVE  enrollment'[a] = enrollment[a] \/ enrollment'[a].status = "departed"
    BY <1>3 DEF DepartureCommits, Serial, TypeOK
  <1>4. enrollment'[a] = enrollment[a] \/ enrollment'[a].status = "departed"
    BY <1>2, <1>3, StepKinds
    DEF ClaimCommits, BetCommits, SettlementCommits, AdjustmentCommits
  <1> QED
    BY <1>4 DEF BelongsTo, EnrolledAs

\* A transaction goes on with its request or ends; a claim or a bet keeps the account it
\* has, unless it is the one that finds it.
Proceeds(s) ==
  /\ session'[s].op = session[s].op
  /\ \A t \in Sessions : t # s => session'[t] = session[t]
  /\ Kind(s) \in {"claim", "place"} =>
       session'[s].account = session[s].account \/ FindAccount(s)
Finishes(s) == \E answer : Finish(s, answer)

\* Every statement does one or the other.
LEMMA ProceedsOrFinishes ==
  ASSUME Serial, NEW s \in Sessions, Statement(s)
  PROVE  request' = request /\ (Proceeds(s) \/ Finishes(s))
  <1>1. session[s] \in Runs /\ DOMAIN session = Sessions
    BY DEF Serial, TypeOK
  <1>2. RunsAs(s)
    BY DEF Serial, Good
  <1>3. CASE FindAccount(s)
    BY <1>1, <1>3 DEF FindAccount, Deny, Continue, Runs, Proceeds, inputs
  <1>4. CASE LockAccount(s)
    BY <1>1, <1>4 DEF LockAccount, Continue, Runs, Proceeds, inputs
  <1>5. CASE ExamineClaim(s)
    <2> DEFINE me == session[s]
               after == Changed(me.credit, AllocateDailyCredit(me.credit.debt))
               m == [me EXCEPT !.pc = "key", !.outcome = "done", !.after = after]
    <2>1. /\ Finish(s, "done") \/ Deny(s) \/ Continue(s, m)
          /\ request' = request
      BY <1>5, Zenon DEF ExamineClaim, inputs
    <2> HIDE DEF after
    <2>2. Deny(s) \/ Continue(s, m) => Proceeds(s)
      BY <1>1 DEF Deny, Continue, Runs, Proceeds
    <2> HIDE DEF m
    <2> QED
      BY <2>1, <2>2 DEF Finishes
  <1>6. CASE ExamineBet(s)
    BY <1>1, <1>6 DEF ExamineBet, Continue, Runs, Proceeds, Finishes, inputs
  <1>7. CASE LockGame(s)
    BY <1>1, <1>7 DEF LockGame, Continue, Runs, Proceeds, inputs
  <1>8. CASE PlanBet(s)
    <2> DEFINE me == session[s]
               after == Changed(me.credit, [available |-> -Req(s).stake, debt |-> 0])
               entry == [account |-> me.account, game |-> me.game, market |-> me.row.market,
                         prediction |-> Req(s).prediction, stake |-> Req(s).stake,
                         day |-> KstDate(me.at), status |-> "pending", revision |-> 0,
                         returned |-> 0]
               m == [me EXCEPT !.pc = "key", !.outcome = "done", !.after = after, !.entry = entry]
    <2>1. /\ Deny(s) \/ Continue(s, m)
          /\ request' = request
      BY <1>8, Zenon DEF PlanBet, inputs
    <2> HIDE DEF after, entry
    <2>2. Deny(s) \/ Continue(s, m) => Proceeds(s)
      BY <1>1 DEF Deny, Continue, Runs, Proceeds
    <2> HIDE DEF m
    <2> QED
      BY <2>1, <2>2
  <1>9. CASE FindOwner(s)
    <2> DEFINE m == [session[s] EXCEPT !.pc = "found", !.account = bet[Req(s).bet].account]
    <2>1. /\ Finish(s, "done") \/ Deny(s) \/ Continue(s, m)
          /\ request' = request /\ Kind(s) = "settle"
      BY <1>9, Zenon DEF FindOwner, inputs
    <2>2. Deny(s) \/ (Continue(s, m) /\ Kind(s) = "settle") => Proceeds(s)
      BY <1>1 DEF Deny, Continue, Runs, Proceeds
    <2> HIDE DEF m
    <2> QED
      BY <2>1, <2>2 DEF Finishes
  <1>10. CASE ExamineSettlement(s)
    BY <1>1, <1>10 DEF ExamineSettlement, Continue, Runs, Proceeds, Finishes, inputs
  <1>11. CASE PlanSettlement(s)
    <2> DEFINE me == session[s]
               row == bet[Req(s).bet]
               result == ResultOf(row.prediction, me.row)
               returned == ReturnOf(row.stake, result)
               delta == returned - row.returned
               split == AllocateSettlementDelta(me.credit.available, me.credit.debt, delta,
                                                row.revision = 0 /\ result = "void")
               after == IF delta = 0 THEN me.credit ELSE Changed(me.credit, split)
               entry == [row EXCEPT !.status = IF result = "void" THEN "void" ELSE "settled",
                                    !.revision = me.revision, !.returned = returned]
               m == [me EXCEPT !.pc = "key", !.outcome = "done", !.after = after, !.entry = entry]
    <2>1. /\ Deny(s) \/ Continue(s, m)
          /\ request' = request
      BY <1>11, Zenon DEF PlanSettlement, inputs
    <2> HIDE DEF after, entry
    <2>2. Deny(s) \/ Continue(s, m) => Proceeds(s)
      BY <1>1 DEF Deny, Continue, Runs, Proceeds
    <2> HIDE DEF m
    <2> QED
      BY <2>1, <2>2
  <1>12. CASE AdjustBegins(s)
    BY <1>1, <1>12 DEF AdjustBegins, Continue, Runs, Proceeds, inputs
  <1>13. CASE FindAdjusted(s)
    BY <1>1, <1>2, <1>13 DEF FindAdjusted, RunsAs, Continue, Runs, Proceeds, inputs
  <1>14. CASE PlanAdjustment(s)
    BY <1>1, <1>14 DEF PlanAdjustment, Continue, Runs, Proceeds, inputs
  <1>15. CASE LockUser(s)
    BY <1>1, <1>15 DEF LockUser, Continue, Runs, Proceeds, inputs
  <1>16. CASE PlanEnrollment(s)
    BY <1>1, <1>16 DEF PlanEnrollment, Deny, Continue, Runs, Proceeds, inputs
  <1>17. CASE FindEnrollment(s)
    BY <1>1, <1>17 DEF FindEnrollment, Continue, Runs, Proceeds, Finishes, inputs
  <1>18. CASE LockEnrollment(s)
    BY <1>1, <1>18 DEF LockEnrollment, Continue, Runs, Proceeds, Finishes, inputs
  <1>19. CASE TakeOperation(s)
    BY <1>1, <1>19 DEF TakeOperation, Continue, Runs, Proceeds, Finishes, inputs
  <1>20. CASE CommitDenied(s) \/ CommitDone(s) \/ FailBet(s)
    BY <1>20 DEF CommitDenied, CommitDone, FailBet, Finishes, inputs
  <1> QED
    BY <1>3, <1>4, <1>5, <1>6, <1>7, <1>8, <1>9, <1>10, <1>11, <1>12, <1>13, <1>14, <1>15,
       <1>16, <1>17, <1>18, <1>19, <1>20 DEF Statement

\* Every session's find stays its user's or one that was left.
LEMMA StepFoundTheirs ==
  ASSUME Serial, \A t \in Sessions : FoundTheirs(t), [Next]_vars, NEW t \in Sessions
  PROVE  FoundTheirs(t)'
  <1>1. session[t] \in Runs /\ FoundTheirs(t)
    BY DEF Serial, TypeOK
  <1>2. ASSUME session'[t].account = session[t].account, session'[t].op = session[t].op,
               request' = request
        PROVE  FoundTheirs(t)'
    <2> SUFFICES ASSUME session[t].account # Nobody, Kind(t) \in {"claim", "place"}
                 PROVE  /\ BelongsTo(Req(t).user, session[t].account)'
                        /\ session[t].account \in Accounts
      BY <1>2 DEF FoundTheirs, Kind, Req
    <2>1. PICK u, a : u = Req(t).user /\ a = session[t].account
      OBVIOUS
    <2>2. a \in Accounts /\ BelongsTo(u, a)
      BY <1>1, <2>1 DEF FoundTheirs
    <2>3. BelongsTo(u, a)'
      BY <2>2, AccountsAreNotHandedOn
    <2>4. Req(t)' = Req(t)
      BY <1>2 DEF Req
    <2> QED
      BY <1>2, <2>1, <2>2, <2>3, <2>4 DEF BelongsTo, EnrolledAs
  <1>3. ASSUME session'[t] = Idle PROVE FoundTheirs(t)'
    BY <1>3 DEF FoundTheirs, Idle
  <1>4. CASE Tick \/ UNCHANGED vars \/ \E g \in Games, c \in Feed : GameRevised(g, c)
    BY <1>2, <1>4 DEF Tick, vars, GameRevised, inputs
  <1>5. ASSUME NEW s \in Sessions, s # t,
               Statement(s) \/ Abort(s) \/ \E o \in DOMAIN request : Deliver(s, o)
        PROVE  FoundTheirs(t)'
    <2>1. CASE Statement(s)
      BY <1>2, <1>5, <2>1, ProceedsOrFinishes DEF Proceeds, Finishes, Finish, Serial, TypeOK
    <2>2. CASE Abort(s) \/ \E o \in DOMAIN request : Deliver(s, o)
      BY <1>2, <1>5, <2>2 DEF Abort, Deliver, Finish, inputs, Serial, TypeOK
    <2> QED
      BY <1>5, <2>1, <2>2
  <1>6. CASE \E o \in DOMAIN request : Deliver(t, o)
    <2>1. session'[t].account = Nobody
      BY <1>6 DEF Deliver, Idle, Serial, TypeOK
    <2> QED
      BY <2>1 DEF FoundTheirs
  <1>7. CASE Abort(t) \/ Finishes(t)
    <2>1. session'[t] = Idle
      BY <1>7 DEF Abort, Finishes, Finish, Serial, TypeOK
    <2> QED
      BY <1>3, <2>1
  <1>8. CASE Statement(t) /\ Proceeds(t)
    <2>1. request' = request /\ session'[t].op = session[t].op
      BY <1>8, ProceedsOrFinishes DEF Proceeds, Continue, Serial, TypeOK
    <2>2. CASE Kind(t) \notin {"claim", "place"}
      BY <2>1, <2>2 DEF FoundTheirs, Kind
    <2>3. CASE session'[t].account = session[t].account
      BY <1>2, <2>1, <2>3
    <2>4. CASE FindAccount(t)
      <3>1. /\ enrollment' = enrollment
            /\ \/ session'[t].account \in Accounts /\ EnrolledAs(Req(t).user, session'[t].account)
               \/ session'[t].account = session[t].account
        <4>1. DOMAIN session = Sessions /\ enrollment' = enrollment /\ session'[t].op = session[t].op
          BY <2>1, <2>4 DEF FindAccount, tables, Serial, TypeOK
        <4>2. CASE Deny(t)
          BY <1>1, <4>1, <4>2 DEF Deny, Continue, Runs
        <4>3. ASSUME NEW a \in Accounts, EnrolledAs(Req(t).user, a),
                     Continue(t, [session[t] EXCEPT !.pc = "found", !.account = a])
              PROVE  session'[t].account = a
          BY <1>1, <4>1, <4>3 DEF Continue, Runs
        <4> QED
          BY <2>4, <4>1, <4>2, <4>3 DEF FindAccount
      <3> QED
        BY <1>2, <2>1, <3>1 DEF FoundTheirs, BelongsTo, EnrolledAs, Req, Kind
    <2>5. Kind(t) \in {"claim", "place"} => session'[t].account = session[t].account \/ FindAccount(t)
      BY <1>8 DEF Proceeds, Continue, Serial, TypeOK
    <2> QED
      BY <2>2, <2>3, <2>4, <2>5
  <1> QED
    BY <1>4, <1>5, <1>6, <1>7, <1>8, ProceedsOrFinishes DEF Next

\* A bet or a claim that appears is on what its transaction found.
LEMMA CommitsOnFound ==
  ASSUME Serial, \A t \in Sessions : FoundTheirs(t), [Next]_vars
  PROVE  OnOwnAccounts
  <1>1. ASSUME NEW s \in Sessions, BetCommits(s) \/ ClaimCommits(s)
        PROVE  BelongsTo(request[session[s].op].user, session[s].account)
    <2>1. /\ session[s].pc = "ready" /\ Kind(s) \in {"claim", "place"}
          /\ FoundTheirs(s) /\ Found(s) /\ OnAccount(s)
      BY <1>1 DEF BetCommits, ClaimCommits, Commits, Serial, Good, OnAccount, Planned
    <2> QED
      BY <2>1, NobodyIsNone DEF FoundTheirs, Found, Req
  <1>2. ASSUME NEW b \in Ops, bet[b] = NoBet, bet'[b] # NoBet
        PROVE  BelongsTo(request[b].user, bet'[b].account)
    <2>1. ASSUME NEW s \in Sessions, SettlementCommits(s) PROVE FALSE
      <3>1. Req(s).bet \in Ops /\ bet[Req(s).bet] # NoBet /\ bet' = [bet EXCEPT ![Req(s).bet] = session[s].entry]
        BY <2>1, Settling DEF SettlementCommits
      <3> QED
        BY <1>2, <3>1 DEF Serial, TypeOK
    <2>2. PICK s \in Sessions : BetCommits(s)
      BY <1>2, <2>1, StepKinds DEF ClaimCommits, AdjustmentCommits, EnrollmentCommits, DepartureCommits
    <2>3. bet' = [bet EXCEPT ![session[s].op] = session[s].entry] /\ Commits(s, "place")
      BY <2>2 DEF BetCommits
    <2>4. session[s].op \in Ops /\ session[s].entry.account = session[s].account
      BY <2>3, Placing
    <2>5. b = session[s].op /\ bet'[b] = session[s].entry
      BY <1>2, <2>3, <2>4 DEF Serial, TypeOK
    <2> QED
      BY <1>1, <2>2, <2>4, <2>5
  <1>3. ASSUME NEW c \in claims' \ claims
        PROVE  BelongsTo(request[c.op].user, c.account)
    <2>1. PICK s \in Sessions : ClaimCommits(s)
      BY <1>3, StepKinds
      DEF BetCommits, SettlementCommits, AdjustmentCommits, EnrollmentCommits, DepartureCommits
    <2>2. c.op = session[s].op /\ c.account = session[s].account
      BY <1>3, <2>1 DEF ClaimCommits
    <2> QED
      BY <1>1, <2>1, <2>2
  <1> QED
    BY <1>2, <1>3 DEF OnOwnAccounts

\* What a bet or a settlement was checked against still holds when it commits: nobody
\* else could write the account and the game, which stay locked from the check on.  A bet
\* and a claim are on an account of the user who asked, or on one that user has left since
\* the transaction found it: a departure is all that the stores, which do not lock the
\* enrollment, can miss.
THEOREM CommitsFollowTheRules == Spec => CommitsMeetTheRules
  <1>1. Init => Serial /\ \A t \in Sessions : FoundTheirs(t)
    BY InitSerial DEF Init, FoundTheirs, Idle
  <1>2. Serial /\ (\A t \in Sessions : FoundTheirs(t)) /\ [Next]_vars
          => (Serial /\ \A t \in Sessions : FoundTheirs(t))'
    BY StepSerial, StepFoundTheirs
  <1>3. Serial /\ (\A t \in Sessions : FoundTheirs(t)) /\ [Next]_vars
          => BetsMeetTheRules /\ SettlesCurrentResult /\ OnOwnAccounts
    BY BetsFollowTheRules, SettlementsFollowTheResult, CommitsOnFound
  <1> QED
    BY <1>1, <1>2, <1>3, PTL DEF Spec, CommitsMeetTheRules

-----------------------------------------------------------------------------
\* The commits keep the credit contract.

\* What the contract sees of the tables.
OpenAccounts == {a \in Accounts : enrollment[a].status # "none"}
CreditOf == [a \in Accounts |-> [available |-> account[a].available, debt |-> account[a].debt]]
GrantedOf == [a \in Accounts |-> {c.day : c \in {x \in claims : x.account = a}}]
PositionOf(row) ==
  IF row = NoBet THEN NoBet
  ELSE [account  |-> row.account,
        stake    |-> row.stake,
        returned |-> IF row.status = "pending" THEN -1 ELSE row.returned]
PositionsOf == [o \in Ops |-> PositionOf(bet[o])]

\* A daily grant is received as the contract says.
LEMMA GrantIsReceived ==
  ASSUME NEW available \in Nat, NEW debt \in Nat
  PROVE  LET d == AllocateDailyCredit(debt)
             c == [available |-> available, debt |-> debt]
         IN  Contract!Receive(c, DailyCredit)
               = [available |-> available + d.available, debt |-> debt + d.debt]
  BY RuleConstants DEF AllocateDailyCredit, Smaller, Contract!Receive, Contract!Positive

\* A settlement is split as the contract says: a first refund goes to the balance, any
\* other difference moves the account.
LEMMA SettlementIsMoved ==
  ASSUME NEW available \in Nat, NEW debt \in Nat, NEW delta \in Int, NEW refund \in BOOLEAN
  PROVE  LET d == AllocateSettlementDelta(available, debt, delta, refund)
             c == [available |-> available, debt |-> debt]
             after == [available |-> available + d.available, debt |-> debt + d.debt]
         IN  /\ refund => after = [available |-> available + delta, debt |-> debt]
             /\ ~refund => after = Contract!Move(c, delta)
             /\ ~refund /\ delta >= 0 => after = Contract!Receive(c, delta)
             /\ Contract!Move(c, 0) = c /\ Contract!Receive(c, 0) = c
  BY DEF AllocateSettlementDelta, Smaller, Contract!Move, Contract!Receive, Contract!Recover,
         Contract!Positive

\* The account that a commit pays, in terms of what the contract sees.
LEMMA CreditStep ==
  ASSUME Serial, NEW s \in Sessions, NEW kind \in {"claim", "place", "settle", "adjust"},
         Commits(s, kind), Pays(s)
  PROVE  LET a == session[s].account
             c == session[s].credit
             d == session[s].after
         IN  /\ a \in Accounts /\ a \in OpenAccounts /\ c \in Credits /\ d \in Credits
             /\ CreditOf[a] = [available |-> c.available, debt |-> c.debt]
             /\ CreditOf' = [CreditOf EXCEPT ![a] = [available |-> d.available, debt |-> d.debt]]
  <1>1. LET a == session[s].account
        IN  /\ a \in Accounts /\ enrollment[a].status # "none"
            /\ session[s].credit = account[a] /\ session[s].after \in Credits
            /\ account'[a] = session[s].after
            /\ \A c \in Accounts : c # a => account'[c] = account[c]
    BY Paying
  <1>2. session[s].credit \in Credits
    BY Committing DEF Runs
  <1> QED
    BY <1>1, <1>2 DEF OpenAccounts, CreditOf

\* A bet's position is told from the absent one.
LEMMA PositionPresent ==
  ASSUME NEW row \in Bets
  PROVE  /\ PositionOf(row) # NoBet /\ row # NoBet
         /\ PositionOf(row).account = row.account
         /\ PositionOf(row).stake = row.stake
         /\ PositionOf(row).returned = -1 <=> row.status = "pending"
         /\ row.status # "pending" => PositionOf(row).returned = row.returned
  <1>1. row # NoBet
    BY NoBetAssumption
  <1>2. row.returned \in Nat /\ row.account \in Accounts /\ row.stake \in Stakes
    BY DEF Bets
  <1>3. PositionOf(row) \in [account : Accounts, stake : Stakes, returned : Int]
    BY <1>1, <1>2 DEF PositionOf
  <1> QED
    BY <1>1, <1>2, <1>3, NoBetAssumption DEF PositionOf

\* A claim that commits is a grant for its day.
LEMMA ClaimGrants == ASSUME Serial, NEW s \in Sessions, ClaimCommits(s) PROVE Contract!Next
  <1> DEFINE a == session[s].account
             c == session[s].credit
             day == KstDate(session[s].at)
             new == [account |-> a, day |-> day, op |-> session[s].op]
  <1>1. /\ Commits(s, "claim") /\ Pays(s) /\ claims' = claims \cup {new}
        /\ UNCHANGED <<enrollment, bet, settlements, adjusted>>
    BY DEF ClaimCommits
  <1>2. Planned(s) /\ Kind(s) = "claim" /\ Decided(s)
    BY <1>1, Committing
  <1>3. /\ session[s].after = Changed(c, AllocateDailyCredit(c.debt))
        /\ \A x \in claims : x.account = a => x.day # day
    BY <1>2 DEF Decided, ClaimPlanned
  <1>4. /\ a \in Accounts /\ a \in OpenAccounts /\ c \in Credits
        /\ CreditOf[a] = [available |-> c.available, debt |-> c.debt]
        /\ CreditOf' = [CreditOf EXCEPT ![a] =
             [available |-> session[s].after.available, debt |-> session[s].after.debt]]
    BY <1>1, CreditStep
  <1>5. c.available \in Nat /\ c.debt \in Nat
    BY <1>4 DEF Credits
  <1>6. [available |-> session[s].after.available, debt |-> session[s].after.debt]
          = Contract!Receive(CreditOf[a], DailyCredit)
    BY <1>3, <1>4, <1>5, GrantIsReceived DEF Changed
  <1>7. CreditOf' = [CreditOf EXCEPT ![a] = Contract!Receive(CreditOf[a], DailyCredit)]
    BY <1>4, <1>6
  <1>8. CreditOf' = [CreditOf EXCEPT ![a] = Contract!Receive(@, DailyCredit)]
    BY <1>7 DEF CreditOf
  <1>9. new.account = a /\ new.day = day
    OBVIOUS
  <1> HIDE DEF new
  <1>10. GrantedOf' = [GrantedOf EXCEPT ![a] = @ \cup {day}]
    <2>1. \A b \in Accounts : GrantedOf'[b] = IF b = a THEN GrantedOf[b] \cup {day} ELSE GrantedOf[b]
      BY <1>1, <1>9 DEF GrantedOf
    <2> QED
      <3> DEFINE all == [GrantedOf EXCEPT ![a] = @ \cup {day}]
      <3>1. /\ GrantedOf' = [b \in Accounts |-> GrantedOf'[b]]
            /\ all = [b \in Accounts |-> IF b = a THEN GrantedOf[b] \cup {day} ELSE GrantedOf[b]]
        BY <1>4 DEF GrantedOf
      <3> QED
        BY <2>1, <3>1
  <1>11. day \notin GrantedOf[a] /\ day \in GrantedOf'[a]
    BY <1>1, <1>3, <1>4, <1>9 DEF GrantedOf
  <1>12. OpenAccounts' = OpenAccounts /\ PositionsOf' = PositionsOf
    BY <1>1 DEF OpenAccounts, PositionsOf
  <1>13. Contract!Grant(a, day)
    BY <1>4, <1>8, <1>10, <1>11, <1>12
       DEF Contract!Grant, OpenAccounts, PositionsOf, PositionOf, CreditOf, GrantedOf
  <1>14. \E b \in Accounts : \E d \in GrantedOf'[b] : Contract!Grant(b, d)
    <2>1. PICK b, d : b = a /\ d = day
      OBVIOUS
    <2>2. Contract!Grant(b, d)
      BY <1>13, <2>1 DEF Contract!Grant
    <2>3. b \in Accounts /\ d \in GrantedOf'[b]
      BY <1>4, <1>11, <2>1
    <2> QED
      BY <2>2, <2>3
  <1> QED
    BY <1>14, Zenon DEF Contract!Next, GrantedOf

\* A bet that commits is a stake out of credit its account has, without debt.
LEMMA BetStakes == ASSUME Serial, NEW s \in Sessions, BetCommits(s) PROVE Contract!Next
  <1>1. PICK a, o, x : a = session[s].account /\ o = session[s].op /\ x = Req(s).stake
    OBVIOUS
  <1> DEFINE c == session[s].credit
             new == session[s].entry
  <1>2. /\ Commits(s, "place") /\ Pays(s) /\ bet' = [bet EXCEPT ![o] = new]
        /\ UNCHANGED <<enrollment, claims, settlements, adjusted>>
    BY <1>1 DEF BetCommits
  <1>3. /\ o \in Ops /\ bet[o] = NoBet /\ BetPlanned(s) /\ new \in Bets /\ new.account = a
        /\ new.stake = x /\ x \in Nat /\ new.status = "pending"
    BY <1>1, <1>2, Placing
  <1>4. /\ a \in Accounts /\ a \in OpenAccounts /\ c \in Credits
        /\ CreditOf[a] = [available |-> c.available, debt |-> c.debt]
        /\ CreditOf' = [CreditOf EXCEPT ![a] =
             [available |-> session[s].after.available, debt |-> session[s].after.debt]]
    BY <1>1, <1>2, CreditStep
  <1>5. c.debt = 0 /\ x <= c.available /\ c.available \in Nat
    BY <1>1, <1>3, <1>4 DEF BetPlanned, PlacementAccepted, Credits
  <1>6. 0 < x
    BY <1>3, RuleConstants DEF Bets, Stakes
  <1>7. session[s].after.available = c.available - x /\ session[s].after.debt = c.debt
    <2>1. session[s].after = Changed(c, [available |-> -x, debt |-> 0])
      BY <1>1, <1>3 DEF BetPlanned
    <2> QED
      BY <1>3, <1>4, <1>5, <2>1 DEF Changed
  <1>8. CreditOf' = [CreditOf EXCEPT ![a].available = @ - x]
    BY <1>4, <1>7 DEF CreditOf
  <1>9. x = CreditOf[a].available - CreditOf'[a].available
    BY <1>3, <1>4, <1>5, <1>7 DEF CreditOf
  <1>10. PositionsOf[o] = NoBet
    BY <1>3 DEF PositionsOf, PositionOf
  <1>11. PositionsOf' = [PositionsOf EXCEPT ![o] =
                           [account |-> a, stake |-> x, returned |-> Contract!Unresolved]]
    BY <1>2, <1>3, NoBetAssumption DEF PositionsOf, PositionOf, Serial, TypeOK, Contract!Unresolved
  <1>12. OpenAccounts' = OpenAccounts /\ GrantedOf' = GrantedOf
    BY <1>2 DEF OpenAccounts, GrantedOf
  <1> DEFINE StakeTaken(q, b, y) ==
        /\ b \in OpenAccounts /\ PositionsOf[q] = NoBet
        /\ CreditOf[b].debt = 0 /\ 0 < y /\ y <= CreditOf[b].available
        /\ PositionsOf' = [PositionsOf EXCEPT ![q] =
                              [account |-> b, stake |-> y, returned |-> Contract!Unresolved]]
        /\ CreditOf' = [CreditOf EXCEPT ![b].available = @ - y]
        /\ OpenAccounts' = OpenAccounts /\ GrantedOf' = GrantedOf
  <1>13. StakeTaken(o, a, x)
    <2>1. a \in OpenAccounts /\ CreditOf[a].debt = 0 /\ x <= CreditOf[a].available
      BY <1>4, <1>5
    <2> QED
      BY <1>6, <1>8, <1>10, <1>11, <1>12, <2>1
  <1>14. StakeTaken(o, a, CreditOf[a].available - CreditOf'[a].available)
    BY <1>9, <1>13
  <1>15. \E q \in Ops, b \in Accounts :
           StakeTaken(q, b, CreditOf[b].available - CreditOf'[b].available)
    BY <1>3, <1>4, <1>14
  <1> QED
    BY <1>15, Zenon
       DEF Contract!Next, Contract!Stake, OpenAccounts, PositionsOf, PositionOf, CreditOf, GrantedOf

\* A settlement that commits resolves the bet, or corrects what it had been resolved to.
LEMMA SettlementResolves == ASSUME Serial, NEW s \in Sessions, SettlementCommits(s) PROVE Contract!Next
  <1>1. PICK a, b, row, new, result, r :
          /\ a = session[s].account /\ b = Req(s).bet /\ row = bet[b] /\ new = session[s].entry
          /\ result = ResultOf(row.prediction, session[s].row)
          /\ r = ReturnOf(row.stake, result)
    OBVIOUS
  <1> DEFINE c == CreditOf[a]
             delta == r - row.returned
             first == row.status = "pending"
  <1>2. /\ Commits(s, "settle") /\ Pays(s) /\ bet' = [bet EXCEPT ![b] = new]
        /\ UNCHANGED <<enrollment, claims, adjusted>>
    BY <1>1 DEF SettlementCommits
  <1>3. /\ b \in Ops /\ row # NoBet /\ row \in Bets /\ row.account = a
        /\ Settled(row, session[s])
        /\ new \in Bets /\ new.account = a /\ new.stake = row.stake
        /\ new.status # "pending" /\ new.returned = r
    BY <1>1, <1>2, Settling
  <1>4. /\ a \in Accounts /\ session[s].credit \in Credits
        /\ CreditOf[a] = [available |-> session[s].credit.available, debt |-> session[s].credit.debt]
        /\ CreditOf' = [CreditOf EXCEPT ![a] =
             [available |-> session[s].after.available, debt |-> session[s].after.debt]]
    BY <1>1, <1>2, CreditStep
  <1>5. row.stake \in Nat /\ row.stake # 0 /\ row.returned \in Nat
    BY <1>3, RuleConstants DEF Bets, Stakes
  <1>6. /\ r \in Nat /\ r \in {0, row.stake, 2 * row.stake, 3 * row.stake}
        /\ (r = row.stake <=> result = "void")
    BY <1>1, <1>5 DEF ReturnOf, ResultOf
  <1>7. (first <=> row.revision = 0) /\ (first => row.returned = 0)
    BY <1>1, <1>3 DEF Serial, Rows
  <1>8. PICK refund \in BOOLEAN : refund <=> (first /\ result = "void")
    BY Zenon
  <1>9. PICK split : split = AllocateSettlementDelta(c.available, c.debt, delta, refund)
    OBVIOUS
  <1>10. delta \in Int /\ c.available \in Nat /\ c.debt \in Nat /\ c = [available |-> c.available, debt |-> c.debt]
    BY <1>4, <1>5, <1>6 DEF Credits
  <1> DEFINE after == [available |-> c.available + split.available, debt |-> c.debt + split.debt]
  <1>11. /\ refund => after = [available |-> c.available + delta, debt |-> c.debt]
         /\ ~refund => after = Contract!Move(c, delta)
         /\ ~refund /\ delta >= 0 => after = Contract!Receive(c, delta)
         /\ Contract!Move(c, 0) = c /\ Contract!Receive(c, 0) = c
    <2>1. PICK available \in Nat, debt \in Nat, d \in Int :
            available = c.available /\ debt = c.debt /\ d = delta
      BY <1>10
    <2>2. c = [available |-> available, debt |-> debt]
      BY <1>10, <2>1
    <2> QED
      BY <1>9, <2>1, <2>2, SettlementIsMoved
  <1>12. CreditOf' = [CreditOf EXCEPT ![a] = IF delta = 0 THEN c ELSE after]
    <2>1. refund = (row.revision = 0 /\ result = "void")
      BY <1>7, <1>8
    <2>2. split = AllocateSettlementDelta(session[s].credit.available, session[s].credit.debt, delta,
                                          row.revision = 0 /\ result = "void")
      BY <1>4, <1>9, <2>1
    <2>3. session[s].after = IF delta = 0 THEN session[s].credit ELSE Changed(session[s].credit, split)
      BY <1>1, <1>3, <2>2 DEF Settled
    <2>4. [available |-> session[s].after.available, debt |-> session[s].after.debt]
            = IF delta = 0 THEN c ELSE after
      <3>1. CASE delta = 0
        BY <1>4, <2>3, <3>1
      <3>2. CASE delta # 0
        <4>1. /\ session[s].after.available = session[s].credit.available + split.available
              /\ session[s].after.debt = session[s].credit.debt + split.debt
          BY <2>3, <3>2 DEF Changed
        <4>2. c.available = session[s].credit.available /\ c.debt = session[s].credit.debt
          BY <1>4
        <4> QED
          BY <3>2, <4>1, <4>2
      <3> QED
        BY <3>1, <3>2
    <2> HIDE DEF delta, after, c
    <2> QED
      BY <1>4, <2>4
  <1>13. first => delta = r
    BY <1>6, <1>7
  <1> HIDE DEF c, delta, after
  <1>14. /\ first /\ result = "void" => CreditOf' = [CreditOf EXCEPT ![a] = [available |-> c.available + r, debt |-> c.debt]]
         /\ first /\ result # "void" => CreditOf' = [CreditOf EXCEPT ![a] = Contract!Receive(c, r)]
         /\ ~first => CreditOf' = [CreditOf EXCEPT ![a] = Contract!Move(c, delta)]
    <2>1. CASE first /\ result = "void"
      <3>1. delta # 0
        BY <1>5, <1>6, <1>13, <2>1
      <3> QED
        BY <1>8, <1>11, <1>12, <1>13, <2>1, <3>1
    <2>2. CASE first /\ result # "void"
      <3>1. delta >= 0 /\ ~refund
        BY <1>6, <1>8, <1>13, <2>2
      <3> QED
        BY <1>11, <1>12, <1>13, <2>2, <3>1
    <2>3. CASE ~first
      BY <1>8, <1>11, <1>12, <2>3
    <2> QED
      BY <2>1, <2>2, <2>3
  <1>15. /\ first /\ result = "void" => CreditOf' = [CreditOf EXCEPT ![a].available = @ + r]
         /\ first /\ result # "void" => CreditOf' = [CreditOf EXCEPT ![a] = Contract!Receive(@, r)]
         /\ ~first => CreditOf' = [CreditOf EXCEPT ![a] = Contract!Move(@, r - row.returned)]
    BY <1>4, <1>10, <1>14 DEF CreditOf, c, delta
  <1>16. /\ PositionsOf[b] = PositionOf(row) /\ PositionsOf[b] # NoBet
         /\ PositionsOf[b].account = a /\ PositionsOf[b].stake = row.stake
         /\ PositionsOf[b].returned = -1 <=> first
         /\ ~first => PositionsOf[b].returned = row.returned
    BY <1>1, <1>3, PositionPresent DEF PositionsOf
  <1>17. PositionsOf' = [PositionsOf EXCEPT ![b].returned = r]
    <2>1. PositionOf(new) = [PositionOf(row) EXCEPT !.returned = r]
      BY <1>3, PositionPresent DEF PositionOf
    <2>2. PositionsOf' = [PositionsOf EXCEPT ![b] = PositionOf(new)]
      BY <1>2, <1>3 DEF PositionsOf, Serial, TypeOK
    <2> QED
      BY <1>16, <2>1, <2>2
  <1>18. OpenAccounts' = OpenAccounts /\ GrantedOf' = GrantedOf
    BY <1>2 DEF OpenAccounts, GrantedOf
  <1>19. r \in Contract!Returns(PositionsOf[b].stake)
    BY <1>6, <1>16 DEF Contract!Returns
  <1> USE DEF OpenAccounts, PositionsOf, PositionOf, CreditOf, GrantedOf
  <1>20. CASE first
    <2>1. Contract!Resolve(b, r)
      BY <1>6, <1>15, <1>16, <1>17, <1>18, <1>19, <1>20 DEF Contract!Resolve, Contract!Unresolved
    <2> QED
      BY <1>3, <1>16, <1>19, <2>1 DEF Contract!Next
  <1>21. CASE ~first
    <2>1. Contract!Correct(b, r)
      BY <1>15, <1>16, <1>17, <1>18, <1>19, <1>21 DEF Contract!Correct, Contract!Unresolved
    <2> QED
      BY <1>3, <1>16, <1>19, <2>1 DEF Contract!Next
  <1> QED
    BY <1>20, <1>21

\* An adjustment that commits sets a balance that is not negative.
LEMMA AdjustmentAdjusts == ASSUME Serial, NEW s \in Sessions, AdjustmentCommits(s) PROVE Contract!Next
  <1>1. PICK a : a = session[s].account
    OBVIOUS
  <1> DEFINE c == session[s].credit
             x == Req(s).delta
  <1>2. /\ Commits(s, "adjust") /\ Pays(s) /\ UNCHANGED <<enrollment, claims, bet, settlements>>
    BY DEF AdjustmentCommits
  <1>3. /\ Planned(s) /\ Kind(s) = "adjust" /\ Decided(s) /\ WellFormed(Req(s)) /\ Req(s).kind = "adjust"
    BY <1>2, Committing
  <1>4. /\ c.available + x >= 0 /\ x \in Int
        /\ session[s].after = Changed(c, [available |-> x, debt |-> 0])
    BY <1>3 DEF Decided, AdjustmentPlanned, WellFormed
  <1>5. /\ a \in Accounts /\ a \in OpenAccounts /\ c \in Credits
        /\ CreditOf[a] = [available |-> c.available, debt |-> c.debt]
        /\ CreditOf' = [CreditOf EXCEPT ![a] =
             [available |-> session[s].after.available, debt |-> session[s].after.debt]]
    BY <1>1, <1>2, CreditStep
  <1>6. session[s].after.available >= 0 /\ session[s].after.debt = c.debt
    BY <1>4, <1>5 DEF Changed, Credits
  <1>7. CreditOf'[a].available >= 0
    BY <1>5, <1>6 DEF CreditOf
  <1>8. CreditOf' = [CreditOf EXCEPT ![a].available = CreditOf'[a].available]
    BY <1>5, <1>6 DEF CreditOf
  <1>9. OpenAccounts' = OpenAccounts /\ GrantedOf' = GrantedOf /\ PositionsOf' = PositionsOf
    BY <1>2 DEF OpenAccounts, GrantedOf, PositionsOf
  <1>10. Contract!Adjust(a)
    BY <1>5, <1>7, <1>8, <1>9
       DEF Contract!Adjust, OpenAccounts, PositionsOf, PositionOf, CreditOf, GrantedOf
  <1> QED
    BY <1>5, <1>10, Zenon DEF Contract!Next

\* An enrollment that commits opens an account.
LEMMA EnrollmentOpens == ASSUME Serial, NEW s \in Sessions, EnrollmentCommits(s) PROVE Contract!Next
  <1>1. PICK a : a = session[s].opens
    OBVIOUS
  <1>2. /\ Commits(s, "enroll")
        /\ enrollment' = [enrollment EXCEPT ![a] = [status |-> "active", user |-> Req(s).user]]
        /\ account' = [account EXCEPT ![a] = Empty]
        /\ UNCHANGED <<claims, bet, settlements, adjusted>>
    BY <1>1 DEF EnrollmentCommits
  <1>3. a \in Accounts /\ enrollment[a].status = "none"
    <2>1. Planned(s) /\ Kind(s) = "enroll" /\ Decided(s)
      BY <1>2, Committing
    <2> QED
      BY <1>1, <2>1 DEF Decided, EnrollmentPlanned
  <1>4. account' = account
    BY <1>2, <1>3 DEF Serial, Rows, TypeOK
  <1>5. a \notin OpenAccounts /\ OpenAccounts' = OpenAccounts \cup {a}
    BY <1>2, <1>3 DEF OpenAccounts, Serial, TypeOK
  <1>6. CreditOf' = CreditOf /\ GrantedOf' = GrantedOf /\ PositionsOf' = PositionsOf
    BY <1>2, <1>4 DEF CreditOf, GrantedOf, PositionsOf
  <1>7. Contract!Open(a)
    BY <1>5, <1>6 DEF Contract!Open, OpenAccounts, PositionsOf, PositionOf, CreditOf, GrantedOf
  <1> QED
    BY <1>3, <1>7, Zenon DEF Contract!Next

\* Every statement of every interleaving is a step of the contract or none of its business.
LEMMA StepContract == ASSUME Serial, [Next]_vars PROVE [Contract!Next]_(Contract!vars)
  <1>1. ASSUME UNCHANGED <<enrollment, account, claims, bet, settlements, adjusted, request>>
               \/ \E s \in Sessions : DepartureCommits(s)
        PROVE  UNCHANGED Contract!vars
    <2>1. UNCHANGED <<account, claims, bet>>
      BY <1>1 DEF DepartureCommits
    <2>2. OpenAccounts' = OpenAccounts
      <3>1. CASE enrollment' = enrollment
        BY <3>1 DEF OpenAccounts
      <3>2. ASSUME NEW s \in Sessions, DepartureCommits(s) PROVE OpenAccounts' = OpenAccounts
        <4>1. /\ Commits(s, "depart")
              /\ enrollment' = [enrollment EXCEPT ![session[s].account] =
                                  [status |-> "departed", user |-> Nobody]]
          BY <3>2 DEF DepartureCommits
        <4>2. Planned(s) /\ Kind(s) = "depart" /\ Found(s)
          BY <4>1, Committing
        <4>3. session[s].account \in Accounts /\ enrollment[session[s].account].status # "none"
          BY <4>2 DEF Found, OnEnrollment
        <4> QED
          BY <4>1, <4>3 DEF OpenAccounts, Serial, TypeOK
      <3> QED
        BY <1>1, <3>1, <3>2
    <2>3. CreditOf' = CreditOf /\ GrantedOf' = GrantedOf /\ PositionsOf' = PositionsOf
      BY <2>1 DEF CreditOf, GrantedOf, PositionsOf
    <2> QED
      BY <2>2, <2>3 DEF Contract!vars, OpenAccounts, PositionsOf, PositionOf, CreditOf, GrantedOf
  <1> QED
    BY <1>1, StepKinds, ClaimGrants, BetStakes, SettlementResolves, AdjustmentAdjusts, EnrollmentOpens

\* The stores keep the credit contract, whatever statements of whatever transactions
\* interleave: each commit is one of its steps.
THEOREM TransactionsKeepContract == Spec => CommitsKeepContract
  BY StepContract, InitSerial, StepSerial, PTL DEF Spec, CommitsKeepContract

-----------------------------------------------------------------------------
\* The answers agree with the tables.

\* What an answer says of its operation.
Says(o, answer) ==
  /\ answer = "done" => Effective(o)
  /\ answer = "denied" => operation[o] # "unused" /\ ~Effective(o)
  /\ answer = "duplicate" => operation[o] # "unused"

\* The property in these terms.
LEMMA AnswersSay == AnswersAgree <=> \A o \in Ops : \A x \in answers[o] : Says(o, x)
  BY DEF AnswersAgree, Says

\* An operation is decided once.
LEMMA DecisionsStay ==
  ASSUME Serial, [Next]_vars, NEW o \in Ops, operation[o] # "unused"
  PROVE  operation'[o] = operation[o]
  <1>1. ASSUME NEW s \in Sessions, CommitDenied(s) PROVE operation'[o] = operation[o]
    <2>1. session[s] \in Runs /\ session[s].op \in Ops /\ Holds(s)
      BY <1>1, Acting DEF CommitDenied
    <2>2. operation[session[s].op] = "unused"
      BY <1>1, <2>1 DEF CommitDenied, Holds, OnOperation
    <2> QED
      BY <1>1, <2>1, <2>2 DEF CommitDenied, Serial, TypeOK
  <1>2. ASSUME NEW s \in Sessions, NEW kind, Commits(s, kind) PROVE operation'[o] = operation[o]
    BY <1>2, Committing
  <1>3. ASSUME Tick \/ UNCHANGED vars \/ \E g \in Games, c \in Feed : GameRevised(g, c)
        PROVE  operation' = operation
    BY <1>3 DEF Tick, vars, GameRevised, tables
  <1>4. ASSUME NEW s \in Sessions, Abort(s) \/ \E p \in DOMAIN request : Deliver(s, p)
        PROVE  operation' = operation
    BY <1>4 DEF Abort, Deliver, tables
  <1>5. ASSUME NEW s \in Sessions,
               \/ FindAccount(s) \/ LockAccount(s) \/ ExamineClaim(s) \/ ExamineBet(s)
               \/ LockGame(s) \/ PlanBet(s) \/ FindOwner(s) \/ ExamineSettlement(s)
               \/ PlanSettlement(s) \/ AdjustBegins(s)
        PROVE  operation' = operation
    BY <1>5 DEF FindAccount, LockAccount, ExamineClaim, ExamineBet, LockGame, PlanBet, FindOwner,
      ExamineSettlement, PlanSettlement, AdjustBegins, tables
  <1>6. ASSUME NEW s \in Sessions,
               \/ FindAdjusted(s) \/ PlanAdjustment(s) \/ LockUser(s) \/ PlanEnrollment(s)
               \/ FindEnrollment(s) \/ LockEnrollment(s) \/ TakeOperation(s) \/ FailBet(s)
        PROVE  operation' = operation
    BY <1>6 DEF FindAdjusted, PlanAdjustment, LockUser, PlanEnrollment,
      FindEnrollment, LockEnrollment, TakeOperation, FailBet, tables
  <1>7. ASSUME NEW s \in Sessions, CommitDone(s) PROVE operation'[o] = operation[o]
    BY <1>2, <1>7, CommitKinds DEF ClaimCommits, BetCommits, SettlementCommits, AdjustmentCommits,
      EnrollmentCommits, DepartureCommits
  <1> QED
    BY <1>1, <1>3, <1>4, <1>5, <1>6, <1>7 DEF Next, Statement

\* An operation that is not decided has no row.
LEMMA UndecidedHasNothing ==
  ASSUME Serial, NEW o \in Ops, operation[o] = "unused"
  PROVE  /\ \A c \in claims : c.op # o
         /\ bet[o] = NoBet
         /\ \A x \in settlements : x.op # o
         /\ o \notin adjusted
  BY TransactionConstants DEF Serial, Rows, Made

\* The rows of an operation.
Claimed(o) == \E c \in claims : c.op = o
Placed(o) == bet[o] # NoBet
Resolved(o) == \E x \in settlements : x.op = o
Posted(o) == o \in adjusted

\* Which of them its effect is.
LEMMA EffectIs ==
  ASSUME NEW o
  PROVE  /\ request[o].kind = "claim" => (Effective(o) <=> Claimed(o))
         /\ request[o].kind = "place" => (Effective(o) <=> Placed(o))
         /\ request[o].kind = "settle" => (Effective(o) <=> Resolved(o))
         /\ request[o].kind = "adjust" => (Effective(o) <=> Posted(o))
         /\ request[o].kind \notin {"claim", "place", "settle", "adjust"} =>
              (Effective(o) <=> operation[o] = "accepted")
  BY DEF Effective, Claimed, Placed, Resolved, Posted

\* A step keeps the rows of an operation, and adds none to one that was decided.
RowsKept(o) ==
  /\ Claimed(o) => Claimed(o)'
  /\ Placed(o) => Placed(o)'
  /\ Resolved(o) => Resolved(o)'
  /\ Posted(o) => Posted(o)'
  /\ operation[o] # "unused" =>
       /\ Claimed(o)' => Claimed(o)
       /\ Placed(o)' => Placed(o)
       /\ Resolved(o)' => Resolved(o)
       /\ Posted(o)' => Posted(o)

\* Every step does so: only the commit of an operation that is unused adds a row.
LEMMA StepKeepsRows ==
  ASSUME Serial, [Next]_vars, NEW o \in Ops
  PROVE  RowsKept(o) /\ request' = request
  <1> USE DEF RowsKept, Claimed, Placed, Resolved, Posted
  <1>1. CASE UNCHANGED <<enrollment, account, claims, bet, settlements, adjusted, request>>
    BY <1>1
  <1>2. ASSUME NEW s \in Sessions, NEW kind, Commits(s, kind)
        PROVE  /\ request' = request /\ session[s].op \in Ops
               /\ operation[o] # "unused" => o # session[s].op
    <2>1. operation[session[s].op] = "unused" /\ session[s].op \in Ops /\ request' = request
      BY <1>2, Committing
    <2> QED
      BY <2>1
  <1>3. ASSUME NEW s \in Sessions, ClaimCommits(s) PROVE RowsKept(o) /\ request' = request
    <2>1. /\ Commits(s, "claim")
          /\ claims' = claims \cup {[account |-> session[s].account, day |-> KstDate(session[s].at),
                                     op |-> session[s].op]}
          /\ UNCHANGED <<bet, settlements, adjusted>>
      BY <1>3 DEF ClaimCommits
    <2> QED
      BY <1>2, <2>1
  <1>4. ASSUME NEW s \in Sessions, BetCommits(s) PROVE RowsKept(o) /\ request' = request
    <2>1. /\ Commits(s, "place") /\ bet' = [bet EXCEPT ![session[s].op] = session[s].entry]
          /\ UNCHANGED <<claims, settlements, adjusted>>
      BY <1>4 DEF BetCommits
    <2>2. session[s].entry \in Bets
      BY <2>1, Placing
    <2> QED
      BY <1>2, <2>1, <2>2, NoBetAssumption DEF Serial, TypeOK
  <1>5. ASSUME NEW s \in Sessions, SettlementCommits(s) PROVE RowsKept(o) /\ request' = request
    <2>1. /\ Commits(s, "settle") /\ bet' = [bet EXCEPT ![Req(s).bet] = session[s].entry]
          /\ settlements' = settlements \cup
               {[op |-> session[s].op, bet |-> Req(s).bet, revision |-> session[s].revision]}
          /\ UNCHANGED <<claims, adjusted>>
      BY <1>5 DEF SettlementCommits
    <2>2. session[s].entry \in Bets /\ bet[Req(s).bet] # NoBet
      BY <2>1, Settling
    <2> QED
      BY <1>2, <2>1, <2>2, NoBetAssumption DEF Serial, TypeOK
  <1>6. ASSUME NEW s \in Sessions, AdjustmentCommits(s) PROVE RowsKept(o) /\ request' = request
    <2>1. /\ Commits(s, "adjust") /\ adjusted' = adjusted \cup {session[s].op}
          /\ UNCHANGED <<claims, bet, settlements>>
      BY <1>6 DEF AdjustmentCommits
    <2> QED
      BY <1>2, <2>1
  <1>7. ASSUME NEW s \in Sessions, EnrollmentCommits(s) \/ DepartureCommits(s)
        PROVE  RowsKept(o) /\ request' = request
    <2>1. request' = request /\ UNCHANGED <<claims, bet, settlements, adjusted>>
      BY <1>2, <1>7 DEF EnrollmentCommits, DepartureCommits
    <2> QED
      BY <2>1
  <1> QED
    BY <1>1, <1>3, <1>4, <1>5, <1>6, <1>7, StepKinds

\* What was said stays true.
LEMMA SaidStays ==
  ASSUME Serial, [Next]_vars, NEW o \in Ops, NEW answer, Says(o, answer)
  PROVE  Says(o, answer)'
  <1>1. operation[o] # "unused" => operation'[o] = operation[o]
    BY DecisionsStay
  <1>2. RowsKept(o) /\ request' = request
    BY StepKeepsRows
  <1>3. Effective(o) => Effective(o)'
    BY <1>1, <1>2, EffectIs DEF RowsKept, Effective, Claimed, Placed, Resolved, Posted
  <1>4. operation[o] # "unused" /\ ~Effective(o) => ~Effective(o)'
    BY <1>1, <1>2, EffectIs DEF RowsKept, Effective, Claimed, Placed, Resolved, Posted
  <1> QED
    BY <1>1, <1>3, <1>4 DEF Says

\* The end of a transaction adds one answer, to its operation.
LEMMA OneAnswer ==
  ASSUME Serial, NEW s \in Sessions, session[s].pc # "idle", NEW answer, Finish(s, answer),
         NEW o \in Ops, NEW x \in answers'[o] \ answers[o]
  PROVE  o = session[s].op /\ x = answer
  <1>1. session[s].op \in Ops
    BY Acting
  <1> QED
    BY <1>1 DEF Finish, Serial, TypeOK

\* A new answer is true when it is given.
SaysSo == \A o \in Ops : \A x \in answers'[o] \ answers[o] : Says(o, x)'

\* A delivery repeated: its effect is there.
LEMMA FoundAgain ==
  ASSUME Serial, NEW s \in Sessions,
         ExamineClaim(s) \/ ExamineBet(s) \/ FindOwner(s) \/ ExamineSettlement(s)
  PROVE  SaysSo
  <1> SUFFICES ASSUME NEW o \in Ops, NEW x \in answers'[o] \ answers[o] PROVE Says(o, x)'
    BY DEF SaysSo
  <1>1. session[s].pc # "idle" /\ Kind(s) = request[session[s].op].kind
    BY DEF ExamineClaim, ExamineBet, FindOwner, ExamineSettlement, Kind
  <1>2. UNCHANGED <<claims, bet, settlements, adjusted, operation, request>>
    BY DEF ExamineClaim, ExamineBet, FindOwner, ExamineSettlement, tables, inputs
  <1>3. Finish(s, "done")
    BY DEF ExamineClaim, ExamineBet, FindOwner, ExamineSettlement
  <1>4. o = session[s].op /\ x = "done"
    BY <1>1, <1>3, OneAnswer
  <1>5. answers' # answers
    OBVIOUS
  <1>6. \/ Kind(s) = "claim" /\ Claimed(o)
        \/ Kind(s) = "place" /\ Placed(o)
        \/ Kind(s) = "settle" /\ Resolved(o)
    BY <1>4, <1>5 DEF ExamineClaim, ExamineBet, FindOwner, ExamineSettlement, Claimed, Placed,
      Resolved, BetsOf
  <1>7. Effective(o)
    BY <1>1, <1>4, <1>6, EffectIs
  <1>8. Effective(o)'
    BY <1>2, <1>7 DEF Effective
  <1> QED
    BY <1>4, <1>8 DEF Says

\* An operation id that is already committed.
LEMMA Repeated == ASSUME Serial, NEW s \in Sessions, TakeOperation(s) PROVE SaysSo
  <1> SUFFICES ASSUME NEW o \in Ops, NEW x \in answers'[o] \ answers[o] PROVE Says(o, x)'
    BY DEF SaysSo
  <1>1. session[s].pc = "key" /\ UNCHANGED <<claims, bet, settlements, adjusted, operation, request>>
    BY DEF TakeOperation, tables, inputs
  <1>2. Finish(s, RepeatedAnswer(s)) /\ operation[session[s].op] # "unused"
    BY DEF TakeOperation
  <1>3. o = session[s].op /\ x = RepeatedAnswer(s)
    BY <1>1, <1>2, OneAnswer
  <1>4. \/ x \in {"error", "duplicate"}
        \/ /\ x = "done"
           /\ \/ Kind(s) = "claim" /\ Claimed(o)
              \/ Kind(s) = "place" /\ Placed(o)
              \/ Kind(s) = "settle" /\ Resolved(o)
    BY <1>3 DEF RepeatedAnswer, Claimed, Placed, Resolved, BetsOf
  <1>5. x = "done" => Effective(o)
    BY <1>3, <1>4, EffectIs DEF Kind
  <1>6. Effective(o)' <=> Effective(o)
    BY <1>1 DEF Effective
  <1> QED
    BY <1>1, <1>2, <1>3, <1>4, <1>5, <1>6 DEF Says

\* A refusal is recorded in the operation's row and leaves nothing else.
LEMMA Refused == ASSUME Serial, NEW s \in Sessions, CommitDenied(s) PROVE SaysSo
  <1> SUFFICES ASSUME NEW o \in Ops, NEW x \in answers'[o] \ answers[o] PROVE Says(o, x)'
    BY DEF SaysSo
  <1>1. /\ session[s].pc = "ready" /\ Finish(s, "denied")
        /\ operation' = [operation EXCEPT ![session[s].op] =
                           IF Kind(s) = "adjust" THEN "accepted" ELSE "denied"]
        /\ UNCHANGED <<claims, bet, settlements, adjusted, request>>
    BY DEF CommitDenied, inputs
  <1>2. o = session[s].op /\ x = "denied" /\ Kind(s) = request[o].kind
    BY <1>1, OneAnswer DEF Kind
  <1>3. operation[o] = "unused"
    BY <1>1, <1>2, Acting DEF Holds, OnOperation
  <1>4. ~Claimed(o) /\ ~Placed(o) /\ ~Resolved(o) /\ ~Posted(o)
    BY <1>3, UndecidedHasNothing DEF Claimed, Placed, Resolved, Posted
  <1>5. operation'[o] = IF request[o].kind = "adjust" THEN "accepted" ELSE "denied"
    BY <1>1, <1>2 DEF Serial, TypeOK
  <1>6. ~Effective(o)'
    BY <1>1, <1>4, <1>5 DEF Effective, Claimed, Placed, Resolved, Posted
  <1> QED
    BY <1>2, <1>5, <1>6 DEF Says

\* A commit has its effect, whether or not its answer arrives.
LEMMA Committed == ASSUME Serial, NEW s \in Sessions, CommitDone(s) PROVE SaysSo
  <1> SUFFICES ASSUME NEW o \in Ops, NEW x \in answers'[o] \ answers[o] PROVE Says(o, x)'
    BY DEF SaysSo
  <1>1. session[s].pc = "ready" /\ \E answer \in {"done", "error"} : Finish(s, answer)
    BY DEF CommitDone
  <1>2. o = session[s].op /\ x \in {"done", "error"} /\ Kind(s) = request[o].kind
    BY <1>1, OneAnswer DEF Kind
  <1>3. \E kind : Commits(s, kind)
    BY CommitKinds DEF ClaimCommits, BetCommits, SettlementCommits, AdjustmentCommits,
      EnrollmentCommits, DepartureCommits
  <1>4. request' = request /\ operation'[o] = "accepted"
    BY <1>2, <1>3, Committing
  <1>5. ASSUME BetCommits(s) PROVE bet'[o] # NoBet
    <2>1. session[s].entry \in Bets /\ bet' = [bet EXCEPT ![o] = session[s].entry]
      BY <1>2, <1>5, Placing DEF BetCommits
    <2> QED
      BY <2>1, NoBetAssumption DEF Serial, TypeOK
  <1>6. \/ request[o].kind = "claim" /\ \E c \in claims' : c.op = o
        \/ request[o].kind = "place" /\ bet'[o] # NoBet
        \/ request[o].kind = "settle" /\ \E y \in settlements' : y.op = o
        \/ request[o].kind = "adjust" /\ o \in adjusted'
        \/ request[o].kind \in {"enroll", "depart"}
    <2>1. CASE ClaimCommits(s)
      <3> DEFINE new == [account |-> session[s].account, day |-> KstDate(session[s].at), op |-> o]
      <3>1. Kind(s) = "claim" /\ claims' = claims \cup {new}
        BY <1>2, <2>1 DEF ClaimCommits, Commits
      <3>2. new.op = o
        OBVIOUS
      <3> HIDE DEF new
      <3> QED
        BY <1>2, <3>1, <3>2
    <2>2. CASE BetCommits(s)
      BY <1>2, <1>5, <2>2 DEF BetCommits, Commits
    <2>3. CASE SettlementCommits(s)
      <3> DEFINE new == [op |-> o, bet |-> Req(s).bet, revision |-> session[s].revision]
      <3>1. Kind(s) = "settle" /\ settlements' = settlements \cup {new}
        BY <1>2, <2>3 DEF SettlementCommits, Commits
      <3>2. new.op = o
        OBVIOUS
      <3> HIDE DEF new
      <3> QED
        BY <1>2, <3>1, <3>2
    <2>4. CASE AdjustmentCommits(s)
      BY <1>2, <2>4 DEF AdjustmentCommits, Commits
    <2>5. CASE EnrollmentCommits(s) \/ DepartureCommits(s)
      BY <1>2, <2>5 DEF EnrollmentCommits, DepartureCommits, Commits
    <2> QED
      BY <2>1, <2>2, <2>3, <2>4, <2>5, CommitKinds
  <1>7. Effective(o)'
    BY <1>4, <1>6 DEF Effective
  <1> QED
    BY <1>2, <1>7 DEF Says

\* The other steps say that nothing is to be done, that they failed, or nothing at all.
LEMMA NothingSaid ==
  ASSUME Serial, NEW s \in Sessions,
         FindEnrollment(s) \/ LockEnrollment(s) \/ Abort(s) \/ FailBet(s)
  PROVE  SaysSo
  <1> SUFFICES ASSUME NEW o \in Ops, NEW x \in answers'[o] \ answers[o] PROVE Says(o, x)'
    BY DEF SaysSo
  <1>1. session[s].pc # "idle"
    BY DEF FindEnrollment, LockEnrollment, Abort, FailBet, Serial, Good, RunsAs
  <1>2. Finish(s, "nothing") \/ Finish(s, "error")
    BY DEF FindEnrollment, LockEnrollment, Abort, FailBet
  <1>3. x \in {"nothing", "error"}
    BY <1>1, <1>2, OneAnswer
  <1> QED
    BY <1>3 DEF Says

\* Every new answer is true.
LEMMA StepAnswers == ASSUME Serial, [Next]_vars PROVE SaysSo
  <1>1. ASSUME answers' = answers PROVE SaysSo
    BY <1>1 DEF SaysSo
  <1>2. ASSUME Tick \/ UNCHANGED vars \/ \E g \in Games, c \in Feed : GameRevised(g, c)
        PROVE  answers' = answers
    BY <1>2 DEF Tick, vars, GameRevised
  <1>3. ASSUME NEW s \in Sessions,
               \/ \E p \in DOMAIN request : Deliver(s, p)
               \/ FindAccount(s) \/ LockAccount(s) \/ LockGame(s) \/ PlanBet(s)
               \/ PlanSettlement(s) \/ AdjustBegins(s) \/ FindAdjusted(s) \/ PlanAdjustment(s)
               \/ LockUser(s) \/ PlanEnrollment(s)
        PROVE  answers' = answers
    BY <1>3 DEF Deliver, FindAccount, LockAccount, LockGame, PlanBet, PlanSettlement, AdjustBegins,
      FindAdjusted, PlanAdjustment, LockUser, PlanEnrollment
  <1> QED
    BY <1>1, <1>2, <1>3, FoundAgain, Repeated, Refused, Committed, NothingSaid DEF Next, Statement

\* The answers to a request, however often it is delivered and whatever becomes of its
\* transactions, agree with the tables and with one another.
THEOREM TransactionsAnswerTruly == Spec => []AnswersAgree
  <1>1. Init => AnswersAgree
    BY DEF Init, AnswersAgree
  <1>2. ASSUME Serial, AnswersAgree, [Next]_vars PROVE AnswersAgree'
    <2>1. ASSUME NEW o \in Ops, NEW x \in answers'[o] PROVE Says(o, x)'
      <3>1. CASE x \in answers[o]
        BY <1>2, <3>1, AnswersSay, SaidStays
      <3>2. CASE x \notin answers[o]
        BY <1>2, <2>1, <3>2, StepAnswers DEF SaysSo
      <3> QED
        BY <3>1, <3>2
    <2>2. (\A o \in Ops : \A x \in answers[o] : Says(o, x))'
      BY <2>1
    <2> QED
      BY <2>2 DEF AnswersAgree, Says
  <1> QED
    BY <1>1, <1>2, InitSerial, StepSerial, PTL DEF Spec

-----------------------------------------------------------------------------
\* Nobody waits in a ring.

\* Where a session is when it has a lock of each kind.
LocksOf(t) ==
  LET m == session[t]
  IN  /\ \A a \in Accounts : lock[<<"account", a>>] = t =>
           \/ Kind(t) \in {"claim", "place", "settle"}
              /\ m.pc \in {"locked", "to_game", "game_locked", "key", "ready"}
           \/ Kind(t) = "adjust" /\ m.pc \in {"locked", "ready"}
      /\ \A g \in Games : lock[<<"game", g>>] = t =>
           Kind(t) \in {"place", "settle"} /\ m.pc \in {"game_locked", "key", "ready"}
      /\ \A o \in Ops : lock[<<"op", o>>] = t =>
           /\ m.op = o
           /\ m.pc = "ready" \/ (Kind(t) = "adjust" /\ m.pc \in {"operation", "found", "locked"})
      /\ \A u \in Users : lock[<<"user", u>>] = t =>
           Kind(t) = "enroll" /\ m.pc \in {"user_locked", "key", "ready"}
      /\ \A a \in Accounts : lock[<<"enrollment", a>>] = t =>
           Kind(t) = "depart" /\ m.pc \in {"key", "ready"}
      /\ m.pc = "idle" => \A r \in Resources : lock[r] # t

Locks == \A t \in Sessions : LocksOf(t)

\* The statement a session is at waits for a lock that somebody has.
Waiting(s) ==
  LET m == session[s]
  IN  \/ m.pc = "begun" /\ Kind(s) = "enroll" /\ ~Free(<<"user", Req(s).user>>)
      \/ m.pc = "found" /\ ~Free(<<"account", m.account>>)
      \/ m.pc = "to_game" /\ ~Free(<<"game", m.game>>)
      \/ m.pc = "leaving" /\ ~Free(<<"enrollment", m.account>>)
      \/ m.pc = "key" /\ ~Free(<<"op", m.op>>)

\* Of the transactions that have begun one does not wait, and nobody else has a lock.
NoRing ==
  LET open == {s \in Sessions : session[s] # Idle}
  IN  /\ open # {} => \E s \in open : ~Waiting(s)
      /\ \A r \in Resources : lock[r] \in open \cup {Nobody}

\* Other sessions keep the locks they have.
LEMMA OthersLocks ==
  ASSUME NEW t, LocksOf(t), session'[t] = session[t], request' = request,
         \A r \in Resources : lock'[r] = t => lock[r] = t
  PROVE  LocksOf(t)'
  <1>1. /\ \A a \in Accounts : /\ <<"account", a>> \in Resources
                               /\ <<"enrollment", a>> \in Resources
        /\ \A g \in Games : <<"game", g>> \in Resources
        /\ \A o \in Ops : <<"op", o>> \in Resources
        /\ \A u \in Users : <<"user", u>> \in Resources
    BY DEF Resources
  <1> QED
    BY <1>1 DEF LocksOf, Kind

\* A session goes on with the locks it has and perhaps one more.
LEMMA GoesOn ==
  ASSUME Serial, Locks, NEW s \in Sessions, NEW next, Continue(s, next), request' = request,
         \A r \in Resources : lock'[r] # s => lock'[r] = lock[r],
         LocksOf(s)'
  PROVE  Locks'
  <1>1. ASSUME NEW t \in Sessions, t # s PROVE LocksOf(t)'
    <2>1. session'[t] = session[t]
      BY <1>1 DEF Continue, Serial, TypeOK
    <2>2. \A r \in Resources : lock'[r] = t => lock[r] = t
      BY <1>1
    <2> QED
      BY <2>1, <2>2, OthersLocks DEF Locks
  <1> QED
    BY <1>1 DEF Locks

\* The end of a transaction frees its locks.
LEMMA EndsFree ==
  ASSUME Serial, Locks, NEW s \in Sessions, NEW answer, Finish(s, answer), request' = request
  PROVE  Locks'
  <1>1. \A r \in Resources : lock'[r] # s /\ (lock'[r] = lock[r] \/ lock'[r] = Nobody)
    BY TransactionConstants DEF Finish
  <1>2. ASSUME NEW t \in Sessions, t # s PROVE LocksOf(t)'
    <2>1. session'[t] = session[t]
      BY <1>2 DEF Finish, Serial, TypeOK
    <2>2. \A r \in Resources : lock'[r] = t => lock[r] = t
      BY <1>1, TransactionConstants
    <2> QED
      BY <2>1, <2>2, OthersLocks DEF Locks
  <1>3. LocksOf(s)'
    <2>1. \A r \in Resources : lock'[r] # s
      BY <1>1
    <2>2. /\ \A a \in Accounts : lock'[<<"account", a>>] # s /\ lock'[<<"enrollment", a>>] # s
          /\ \A g \in Games : lock'[<<"game", g>>] # s
          /\ \A o \in Ops : lock'[<<"op", o>>] # s
          /\ \A u \in Users : lock'[<<"user", u>>] # s
      BY <2>1 DEF Resources
    <2> QED
      BY <2>1, <2>2 DEF LocksOf
  <1> QED
    BY <1>2, <1>3 DEF Locks

\* A statement that takes no lock.
LEMMA TakesNone ==
  ASSUME Serial, Locks, NEW s \in Sessions, NEW next, Continue(s, next), request' = request,
         lock' = lock, next.op = session[s].op, next.pc # "idle",
         \/ session[s].pc = "begun"
         \/ /\ Kind(s) \in {"claim", "place", "settle"}
            /\ session[s].pc = "locked" /\ next.pc \in {"to_game", "key"}
         \/ Kind(s) \in {"place", "settle"} /\ session[s].pc = "game_locked" /\ next.pc = "key"
         \/ /\ Kind(s) = "adjust"
            /\ \/ session[s].pc = "operation" /\ next.pc \in {"found", "ready"}
               \/ session[s].pc = "locked" /\ next.pc = "ready"
         \/ Kind(s) = "enroll" /\ session[s].pc = "user_locked" /\ next.pc = "key"
  PROVE  Locks'
  <1>1. session'[s] = next
    BY DEF Continue, Serial, TypeOK
  <1>2. Kind(s)' = Kind(s)
    BY <1>1 DEF Kind
  <1>3. LocksOf(s)
    BY DEF Locks
  <1>4. LocksOf(s)'
    BY <1>1, <1>2, <1>3 DEF LocksOf
  <1> QED
    BY <1>4, GoesOn

\* A statement that takes a lock.
LEMMA TakesOne ==
  ASSUME Serial, Locks, NEW s \in Sessions, NEW next, Continue(s, next), request' = request,
         next.op = session[s].op, NEW kind, NEW x, Acquire(s, <<kind, x>>),
         \/ /\ kind = "account" /\ session[s].pc = "found" /\ next.pc = "locked"
            /\ Kind(s) \in {"claim", "place", "settle", "adjust"}
         \/ /\ kind = "game" /\ session[s].pc = "to_game" /\ next.pc = "game_locked"
            /\ Kind(s) \in {"place", "settle"}
         \/ /\ kind = "user" /\ session[s].pc = "begun" /\ next.pc = "user_locked"
            /\ Kind(s) = "enroll"
         \/ /\ kind = "enrollment" /\ session[s].pc = "leaving" /\ next.pc = "key"
            /\ Kind(s) = "depart"
         \/ /\ kind = "op" /\ x = session[s].op /\ session[s].pc = "key"
            /\ next.pc = IF Kind(s) = "adjust" THEN "operation" ELSE "ready"
  PROVE  Locks'
  <1>1. session'[s] = next
    BY DEF Continue, Serial, TypeOK
  <1>2. Kind(s)' = Kind(s)
    BY <1>1 DEF Kind
  <1>3. LocksOf(s)
    BY DEF Locks
  <1>4. \A r \in Resources : lock'[r] = IF r = <<kind, x>> THEN s ELSE lock[r]
    BY DEF Acquire, Serial, TypeOK
  <1>5. /\ \A a \in Accounts : lock'[<<"account", a>>] = s =>
             lock[<<"account", a>>] = s \/ (kind = "account" /\ x = a)
        /\ \A g \in Games : lock'[<<"game", g>>] = s =>
             lock[<<"game", g>>] = s \/ (kind = "game" /\ x = g)
        /\ \A o \in Ops : lock'[<<"op", o>>] = s =>
             lock[<<"op", o>>] = s \/ (kind = "op" /\ x = o)
        /\ \A u \in Users : lock'[<<"user", u>>] = s =>
             lock[<<"user", u>>] = s \/ (kind = "user" /\ x = u)
        /\ \A a \in Accounts : lock'[<<"enrollment", a>>] = s =>
             lock[<<"enrollment", a>>] = s \/ (kind = "enrollment" /\ x = a)
    <2>1. /\ \A a \in Accounts : /\ <<"account", a>> \in Resources
                                 /\ <<"enrollment", a>> \in Resources
          /\ \A g \in Games : <<"game", g>> \in Resources
          /\ \A o \in Ops : <<"op", o>> \in Resources
          /\ \A u \in Users : <<"user", u>> \in Resources
      BY DEF Resources
    <2> QED
      BY <1>4, <2>1
  <1>6. next.pc # "idle"
    OBVIOUS
  <1>7. LocksOf(s)'
    BY <1>1, <1>2, <1>3, <1>5, <1>6 DEF LocksOf
  <1>8. \A r \in Resources : lock'[r] # s => lock'[r] = lock[r]
    BY <1>4
  <1> QED
    BY <1>7, <1>8, GoesOn

\* Statements that take no lock, or end the transaction.
LEMMA QuietLocks ==
  ASSUME Serial, Locks, NEW s \in Sessions,
         \/ FindAccount(s) \/ ExamineClaim(s) \/ ExamineBet(s) \/ PlanBet(s)
         \/ FindOwner(s) \/ ExamineSettlement(s) \/ PlanSettlement(s)
         \/ AdjustBegins(s) \/ FindAdjusted(s) \/ PlanAdjustment(s)
         \/ PlanEnrollment(s) \/ FindEnrollment(s)
  PROVE  Locks'
  <1> DEFINE To(p) == \E next : /\ Continue(s, next) /\ next.op = session[s].op /\ next.pc = p
                                /\ lock' = lock /\ request' = request
             Ends == (\E answer : Finish(s, answer)) /\ request' = request
  <1>1. session[s].pc # "idle"
    BY DEF FindAccount, ExamineClaim, ExamineBet, PlanBet, FindOwner, ExamineSettlement,
      PlanSettlement, AdjustBegins, FindAdjusted, PlanAdjustment, PlanEnrollment, FindEnrollment
  <1>2. session[s] \in Runs /\ RunsAs(s)
    BY <1>1, Acting
  <1>3. CASE Ends
    BY <1>3, EndsFree
  <1>4. CASE FindAccount(s)
    <2>1. session[s].pc = "begun" /\ (To("found") \/ To("key"))
      BY <1>2, <1>4 DEF FindAccount, Deny, Runs, inputs
    <2> QED
      BY <2>1, TakesNone
  <1>5. CASE ExamineClaim(s)
    <2>1. session[s].pc = "locked" /\ Kind(s) = "claim" /\ (To("key") \/ Ends)
      BY <1>2, <1>5 DEF ExamineClaim, Deny, Runs, inputs
    <2> QED
      BY <1>3, <2>1, TakesNone
  <1>6. CASE ExamineBet(s)
    <2>1. session[s].pc = "locked" /\ Kind(s) = "place" /\ (To("to_game") \/ Ends)
      BY <1>2, <1>6 DEF ExamineBet, Runs, inputs
    <2> QED
      BY <1>3, <2>1, TakesNone
  <1>7. CASE PlanBet(s)
    <2>1. session[s].pc = "game_locked" /\ Kind(s) = "place" /\ To("key")
      BY <1>2, <1>7 DEF PlanBet, Deny, Runs, inputs
    <2> QED
      BY <2>1, TakesNone
  <1>8. CASE FindOwner(s)
    <2>1. session[s].pc = "begun" /\ (To("found") \/ To("key") \/ Ends)
      BY <1>2, <1>8 DEF FindOwner, Deny, Runs, inputs
    <2> QED
      BY <1>3, <2>1, TakesNone
  <1>9. CASE ExamineSettlement(s)
    <2>1. session[s].pc = "locked" /\ Kind(s) = "settle" /\ (To("to_game") \/ Ends)
      BY <1>2, <1>9 DEF ExamineSettlement, Runs, inputs
    <2> QED
      BY <1>3, <2>1, TakesNone
  <1>10. CASE PlanSettlement(s)
    <2>1. session[s].pc = "game_locked" /\ Kind(s) = "settle" /\ To("key")
      BY <1>2, <1>10 DEF PlanSettlement, Deny, Runs, inputs
    <2> QED
      BY <2>1, TakesNone
  <1>11. CASE AdjustBegins(s)
    <2>1. session[s].pc = "begun" /\ To("key")
      BY <1>2, <1>11 DEF AdjustBegins, Runs, inputs
    <2> QED
      BY <2>1, TakesNone
  <1>12. CASE FindAdjusted(s)
    <2>1. session[s].pc = "operation" /\ Kind(s) = "adjust" /\ (To("found") \/ To("ready"))
      BY <1>2, <1>12 DEF FindAdjusted, Runs, RunsAs, inputs
    <2> QED
      BY <2>1, TakesNone
  <1>13. CASE PlanAdjustment(s)
    <2>1. session[s].pc = "locked" /\ Kind(s) = "adjust" /\ To("ready")
      BY <1>2, <1>13 DEF PlanAdjustment, Runs, inputs
    <2> QED
      BY <2>1, TakesNone
  <1>14. CASE PlanEnrollment(s)
    <2>1. session[s].pc = "user_locked" /\ Kind(s) = "enroll" /\ To("key")
      BY <1>2, <1>14 DEF PlanEnrollment, Deny, Runs, RunsAs, inputs
    <2> QED
      BY <2>1, TakesNone
  <1>15. CASE FindEnrollment(s)
    <2>1. session[s].pc = "begun" /\ (To("leaving") \/ Ends)
      BY <1>2, <1>15 DEF FindEnrollment, Runs, inputs
    <2> QED
      BY <1>3, <2>1, TakesNone
  <1> QED
    BY <1>4, <1>5, <1>6, <1>7, <1>8, <1>9, <1>10, <1>11, <1>12, <1>13, <1>14, <1>15

\* Statements that take a lock, or end the transaction.
LEMMA TakingLocks ==
  ASSUME Serial, Locks, NEW s \in Sessions,
         LockAccount(s) \/ LockGame(s) \/ LockUser(s) \/ LockEnrollment(s) \/ TakeOperation(s)
  PROVE  Locks'
  <1> DEFINE To(kind, x, p) ==
               \E next : /\ Continue(s, next) /\ next.op = session[s].op /\ next.pc = p
                         /\ Acquire(s, <<kind, x>>) /\ request' = request
             Ends == (\E answer : Finish(s, answer)) /\ request' = request
  <1>1. session[s].pc # "idle"
    BY DEF LockAccount, LockGame, LockUser, LockEnrollment, TakeOperation
  <1>2. session[s] \in Runs /\ RunsAs(s)
    BY <1>1, Acting
  <1>3. CASE Ends
    BY <1>3, EndsFree
  <1>4. CASE LockAccount(s)
    <2>1. /\ session[s].pc = "found" /\ Kind(s) \in {"claim", "place", "settle", "adjust"}
          /\ To("account", session[s].account, "locked")
      BY <1>2, <1>4 DEF LockAccount, Runs, RunsAs, inputs
    <2> QED
      BY <2>1, TakesOne
  <1>5. CASE LockGame(s)
    <2>1. /\ session[s].pc = "to_game" /\ Kind(s) \in {"place", "settle"}
          /\ To("game", session[s].game, "game_locked")
      BY <1>2, <1>5 DEF LockGame, Runs, RunsAs, inputs
    <2> QED
      BY <2>1, TakesOne
  <1>6. CASE LockUser(s)
    <2>1. /\ session[s].pc = "begun" /\ Kind(s) = "enroll"
          /\ To("user", Req(s).user, "user_locked")
      BY <1>2, <1>6 DEF LockUser, Runs, inputs
    <2> QED
      BY <2>1, TakesOne
  <1>7. CASE LockEnrollment(s)
    <2>1. /\ session[s].pc = "leaving" /\ Kind(s) = "depart"
          /\ To("enrollment", session[s].account, "key") \/ Ends
      BY <1>2, <1>7 DEF LockEnrollment, Runs, RunsAs, inputs
    <2> QED
      BY <1>3, <2>1, TakesOne
  <1>8. CASE TakeOperation(s)
    <2>1. /\ session[s].pc = "key"
          /\ \/ To("op", session[s].op, IF Kind(s) = "adjust" THEN "operation" ELSE "ready")
             \/ Ends
      BY <1>2, <1>8 DEF TakeOperation, Runs, inputs
    <2> QED
      BY <1>3, <2>1, TakesOne
  <1> QED
    BY <1>4, <1>5, <1>6, <1>7, <1>8

\* A request that is delivered starts without locks.
LEMMA DeliveredLocks == ASSUME Serial, Locks, NEW s \in Sessions, \E o \in DOMAIN request : Deliver(s, o) PROVE Locks'
  <1>1. /\ session[s] = Idle /\ lock' = lock /\ request' = request
        /\ \A t \in Sessions : t # s => session'[t] = session[t]
        /\ session'[s].pc = "begun"
    BY DEF Deliver, Serial, TypeOK, Idle
  <1>2. \A r \in Resources : lock[r] # s
    BY <1>1 DEF Locks, LocksOf, Idle
  <1>3. LocksOf(s)'
    <2>1. /\ \A a \in Accounts : lock'[<<"account", a>>] # s /\ lock'[<<"enrollment", a>>] # s
          /\ \A g \in Games : lock'[<<"game", g>>] # s
          /\ \A o \in Ops : lock'[<<"op", o>>] # s
          /\ \A u \in Users : lock'[<<"user", u>>] # s
      BY <1>1, <1>2 DEF Resources
    <2> QED
      BY <1>1, <2>1 DEF LocksOf
  <1>4. ASSUME NEW t \in Sessions, t # s PROVE LocksOf(t)'
    BY <1>1, <1>4, OthersLocks DEF Locks
  <1> QED
    BY <1>3, <1>4 DEF Locks

\* Every step keeps it.
LEMMA StepLocks == ASSUME Serial, Locks, [Next]_vars PROVE Locks'
  <1>1. ASSUME Tick \/ UNCHANGED vars \/ \E g \in Games, c \in Feed : GameRevised(g, c)
        PROVE  Locks'
    <2>1. UNCHANGED <<session, lock, request>>
      BY <1>1 DEF Tick, vars, GameRevised, inputs
    <2> QED
      BY <2>1, OthersLocks DEF Locks
  <1>2. ASSUME NEW s \in Sessions, Abort(s) \/ CommitDenied(s) \/ CommitDone(s) \/ FailBet(s)
        PROVE  Locks'
    <2>1. (\E answer : Finish(s, answer)) /\ request' = request
      BY <1>2 DEF Abort, CommitDenied, CommitDone, FailBet, inputs
    <2> QED
      BY <2>1, EndsFree
  <1> QED
    BY <1>1, <1>2, QuietLocks, TakingLocks, DeliveredLocks DEF Next, Statement

\* Whoever has a lock has begun.
LEMMA HoldersHaveBegun ==
  ASSUME Serial, Locks, NEW r \in Resources, lock[r] # Nobody
  PROVE  lock[r] \in Sessions /\ session[lock[r]] # Idle
  <1>1. lock[r] \in Sessions
    BY DEF Serial, TypeOK
  <1>2. LocksOf(lock[r])
    BY <1>1 DEF Locks
  <1> QED
    BY <1>1, <1>2 DEF LocksOf, Idle

\* Whoever has an operation id waits for nothing but an account, and that only to adjust it.
LEMMA WaitsForOperation ==
  ASSUME Serial, Locks, NEW s \in Sessions, session[s].pc = "key", Waiting(s)
  PROVE  \E t \in Sessions :
           /\ session[t] # Idle /\ Kind(t) = Kind(s)
           /\ Kind(s) # "adjust" => ~Waiting(t)
           /\ Kind(s) = "adjust" => session[t].pc \in {"operation", "found", "locked", "ready"}
  <1> DEFINE o == session[s].op
             t == lock[<<"op", o>>]
  <1>1. o \in Ops /\ t # Nobody
    BY Acting DEF Waiting, Free
  <1>2. <<"op", o>> \in Resources
    BY <1>1 DEF Resources
  <1>3. t \in Sessions /\ session[t] # Idle /\ LocksOf(t)
    BY <1>1, <1>2, HoldersHaveBegun DEF Locks
  <1>4. /\ session[t].op = o
        /\ session[t].pc = "ready" \/ (Kind(t) = "adjust" /\ session[t].pc \in {"operation", "found", "locked"})
    BY <1>1, <1>3 DEF LocksOf
  <1>5. Kind(t) = Kind(s)
    BY <1>4 DEF Kind
  <1> HIDE DEF t
  <1>6. Kind(s) # "adjust" => ~Waiting(t)
    BY <1>4, <1>5 DEF Waiting
  <1> QED
    BY <1>3, <1>4, <1>5, <1>6

\* Account rows are taken before game rows, those before operation ids, and whoever has
\* an operation id already, or an enrollment, waits for nobody who waits for it.
LEMMA SomebodyGoesOn == ASSUME Serial, Locks PROVE NoRing
  <1> DEFINE open == {s \in Sessions : session[s] # Idle}
             Free1 == \E s \in open : ~Waiting(s)
  <1>1. \A r \in Resources : lock[r] \in open \cup {Nobody}
    BY HoldersHaveBegun
  <1>2. ASSUME NEW s \in open, session[s].pc = "key", Kind(s) # "adjust" PROVE Free1
    <2>1. CASE Waiting(s)
      BY <1>2, <2>1, WaitsForOperation
    <2> QED
      BY <2>1
  <1>3. ASSUME NEW s \in open, session[s].pc = "game_locked" \/ session[s].pc = "ready" PROVE Free1
    BY <1>3 DEF Waiting
  <1>4. ASSUME NEW s \in open, session[s].pc = "to_game" PROVE Free1
    <2>1. CASE Waiting(s)
      <3> DEFINE g == session[s].game
                 t == lock[<<"game", g>>]
      <3>1. g \in Games /\ t # Nobody
        <4>1. Found(s)
          BY DEF Serial, Good
        <4> QED
          BY <1>4, <2>1, <4>1 DEF Found, Waiting, Free
      <3>2. <<"game", g>> \in Resources
        BY <3>1 DEF Resources
      <3>3. t \in open /\ LocksOf(t)
        BY <3>1, <3>2, HoldersHaveBegun DEF Locks
      <3>4. Kind(t) \in {"place", "settle"} /\ session[t].pc \in {"game_locked", "key", "ready"}
        BY <3>1, <3>3 DEF LocksOf
      <3> HIDE DEF t
      <3> QED
        BY <1>2, <1>3, <3>3, <3>4
    <2> QED
      BY <2>1
  <1>5. ASSUME NEW s \in open, session[s].pc = "found" PROVE Free1
    <2>1. CASE Waiting(s)
      <3> DEFINE a == session[s].account
                 t == lock[<<"account", a>>]
      <3>1. a \in Accounts /\ t # Nobody
        <4>1. Found(s)
          BY DEF Serial, Good
        <4> QED
          BY <1>5, <2>1, <4>1 DEF Found, Waiting, Free
      <3>2. <<"account", a>> \in Resources
        BY <3>1 DEF Resources
      <3>3. t \in open /\ LocksOf(t)
        BY <3>1, <3>2, HoldersHaveBegun DEF Locks
      <3>4. \/ Kind(t) \in {"claim", "place", "settle"}
               /\ session[t].pc \in {"locked", "to_game", "game_locked", "key", "ready"}
            \/ Kind(t) = "adjust" /\ session[t].pc \in {"locked", "ready"}
        BY <3>1, <3>3 DEF LocksOf
      <3> HIDE DEF t
      <3>5. CASE session[t].pc = "locked"
        BY <3>3, <3>5 DEF Waiting
      <3> QED
        BY <1>2, <1>3, <1>4, <3>3, <3>4, <3>5
    <2> QED
      BY <2>1
  <1>6. ASSUME NEW s \in open, session[s].pc = "key", Kind(s) = "adjust" PROVE Free1
    <2>1. CASE Waiting(s)
      <3>1. PICK t \in open : session[t].pc \in {"operation", "found", "locked", "ready"}
        BY <1>6, <2>1, WaitsForOperation
      <3>2. session[t].pc # "found" => ~Waiting(t)
        BY <3>1 DEF Waiting
      <3> QED
        BY <1>5, <3>1, <3>2
    <2> QED
      BY <2>1
  <1>7. ASSUME NEW s \in open, session[s].pc = "leaving" PROVE Free1
    <2>1. CASE Waiting(s)
      <3> DEFINE a == session[s].account
                 t == lock[<<"enrollment", a>>]
      <3>1. a \in Accounts /\ t # Nobody
        <4>1. Found(s)
          BY DEF Serial, Good
        <4> QED
          BY <1>7, <2>1, <4>1 DEF Found, Waiting, Free
      <3>2. <<"enrollment", a>> \in Resources
        BY <3>1 DEF Resources
      <3>3. t \in open /\ LocksOf(t)
        BY <3>1, <3>2, HoldersHaveBegun DEF Locks
      <3>4. Kind(t) = "depart" /\ session[t].pc \in {"key", "ready"}
        BY <3>1, <3>3 DEF LocksOf
      <3> HIDE DEF t
      <3> QED
        BY <1>2, <1>3, <3>3, <3>4
    <2> QED
      BY <2>1
  <1>8. ASSUME NEW s \in open, session[s].pc = "begun" PROVE Free1
    <2>1. CASE Waiting(s)
      <3> DEFINE u == Req(s).user
                 t == lock[<<"user", u>>]
      <3>1. u \in Users /\ t # Nobody
        <4>1. WellFormed(Req(s)) /\ Kind(s) = Req(s).kind
          BY <1>8, Acting
        <4> QED
          BY <1>8, <2>1, <4>1 DEF WellFormed, Waiting, Free
      <3>2. <<"user", u>> \in Resources
        BY <3>1 DEF Resources
      <3>3. t \in open /\ LocksOf(t)
        BY <3>1, <3>2, HoldersHaveBegun DEF Locks
      <3>4. Kind(t) = "enroll" /\ session[t].pc \in {"user_locked", "key", "ready"}
        BY <3>1, <3>3 DEF LocksOf
      <3> HIDE DEF t
      <3>5. CASE session[t].pc = "user_locked"
        BY <3>3, <3>5 DEF Waiting
      <3> QED
        BY <1>2, <1>3, <3>3, <3>4, <3>5
    <2> QED
      BY <2>1
  <1>9. ASSUME NEW s \in open PROVE Free1
    <2>1. CASE Waiting(s)
      <3>1. session[s].pc \in {"begun", "found", "to_game", "leaving", "key"}
        BY <2>1 DEF Waiting
      <3> QED
        BY <1>2, <1>4, <1>5, <1>6, <1>7, <1>8, <3>1
    <2> QED
      BY <2>1
  <1> QED
    BY <1>1, <1>9 DEF NoRing

\* At the start there is no lock.
LEMMA InitLocks == Init => Locks
  BY TransactionConstants DEF Init, Locks, LocksOf, Idle, Resources

\* The transactions never all wait for one another, whatever requests meet: the stores'
\* orders of account rows, game rows and operation ids leave no ring, and none ends with a
\* lock.
THEOREM TransactionsNeverDeadlock == Spec => []NoRing
  <1>1. Init => Serial /\ Locks
    BY InitSerial, InitLocks
  <1>2. Serial /\ Locks /\ [Next]_vars => (Serial /\ Locks)'
    BY StepSerial, StepLocks
  <1>3. Serial /\ Locks => NoRing
    BY SomebodyGoesOn
  <1> QED
    BY <1>1, <1>2, <1>3, PTL DEF Spec
=============================================================================
