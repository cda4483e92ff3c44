------------------------------ MODULE KboLedger ------------------------------
(***************************************************************************)
(* The KBO credit game on its committed state: one action per PostgreSQL   *)
(* transaction of the credit, bet, settlement, adjustment, departure and   *)
(* retention stores.  A variable is a table; a function on ids is its      *)
(* rows.  A request that raises or that repeats an operation id commits    *)
(* nothing new and is a stutter; a refused request still consumes its      *)
(* operation id.  KboTransactions interleaves the transactions' steps.     *)
(***************************************************************************)
EXTENDS KboRules, SequencesExt

CONSTANTS
  Users,            \* Discord users
  Administrators,   \* the users who may adjust accounts
  Accounts,         \* opaque account ids, never reused
  Games,            \* game ids
  Ops,              \* operation ids (Discord interaction ids, IPC operation ids)
  NoUser, NoBet,    \* absent values
  BetPredictions,   \* the predictions users make
  Adjustments,      \* the amounts administrators post
  Feed,             \* [status, score] contents the data provider publishes
  Starts,           \* scheduled start instants it publishes
  Disputed,         \* accounts on which an operator may place a retention hold
  RetentionPeriod,  \* ticks a departed account is kept (one year)
  MaxTime,          \* bound: the last instant
  MaxRevision       \* bound: revisions of one game

ASSUME LedgerConstants ==
  /\ Administrators \subseteq Users
  /\ NoUser \notin Users
  /\ BetPredictions \subseteq Predictions
  /\ Adjustments \subseteq Int \ {0}
  /\ Feed \subseteq [status : GameStatuses, score : Scores \cup {NoScore}]
  /\ Starts \subseteq Nat
  /\ Disputed \subseteq Accounts
  /\ RetentionPeriod \in Nat \ {0}
  /\ MaxTime \in Nat
  /\ MaxRevision \in Nat

Reasons == {"daily_claim", "bet_stake", "bet_payout", "bet_void_refund",
            "settlement_correction", "admin_adjustment"}
Balances == [available : Nat, debt : Nat]
Credits == [available : Nat, debt : Nat, version : Nat]
Entries == [reason : Reasons, op : Ops, at : Nat, before : Balances, after : Balances]
Enrollments == [status   : {"none", "active", "departed", "purged"},
                user     : Users \cup {NoUser},
                departed : Nat]
Settlements == [op : Ops, revision : Nat, result : Results, returned : Nat, applied : Int]
Bets == [account : Accounts, game : Games, market : Nat, prediction : Predictions,
         stake : Stakes, day : Int, status : {"pending", "settled", "void"},
         settlements : Seq(Settlements)]

\* NoBet stands for a missing row and is told from every bet, and from what the
\* contract below keeps of one.
ASSUME NoBetAssumption ==
  /\ NoBet \notin Bets
  /\ NoBet \notin [account : Accounts, stake : Stakes, returned : Int]

VARIABLES
  now,          \* the clock
  registered,   \* registered_discord_user
  enrollment,   \* betting_enrollment, by account
  account,      \* credit_account
  ledger,       \* credit_ledger_entry, by account in entry_id order
  claims,       \* daily_credit_claim: the claimed dates, by account
  bet,          \* kbo_bet and its bet_settlement chain, by placing operation
  revisions,    \* kbo_game_revision, by game; the last one is kbo_game
  operation,    \* operation_ledger
  held          \* kbo_retention_hold

vars == <<now, registered, enrollment, account, ledger, claims, bet,
          revisions, operation, held>>

-----------------------------------------------------------------------------
NoEnrollment == [status |-> "none", user |-> NoUser, departed |-> 0]
NoCredit == [available |-> 0, debt |-> 0, version |-> 0]

Fresh(o) == operation[o] = "unused"
AccountExists(a) == enrollment[a].status \in {"active", "departed"}
EnrolledAs(u, a) == enrollment[a].status = "active" /\ enrollment[a].user = u

BetsOf(a) == {b \in Ops : bet[b] # NoBet /\ bet[b].account = a}
CurrentRevision(g) == Len(revisions[g])
CurrentGame(g) == revisions[g][Len(revisions[g])]
LastReturn(s) == IF s = <<>> THEN 0 ELSE s[Len(s)].returned
LastRevision(s) == IF s = <<>> THEN 0 ELSE s[Len(s)].revision

\* Mutant: only open bets count towards the daily limit.
DailyNetStake_Pending(a, day) ==
  SumFunction([b \in {x \in BetsOf(a) : bet[x].day = day /\ bet[x].status = "pending"} |->
                 bet[b].stake])

DailyNetStake(a, day) ==
  SumFunction([b \in {x \in BetsOf(a) : bet[x].day = day /\ bet[x].status # "void"} |->
                 bet[b].stake])

\* Mutant: the version stays.
Post_SameVersion(a, o, reason, delta) ==
  LET before == [available |-> account[a].available, debt |-> account[a].debt]
      after  == [available |-> before.available + delta.available,
                 debt |-> before.debt + delta.debt]
  IN  /\ account' = [account EXCEPT ![a].available = after.available, ![a].debt = after.debt]
      /\ ledger' = [ledger EXCEPT ![a] =
                      Append(@, [reason |-> reason, op |-> o, at |-> now,
                                 before |-> before, after |-> after])]

\* Change an account's balance: one ledger entry and one version per change.
Post(a, o, reason, delta) ==
  LET before == [available |-> account[a].available, debt |-> account[a].debt]
      after  == [available |-> before.available + delta.available,
                 debt |-> before.debt + delta.debt]
  IN  /\ account' = [account EXCEPT ![a] = [available |-> after.available,
                                            debt |-> after.debt,
                                            version |-> @.version + 1]]
      /\ ledger' = [ledger EXCEPT ![a] =
                      Append(@, [reason |-> reason, op |-> o, at |-> now,
                                 before |-> before, after |-> after])]

\* Mutant: the operation row is not written.
Consume_Unrecorded(o, outcome) == Fresh(o) /\ UNCHANGED operation

Consume(o, outcome) == Fresh(o) /\ operation' = [operation EXCEPT ![o] = outcome]

\* A transaction that commits a denial: the operation id and an audit row.
Deny(o) ==
  /\ Consume(o, "denied")
  /\ UNCHANGED <<now, registered, enrollment, account, ledger, claims, bet,
                 revisions, held>>

-----------------------------------------------------------------------------
Init ==
  /\ now = 0
  /\ registered = {}
  /\ enrollment = [a \in Accounts |-> NoEnrollment]
  /\ account = [a \in Accounts |-> NoCredit]
  /\ ledger = [a \in Accounts |-> <<>>]
  /\ claims = [a \in Accounts |-> {}]
  /\ bet = [o \in Ops |-> NoBet]
  /\ revisions = [g \in Games |-> <<>>]
  /\ operation = [o \in Ops |-> "unused"]
  /\ held = {}

Tick ==
  /\ now < MaxTime
  /\ now' = now + 1
  /\ UNCHANGED <<registered, enrollment, account, ledger, claims, bet,
                 revisions, operation, held>>

\* The user's row, written when a command of theirs is audited or enrols them.
Register(u) ==
  /\ u \notin registered
  /\ registered' = registered \cup {u}
  /\ UNCHANGED <<now, enrollment, account, ledger, claims, bet, revisions,
                 operation, held>>

NotEnrolled(u) == \A x \in Accounts : ~EnrolledAs(u, x)

Enroll(o, u, a) ==
  /\ u \in registered
  /\ NotEnrolled(u)
  /\ enrollment[a].status = "none"
  /\ Consume(o, "accepted")
  /\ enrollment' = [enrollment EXCEPT ![a] =
                      [status |-> "active", user |-> u, departed |-> 0]]
  /\ account' = [account EXCEPT ![a] = NoCredit]
  /\ UNCHANGED <<now, registered, ledger, claims, bet, revisions, held>>

RefuseEnroll(o, u) ==
  /\ u \notin registered \/ ~NotEnrolled(u)
  /\ Deny(o)

Claim(o, u, a) ==
  /\ EnrolledAs(u, a)
  /\ KstDate(now) \notin claims[a]
  /\ Consume(o, "accepted")
  /\ Post(a, o, "daily_claim", AllocateDailyCredit(account[a].debt))
  /\ claims' = [claims EXCEPT ![a] = @ \cup {KstDate(now)}]
  /\ UNCHANGED <<now, registered, enrollment, bet, revisions, held>>

RefuseClaim(o, u) ==
  /\ \A a \in Accounts : EnrolledAs(u, a) => KstDate(now) \in claims[a]
  /\ Deny(o)

\* What the placement transaction checks once it holds the account and the game.
PlacementAllowed(a, g, stake) ==
  /\ revisions[g] # <<>>
  /\ PlacementAccepted(now, CurrentGame(g), account[a].available, account[a].debt,
                       DailyNetStake(a, KstDate(now)), stake)
  /\ \A b \in BetsOf(a) : bet[b].game = g => bet[b].status # "pending"

\* The second conjunct is the table's unique (account, game, market): a bet on
\* a market that already holds one of the account's bets fails and rolls back.
Place(o, u, a, g, prediction, stake) ==
  /\ EnrolledAs(u, a)
  /\ PlacementAllowed(a, g, stake)
  /\ \A b \in BetsOf(a) : bet[b].game = g => bet[b].market # CurrentGame(g).market
  /\ Consume(o, "accepted")
  /\ Post(a, o, "bet_stake", [available |-> -stake, debt |-> 0])
  /\ bet' = [bet EXCEPT ![o] =
               [account |-> a, game |-> g, market |-> CurrentGame(g).market,
                prediction |-> prediction, stake |-> stake, day |-> KstDate(now),
                status |-> "pending", settlements |-> <<>>]]
  /\ UNCHANGED <<now, registered, enrollment, claims, revisions, held>>

RefusePlace(o, u, g, stake) ==
  /\ \A a \in Accounts : EnrolledAs(u, a) => ~PlacementAllowed(a, g, stake)
  /\ Deny(o)

\* The requested revision has to be the game's current one, newer than the one
\* the bet was last settled on, and terminal.
SettlementAllowed(b, revision) ==
  /\ bet[b] # NoBet
  /\ revision = CurrentRevision(bet[b].game)
  /\ LastRevision(bet[b].settlements) < revision
  /\ Terminal(CurrentGame(bet[b].game))

Settle(o, b, revision) ==
  /\ SettlementAllowed(b, revision)
  /\ Consume(o, "accepted")
  /\ LET row      == bet[b]
         a        == row.account
         result   == ResultOf(row.prediction, CurrentGame(row.game))
         returned == ReturnOf(row.stake, result)
         applied  == returned - LastReturn(row.settlements)
         first    == row.settlements = <<>>
         reason   == IF first
                     THEN IF result = "void" THEN "bet_void_refund" ELSE "bet_payout"
                     ELSE "settlement_correction"
     IN  /\ IF applied = 0
            THEN UNCHANGED <<account, ledger>>
            ELSE Post(a, o, reason,
                      AllocateSettlementDelta(account[a].available, account[a].debt,
                                              applied, first /\ result = "void"))
         /\ bet' = [bet EXCEPT
              ![b].status = IF result = "void" THEN "void" ELSE "settled",
              ![b].settlements = Append(@, [op |-> o, revision |-> revision,
                                            result |-> result, returned |-> returned,
                                            applied |-> applied])]
  /\ UNCHANGED <<now, registered, enrollment, claims, revisions, held>>

\* Also the denial of a caller whose data rights are not authorized, whatever
\* the bet.
RefuseSettle(o, b, revision, authorized) ==
  /\ authorized => ~SettlementAllowed(b, revision)
  /\ Deny(o)

\* An adjustment moves the available balance only; the debt stays.
AdjustmentAllowed(admin, a, expectedVersion, delta) ==
  /\ AccountExists(a)
  /\ enrollment[a].user # admin
  /\ account[a].version = expectedVersion
  /\ account[a].available + delta >= 0

Adjust(o, admin, a, expectedVersion, delta) ==
  /\ AdjustmentAllowed(admin, a, expectedVersion, delta)
  /\ Consume(o, "accepted")
  /\ Post(a, o, "admin_adjustment", [available |-> delta, debt |-> 0])
  /\ UNCHANGED <<now, registered, enrollment, claims, bet, revisions, held>>

\* The operation row is written before the account is read, as accepted.
RefuseAdjust(o, admin, a, expectedVersion, delta) ==
  /\ ~AdjustmentAllowed(admin, a, expectedVersion, delta)
  /\ Consume(o, "accepted")
  /\ UNCHANGED <<now, registered, enrollment, account, ledger, claims, bet,
                 revisions, held>>

\* The member left the guild: the account loses its user and nothing else.
Depart(o, u, a) ==
  /\ EnrolledAs(u, a)
  /\ Consume(o, "accepted")
  /\ enrollment' = [enrollment EXCEPT ![a] =
                      [status |-> "departed", user |-> NoUser, departed |-> now]]
  /\ UNCHANGED <<now, registered, account, ledger, claims, bet, revisions, held>>

\* Mutant: entries after the departure do not prolong the retention.
LastActivity_Departure(a) == enrollment[a].departed

\* The later of the departure and of the account's last ledger entry.
LastActivity(a) ==
  Max({enrollment[a].departed} \cup {ledger[a][i].at : i \in DOMAIN ledger[a]})

\* Mutant: a hold does not keep an account.
Expired_Held(a) ==
  /\ enrollment[a].status = "departed" /\ LastActivity(a) <= now - RetentionPeriod
  /\ \A b \in BetsOf(a) : bet[b].status # "pending"

Expired(a) ==
  /\ enrollment[a].status = "departed"
  /\ a \notin held
  /\ \A b \in BetsOf(a) : bet[b].status # "pending"
  /\ LastActivity(a) <= now - RetentionPeriod

\* The operation ids the rows of an account refer to.
OpsOf(a) ==
  {ledger[a][i].op : i \in DOMAIN ledger[a]} \cup BetsOf(a)
    \cup UNION {{bet[b].settlements[i].op : i \in DOMAIN bet[b].settlements} :
                b \in BetsOf(a)}

\* One run of purge_expired_kbo_accounts: a batch of expired accounts (locked
\* rows are skipped), every row of theirs, and the operations those rows name.
Purge(S) ==
  /\ S # {}
  /\ \A a \in S : Expired(a)
  /\ LET gone == UNION {OpsOf(a) : a \in S}
     IN  operation' = [o \in Ops |-> IF o \in gone THEN "unused" ELSE operation[o]]
  /\ bet' = [o \in Ops |-> IF bet[o] # NoBet /\ bet[o].account \in S
                           THEN NoBet ELSE bet[o]]
  /\ enrollment' = [a \in Accounts |-> IF a \in S
                      THEN [NoEnrollment EXCEPT !.status = "purged"] ELSE enrollment[a]]
  /\ account' = [a \in Accounts |-> IF a \in S THEN NoCredit ELSE account[a]]
  /\ ledger' = [a \in Accounts |-> IF a \in S THEN <<>> ELSE ledger[a]]
  /\ claims' = [a \in Accounts |-> IF a \in S THEN {} ELSE claims[a]]
  /\ UNCHANGED <<now, registered, revisions, held>>

\* The data provider publishes a revision (no code under src/ writes it yet): a
\* postponed game scheduled again at a future instant opens a new market.
GameRevised(g, content, start) ==
  LET seen     == revisions[g]
      reopened == seen # <<>> /\ CurrentGame(g).status = "postponed"
                              /\ content.status = "scheduled"
      market   == IF seen = <<>> THEN 1
                  ELSE CurrentGame(g).market + (IF reopened THEN 1 ELSE 0)
      revision == [status |-> content.status, score |-> content.score,
                   start |-> start, market |-> market, updated |-> now]
  IN  /\ Len(seen) < MaxRevision
      /\ reopened => now < start
      /\ seen # <<>> => revision # CurrentGame(g)
      /\ revisions' = [revisions EXCEPT ![g] = Append(@, revision)]
      /\ UNCHANGED <<now, registered, enrollment, account, ledger, claims, bet,
                     operation, held>>

\* A database operator places or lifts a retention hold; the bot cannot.
Hold(a) ==
  /\ AccountExists(a) /\ a \notin held
  /\ held' = held \cup {a}
  /\ UNCHANGED <<now, registered, enrollment, account, ledger, claims, bet,
                 revisions, operation>>

Release(a) ==
  /\ a \in held
  /\ held' = held \ {a}
  /\ UNCHANGED <<now, registered, enrollment, account, ledger, claims, bet,
                 revisions, operation>>

-----------------------------------------------------------------------------
Versions == 0..(Cardinality(Ops))

MemberStep(o) ==
  \E u \in Users, a \in Accounts :
    \/ Enroll(o, u, a)
    \/ Claim(o, u, a)
    \/ Depart(o, u, a)
    \/ \E g \in Games, p \in BetPredictions, s \in Stakes : Place(o, u, a, g, p, s)

SettlementStep(o) == \E b \in Ops, r \in 1..MaxRevision : Settle(o, b, r)

AdministratorStep(o) ==
  \E admin \in Administrators, a \in Accounts, v \in Versions, d \in Adjustments :
    Adjust(o, admin, a, v, d)

RefusedStep(o) ==
  \/ \E u \in Users :
       \/ RefuseEnroll(o, u)
       \/ RefuseClaim(o, u)
       \/ \E g \in Games, s \in Stakes : RefusePlace(o, u, g, s)
  \/ \E b \in Ops, r \in 1..MaxRevision, authorized \in BOOLEAN :
       RefuseSettle(o, b, r, authorized)
  \/ \E admin \in Administrators, a \in Accounts, v \in Versions, d \in Adjustments :
       RefuseAdjust(o, admin, a, v, d)

Environment ==
  \/ Tick
  \/ \E u \in Users : Register(u)
  \/ \E g \in Games, c \in Feed, t \in Starts : GameRevised(g, c, t)
  \/ \E a \in Disputed : Hold(a) \/ Release(a)

Next ==
  \/ Environment
  \/ \E o \in Ops :
       MemberStep(o) \/ SettlementStep(o) \/ AdministratorStep(o) \/ RefusedStep(o)
  \/ \E S \in SUBSET Accounts : Purge(S)

Spec == Init /\ [][Next]_vars

-----------------------------------------------------------------------------
\* Types.  The tables hold rows of the declared shapes, balances and debts are
\* never negative (the CHECK constraints of credit_account).
TypeOK ==
  /\ now \in Nat
  /\ registered \subseteq Users
  /\ enrollment \in [Accounts -> Enrollments]
  /\ account \in [Accounts -> Credits]
  /\ ledger \in [Accounts -> Seq(Entries)]
  /\ claims \in [Accounts -> SUBSET Int]
  /\ bet \in [Ops -> Bets \cup {NoBet}]
  /\ revisions \in [Games -> Seq(Revisions)]
  /\ operation \in [Ops -> {"unused", "accepted", "denied"}]
  /\ held \subseteq Accounts

\* The immutable ledger explains the balance: each entry starts from the balance
\* the previous one left, the last one left the account's balance and debt, and
\* the version, the token of an administrator's compare-and-set, counts them.
LedgerExplainsBalance ==
  \A a \in Accounts :
    LET l == ledger[a]
        opening == [available |-> 0, debt |-> 0]
    IN  /\ \A i \in DOMAIN l : l[i].before = IF i = 1 THEN opening ELSE l[i - 1].after
        /\ [available |-> account[a].available, debt |-> account[a].debt] =
             IF l = <<>> THEN opening ELSE l[Len(l)].after
        /\ account[a].version = Len(l)

\* An account that is not open, because it was never enrolled or was purged,
\* leaves no row behind, and none of its rows appears before it opens.
ClosedAccountsKeepNothing ==
  \A a \in Accounts : ~AccountExists(a) =>
    /\ account[a] = NoCredit /\ ledger[a] = <<>> /\ claims[a] = {}
    /\ BetsOf(a) = {} /\ a \notin held

\* One effect per operation id: no two ledger entries of an account, and no rows
\* of two accounts, name the same operation, and an operation that a row names is
\* recorded as accepted, although a purge frees the ids of the rows it deletes.
OneEffectPerOperation ==
  /\ \A a \in Accounts : \A i, j \in DOMAIN ledger[a] :
       ledger[a][i].op = ledger[a][j].op => i = j
  /\ \A a, c \in Accounts : a # c => OpsOf(a) \cap OpsOf(c) = {}
  /\ \A a \in Accounts : \A o \in OpsOf(a) : operation[o] = "accepted"

\* What an entry adds to the account's worth, available less debt.
NetOf(e) == (e.after.available - e.after.debt) - (e.before.available - e.before.debt)

Booked(a, o, amount) ==
  \E i \in DOMAIN ledger[a] : ledger[a][i].op = o /\ NetOf(ledger[a][i]) = amount

\* Every stake, and every settlement that moves money, is one entry of the bet's
\* own account for exactly that amount; a settlement that moves none has no entry.
BetsAreBooked ==
  \A b \in Ops : bet[b] # NoBet =>
    LET row == bet[b]
    IN  /\ Booked(row.account, b, -row.stake)
        /\ \A i \in DOMAIN row.settlements :
             LET s == row.settlements[i]
             IN  IF s.applied = 0
                 THEN \A a \in Accounts : \A j \in DOMAIN ledger[a] : ledger[a][j].op # s.op
                 ELSE Booked(row.account, s.op, s.applied)

\* A bet's settlements follow the game: strictly newer revisions, none from the
\* future, each one the official result of a terminal revision, each applying
\* only the difference to the return it supersedes; the bet's status is the last
\* result's.
SettlementChain ==
  \A b \in Ops : bet[b] # NoBet =>
    LET row == bet[b]
        chain == row.settlements
        game == revisions[row.game]
    IN  /\ \A i \in DOMAIN chain :
             LET before == SubSeq(chain, 1, i - 1)
             IN  /\ LastRevision(before) < chain[i].revision
                 /\ chain[i].revision <= Len(game)
                 /\ Terminal(game[chain[i].revision])
                 /\ chain[i].result = ResultOf(row.prediction, game[chain[i].revision])
                 /\ chain[i].returned = ReturnOf(row.stake, chain[i].result)
                 /\ chain[i].applied = chain[i].returned - LastReturn(before)
        /\ row.status = IF chain = <<>> THEN "pending"
                        ELSE IF chain[Len(chain)].result = "void" THEN "void" ELSE "settled"

\* What administrators posted to an account, and what its bets won: their last
\* settlement's return less their stake.
AdjustmentsOf(a) == {i \in DOMAIN ledger[a] : ledger[a][i].reason = "admin_adjustment"}
Adjusted(a) == SumFunction([i \in AdjustmentsOf(a) |-> NetOf(ledger[a][i])])
Won(a) == SumFunction([b \in BetsOf(a) |-> LastReturn(bet[b].settlements) - bet[b].stake])

\* Conservation: what an account is worth (available less debt) is its daily
\* claims, plus what administrators posted, plus what its bets won, whatever order
\* they came in.
Conservation ==
  \A a \in Accounts :
    account[a].available - account[a].debt =
      DailyCredit * Cardinality(claims[a]) + Adjusted(a) + Won(a)

\* The books balance: stakes and settlements are booked as they were decided, and
\* nothing else than claims, adjustments and bets makes an account's worth.
BooksBalance == BetsAreBooked /\ SettlementChain /\ Conservation

NeverVoid(b) == \A i \in DOMAIN bet[b].settlements : bet[b].settlements[i].result # "void"

\* The daily principal of an account stays within the limit, counting the bets
\* that were never void; a refund restores only the limit of the bet's own day.
DailyLimitKept ==
  \A a \in Accounts : \A day \in {bet[b].day : b \in BetsOf(a)} :
    SumFunction([b \in {x \in BetsOf(a) : bet[x].day = day /\ NeverVoid(x)} |-> bet[b].stake])
      <= DailyStakeLimit

\* Action property: recorded history is only ever extended, until a purge takes
\* a whole account, and it takes one only a retention period after its member
\* left and after its last entry, with no open bet and no hold.
HistoryKeptUntilRetention ==
  [][\A a \in Accounts :
       \/ /\ IsPrefix(ledger[a], ledger'[a])
          /\ claims[a] \subseteq claims'[a]
          /\ \A b \in BetsOf(a) :
               /\ bet'[b] # NoBet
               /\ [bet'[b] EXCEPT !.status = "pending", !.settlements = <<>>] =
                    [bet[b] EXCEPT !.status = "pending", !.settlements = <<>>]
               /\ IsPrefix(bet[b].settlements, bet'[b].settlements)
       \/ /\ enrollment[a].status = "departed"
          /\ enrollment'[a].status = "purged"
          /\ a \notin held
          /\ enrollment[a].departed + RetentionPeriod <= now
          /\ \A i \in DOMAIN ledger[a] : ledger[a][i].at + RetentionPeriod <= now
          /\ \A b \in BetsOf(a) : bet[b].settlements # <<>>]_vars

\* The tables as an implementation of the credit contract.
Contract == INSTANCE CreditContract WITH
  Positions  <- Ops,
  NoPosition <- NoBet,
  open       <- {a \in Accounts : AccountExists(a)},
  credit     <- [a \in Accounts |-> [available |-> account[a].available,
                                     debt      |-> account[a].debt]],
  granted    <- claims,
  position   <- [o \in Ops |->
                   IF bet[o] = NoBet THEN NoBet
                   ELSE [account  |-> bet[o].account,
                         stake    |-> bet[o].stake,
                         returned |-> IF bet[o].settlements = <<>> THEN -1
                                      ELSE LastReturn(bet[o].settlements)]]

\* Refinement: whatever members, the feed, administrators and retention do, the
\* accounts behave as the credit contract says.
ImplementsContract == Contract!Spec

\* Action property, after ADR-0029 "a past void bet is neither changed nor
\* revived": once its postponed game reopened as a new market, a void bet stays
\* void until it is purged.  settle never compares the bet's market with the
\* game's, so the result of the new date pays the refunded bet.
VoidMarketStaysVoid ==
  [][\A b \in Ops :
       (/\ bet[b] # NoBet
        /\ bet[b].status = "void"
        /\ bet[b].market < CurrentGame(bet[b].game).market)
       => bet'[b] = NoBet \/ bet'[b].status = "void"]_vars
=============================================================================
