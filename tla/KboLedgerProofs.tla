--------------------------- MODULE KboLedgerProofs ---------------------------
(***************************************************************************)
(* Theorems about KboLedger, for every value of its constants.             *)
(***************************************************************************)
EXTENDS KboLedger, SumTheorems, TLAPS

\* A calendar date is an integer.
LEMMA KstDateType == ASSUME NEW t \in Int PROVE KstDate(t) \in Int
  BY RuleConstants DEF KstDate

\* A daily grant never takes more from the debt than there is.
LEMMA DailyCreditSplit ==
  ASSUME NEW debt \in Nat
  PROVE  LET d == AllocateDailyCredit(debt)
         IN  /\ d \in [available : Nat, debt : Int]
             /\ debt + d.debt \in Nat
             /\ d.available - d.debt = DailyCredit
  BY RuleConstants DEF AllocateDailyCredit, Smaller

\* The split of a settlement's difference adds up to it and leaves neither the
\* balance nor the debt negative.
LEMMA SettlementSplit ==
  ASSUME NEW available \in Nat, NEW debt \in Nat, NEW delta \in Int,
         NEW voidRefund \in BOOLEAN, voidRefund => delta >= 0
  PROVE  LET d == AllocateSettlementDelta(available, debt, delta, voidRefund)
         IN  /\ d \in [available : Int, debt : Int]
             /\ available + d.available \in Nat
             /\ debt + d.debt \in Nat
             /\ d.available - d.debt = delta
  BY DEF AllocateSettlementDelta, Smaller

\* A bet returns a whole, non-negative amount: the stake if and only if it is void
\* (the smallest stake is positive).
LEMMA ReturnType ==
  ASSUME NEW stake \in Stakes, NEW result \in Results
  PROVE  /\ ReturnOf(stake, result) \in Nat
         /\ ReturnOf(stake, result) = stake <=> result = "void"
         /\ ReturnOf(stake, result) \in {0, stake, 2 * stake, 3 * stake}
  BY RuleConstants DEF ReturnOf, Results, Stakes

\* A settlement result is won, lost, push or void.
LEMMA ResultType ==
  ASSUME NEW p, NEW rev PROVE ResultOf(p, rev) \in Results
  BY DEF ResultOf, Results

\* The last settlement's return and revision are natural numbers.
LEMMA LastSettlementType ==
  ASSUME NEW s \in Seq(Settlements)
  PROVE  LastReturn(s) \in Nat /\ LastRevision(s) \in Nat
  <1>1. CASE s = <<>>
    BY <1>1 DEF LastReturn, LastRevision
  <1>2. CASE s # <<>>
    <2>1. s[Len(s)] \in Settlements
      BY <1>2
    <2> QED
      BY <1>2, <2>1 DEF LastReturn, LastRevision, Settlements
  <1> QED
    BY <1>1, <1>2

-----------------------------------------------------------------------------
\* A posting to an account keeps the rows of account and ledger well typed.
LEMMA PostType ==
  ASSUME TypeOK, NEW a \in Accounts, NEW o \in Ops, NEW reason \in Reasons,
         NEW delta \in [available : Int, debt : Int],
         account[a].available + delta.available \in Nat,
         account[a].debt + delta.debt \in Nat,
         Post(a, o, reason, delta)
  PROVE  /\ account' \in [Accounts -> Credits]
         /\ ledger' \in [Accounts -> Seq(Entries)]
  <1> DEFINE before == [available |-> account[a].available, debt |-> account[a].debt]
             after == [available |-> before.available + delta.available,
                       debt |-> before.debt + delta.debt]
             entry == [reason |-> reason, op |-> o, at |-> now,
                       before |-> before, after |-> after]
  <1>1. account[a] \in Credits /\ now \in Nat
    BY DEF TypeOK
  <1>2. before \in Balances /\ after \in Balances
    BY <1>1 DEF Balances, Credits
  <1>3. entry \in Entries
    BY <1>1, <1>2 DEF Entries
  <1>4. [available |-> after.available, debt |-> after.debt,
         version |-> account[a].version + 1] \in Credits
    BY <1>1, <1>2 DEF Credits, Balances
  <1>5. account' \in [Accounts -> Credits]
    BY <1>4 DEF Post, TypeOK
  <1>6. ledger' = [ledger EXCEPT ![a] = Append(@, entry)]
    BY DEF Post
  <1>7. Append(ledger[a], entry) \in Seq(Entries)
    BY <1>3 DEF TypeOK
  <1> QED
    BY <1>5, <1>6, <1>7 DEF TypeOK

-----------------------------------------------------------------------------
\* Type correctness.

\* The tables start in their types.
LEMMA InitType == Init => TypeOK
  BY DEF Init, TypeOK, NoEnrollment, NoCredit, Enrollments, Credits

\* A daily claim keeps the types.
LEMMA ClaimType ==
  ASSUME TypeOK, NEW o \in Ops, NEW u \in Users, NEW a \in Accounts, Claim(o, u, a)
  PROVE  TypeOK'
  <1> DEFINE delta == AllocateDailyCredit(account[a].debt)
  <1>1. account[a] \in Credits
    BY DEF TypeOK
  <1>2. /\ delta \in [available : Int, debt : Int]
        /\ account[a].available + delta.available \in Nat
        /\ account[a].debt + delta.debt \in Nat
    BY <1>1, DailyCreditSplit DEF Credits
  <1>3. account' \in [Accounts -> Credits] /\ ledger' \in [Accounts -> Seq(Entries)]
    BY <1>2, PostType DEF Claim, Reasons
  <1>4. claims' \in [Accounts -> SUBSET Int]
    BY KstDateType DEF Claim, TypeOK
  <1>5. operation' \in [Ops -> {"unused", "accepted", "denied"}]
    BY DEF Claim, Consume, TypeOK
  <1> QED
    BY <1>3, <1>4, <1>5 DEF Claim, TypeOK

\* A bet keeps the types: the stake is covered.
LEMMA PlaceType ==
  ASSUME TypeOK, NEW o \in Ops, NEW u \in Users, NEW a \in Accounts, NEW g \in Games,
         NEW p \in BetPredictions, NEW s \in Stakes, Place(o, u, a, g, p, s)
  PROVE  TypeOK'
  <1> DEFINE row == [account |-> a, game |-> g, market |-> CurrentGame(g).market,
                     prediction |-> p, stake |-> s, day |-> KstDate(now),
                     status |-> "pending", settlements |-> <<>>]
  <1>1. account[a] \in Credits
    BY DEF TypeOK
  <1>2. s \in Nat /\ s <= account[a].available
    BY RuleConstants DEF Place, PlacementAllowed, PlacementAccepted, Stakes
  <1>3. account' \in [Accounts -> Credits] /\ ledger' \in [Accounts -> Seq(Entries)]
    <2> DEFINE delta == [available |-> -s, debt |-> 0]
    <2>1. /\ delta \in [available : Int, debt : Int]
          /\ account[a].available + delta.available \in Nat
          /\ account[a].debt + delta.debt \in Nat
      BY <1>1, <1>2 DEF Credits
    <2>2. Post(a, o, "bet_stake", delta)
      BY DEF Place
    <2> QED
      BY <2>1, <2>2, PostType DEF Reasons
  <1>4. CurrentGame(g) \in Revisions
    BY DEF Place, PlacementAllowed, CurrentGame, TypeOK
  <1>5. row \in Bets
    BY <1>4, LedgerConstants, KstDateType DEF TypeOK, Bets, Revisions
  <1>6. bet' \in [Ops -> Bets \cup {NoBet}]
    BY <1>5 DEF Place, TypeOK
  <1>7. operation' \in [Ops -> {"unused", "accepted", "denied"}]
    BY DEF Place, Consume, TypeOK
  <1> QED
    BY <1>3, <1>6, <1>7 DEF Place, TypeOK

\* The amounts of a settlement step, and what it does to the account.
LEMMA SettleStep ==
  ASSUME TypeOK, NEW o \in Ops, NEW b \in Ops, NEW r \in Nat, Settle(o, b, r)
  PROVE  LET row      == bet[b]
             a        == row.account
             result   == ResultOf(row.prediction, CurrentGame(row.game))
             returned == ReturnOf(row.stake, result)
             applied  == returned - LastReturn(row.settlements)
             first    == row.settlements = <<>>
             delta    == AllocateSettlementDelta(account[a].available, account[a].debt,
                                                 applied, first /\ result = "void")
         IN  /\ row \in Bets
             /\ a \in Accounts
             /\ account[a] \in Credits
             /\ result \in Results
             /\ returned \in Nat
             /\ LastReturn(row.settlements) \in Nat
             /\ applied \in Int
             /\ delta \in [available : Int, debt : Int]
             /\ account[a].available + delta.available \in Nat
             /\ account[a].debt + delta.debt \in Nat
             /\ delta.available - delta.debt = applied
             /\ \/ applied = 0 /\ UNCHANGED <<account, ledger>>
                \/ /\ applied # 0
                   /\ \E reason \in {"bet_void_refund", "bet_payout", "settlement_correction"} :
                        Post(a, o, reason, delta)
             /\ bet' = [bet EXCEPT
                  ![b].status = IF result = "void" THEN "void" ELSE "settled",
                  ![b].settlements = Append(@, [op |-> o, revision |-> r,
                                                result |-> result, returned |-> returned,
                                                applied |-> applied])]
  <1> DEFINE row      == bet[b]
             a        == row.account
             result   == ResultOf(row.prediction, CurrentGame(row.game))
             returned == ReturnOf(row.stake, result)
             applied  == returned - LastReturn(row.settlements)
             first    == row.settlements = <<>>
             delta    == AllocateSettlementDelta(account[a].available, account[a].debt,
                                                 applied, first /\ result = "void")
  <1>1. row \in Bets
    BY DEF TypeOK, Settle, SettlementAllowed
  <1>2. a \in Accounts /\ account[a] \in Credits /\ row.stake \in Stakes
        /\ row.settlements \in Seq(Settlements)
    BY <1>1 DEF Bets, TypeOK
  <1>3. result \in Results
    BY ResultType
  <1>4. returned \in Nat
    BY <1>2, <1>3, ReturnType
  <1>5. LastReturn(row.settlements) \in Nat
    BY <1>2, LastSettlementType
  <1>6. first => LastReturn(row.settlements) = 0
    BY DEF LastReturn
  <1>7. applied \in Int /\ (first => applied >= 0)
    BY <1>4, <1>5, <1>6
  <1>8. /\ delta \in [available : Int, debt : Int]
        /\ account[a].available + delta.available \in Nat
        /\ account[a].debt + delta.debt \in Nat
        /\ delta.available - delta.debt = applied
    <2>1. account[a].available \in Nat /\ account[a].debt \in Nat
      BY <1>2 DEF Credits
    <2> DEFINE refund == first /\ result = "void"
    <2>2. refund \in BOOLEAN /\ (refund => applied >= 0) /\ applied \in Int
      BY <1>7
    <2>3. delta = AllocateSettlementDelta(account[a].available, account[a].debt,
                                          applied, refund)
      OBVIOUS
    <2> HIDE DEF applied, refund, delta, a
    <2> QED
      BY <2>1, <2>2, <2>3, SettlementSplit
  <1>9. \/ applied = 0 /\ UNCHANGED <<account, ledger>>
        \/ /\ applied # 0
           /\ \E reason \in {"bet_void_refund", "bet_payout", "settlement_correction"} :
                Post(a, o, reason, delta)
    BY DEF Settle
  <1>10. bet' = [bet EXCEPT
           ![b].status = IF result = "void" THEN "void" ELSE "settled",
           ![b].settlements = Append(@, [op |-> o, revision |-> r, result |-> result,
                                         returned |-> returned, applied |-> applied])]
    BY DEF Settle
  <1> HIDE DEF row, result, returned, applied, first, delta
  <1> QED
    BY <1>1, <1>2, <1>3, <1>4, <1>5, <1>7, <1>8, <1>9, <1>10
       DEF row, result, returned, applied, first, delta

\* A settlement keeps the types.
LEMMA SettleType ==
  ASSUME TypeOK, NEW o \in Ops, NEW b \in Ops, NEW r \in Nat, Settle(o, b, r)
  PROVE  TypeOK'
  <1> DEFINE row      == bet[b]
             a        == row.account
             result   == ResultOf(row.prediction, CurrentGame(row.game))
             returned == ReturnOf(row.stake, result)
             applied  == returned - LastReturn(row.settlements)
             delta    == AllocateSettlementDelta(account[a].available, account[a].debt,
                                                 applied, row.settlements = <<>> /\ result = "void")
             entry    == [op |-> o, revision |-> r, result |-> result,
                          returned |-> returned, applied |-> applied]
             status   == IF result = "void" THEN "void" ELSE "settled"
  <1>1. /\ row \in Bets /\ a \in Accounts /\ result \in Results /\ returned \in Nat
        /\ applied \in Int
        /\ delta \in [available : Int, debt : Int]
        /\ account[a].available + delta.available \in Nat
        /\ account[a].debt + delta.debt \in Nat
        /\ \/ applied = 0 /\ UNCHANGED <<account, ledger>>
           \/ /\ applied # 0
              /\ \E reason \in {"bet_void_refund", "bet_payout", "settlement_correction"} :
                   Post(a, o, reason, delta)
        /\ bet' = [bet EXCEPT ![b].status = status, ![b].settlements = Append(@, entry)]
    BY SettleStep
  <1> HIDE DEF row, a, result, returned, applied, delta
  <1>2. account' \in [Accounts -> Credits] /\ ledger' \in [Accounts -> Seq(Entries)]
    <2>1. CASE UNCHANGED <<account, ledger>>
      BY <2>1 DEF TypeOK
    <2>2. ASSUME NEW reason \in {"bet_void_refund", "bet_payout", "settlement_correction"},
                 Post(a, o, reason, delta)
          PROVE  account' \in [Accounts -> Credits] /\ ledger' \in [Accounts -> Seq(Entries)]
      <3>1. reason \in Reasons
        BY DEF Reasons
      <3> QED
        BY <1>1, <2>2, <3>1, PostType
    <2> QED
      BY <1>1, <2>1, <2>2
  <1>3. entry \in Settlements
    BY <1>1 DEF Settlements
  <1>4. [row EXCEPT !.status = status, !.settlements = Append(row.settlements, entry)] \in Bets
    <2>1. Append(row.settlements, entry) \in Seq(Settlements)
      BY <1>1, <1>3 DEF Bets
    <2>2. status \in {"pending", "settled", "void"}
      OBVIOUS
    <2> HIDE DEF status, entry
    <2> QED
      BY <1>1, <2>1, <2>2 DEF Bets
  <1>5. bet' \in [Ops -> Bets \cup {NoBet}]
    <2>1. bet' = [bet EXCEPT ![b] = [row EXCEPT !.status = status,
                                     !.settlements = Append(row.settlements, entry)]]
      BY <1>1 DEF row
    <2> QED
      BY <1>4, <2>1 DEF TypeOK
  <1>6. operation' \in [Ops -> {"unused", "accepted", "denied"}]
    BY DEF Settle, Consume, TypeOK
  <1> QED
    BY <1>2, <1>5, <1>6 DEF Settle, TypeOK

\* An adjustment keeps the types: it was refused if not covered.
LEMMA AdjustType ==
  ASSUME TypeOK, NEW o \in Ops, NEW admin \in Administrators, NEW a \in Accounts,
         NEW v \in Versions, NEW d \in Adjustments, Adjust(o, admin, a, v, d)
  PROVE  TypeOK'
  <1> DEFINE delta == [available |-> d, debt |-> 0]
  <1>1. account[a] \in Credits /\ d \in Int
    BY LedgerConstants DEF TypeOK
  <1>2. /\ delta \in [available : Int, debt : Int]
        /\ account[a].available + delta.available \in Nat
        /\ account[a].debt + delta.debt \in Nat
    BY <1>1 DEF Adjust, AdjustmentAllowed, Credits
  <1>3. Post(a, o, "admin_adjustment", delta)
    BY DEF Adjust
  <1>4. account' \in [Accounts -> Credits] /\ ledger' \in [Accounts -> Seq(Entries)]
    BY <1>2, <1>3, PostType DEF Reasons
  <1> QED
    BY <1>4 DEF Adjust, Consume, TypeOK

\* A purge keeps the types.
LEMMA PurgeType == ASSUME TypeOK, NEW S \in SUBSET Accounts, Purge(S) PROVE TypeOK'
  <1>1. account' \in [Accounts -> Credits]
    BY DEF Purge, TypeOK, NoCredit, Credits
  <1>2. ledger' \in [Accounts -> Seq(Entries)]
    BY DEF Purge, TypeOK
  <1>3. enrollment' \in [Accounts -> Enrollments]
    BY DEF Purge, TypeOK, NoEnrollment, Enrollments
  <1>4. claims' \in [Accounts -> SUBSET Int]
    BY DEF Purge, TypeOK
  <1>5. bet' \in [Ops -> Bets \cup {NoBet}]
    BY DEF Purge, TypeOK
  <1>6. operation' \in [Ops -> {"unused", "accepted", "denied"}]
    BY DEF Purge, TypeOK
  <1> QED
    BY <1>1, <1>2, <1>3, <1>4, <1>5, <1>6 DEF Purge, TypeOK

\* A revision of a game keeps the types.
LEMMA GameRevisedType ==
  ASSUME TypeOK, NEW g \in Games, NEW c \in Feed, NEW t \in Starts, GameRevised(g, c, t)
  PROVE  TypeOK'
  <1> DEFINE market == IF revisions[g] = <<>> THEN 1
                       ELSE CurrentGame(g).market
                              + (IF revisions[g] # <<>> /\ CurrentGame(g).status = "postponed"
                                    /\ c.status = "scheduled" THEN 1 ELSE 0)
             revision == [status |-> c.status, score |-> c.score, start |-> t,
                          market |-> market, updated |-> now]
  <1>1. market \in Nat
    <2>1. CASE revisions[g] = <<>>
      BY <2>1
    <2>2. CASE revisions[g] # <<>>
      <3>1. CurrentGame(g) \in Revisions
        BY <2>2 DEF CurrentGame, TypeOK
      <3> QED
        BY <2>2, <3>1 DEF Revisions
    <2> QED
      BY <2>1, <2>2
  <1>2. revision \in Revisions
    <2> HIDE DEF market
    <2> QED
      BY <1>1, LedgerConstants DEF Revisions, TypeOK
  <1>3. revisions' = [revisions EXCEPT ![g] = Append(@, revision)]
    BY DEF GameRevised
  <1>4. Append(revisions[g], revision) \in Seq(Revisions)
    BY <1>2 DEF TypeOK
  <1>5. revisions' \in [Games -> Seq(Revisions)]
    BY <1>3, <1>4 DEF TypeOK
  <1> QED
    BY <1>5 DEF GameRevised, TypeOK

\* Every step of the ledger keeps the tables well typed.
LEMMA StepType == TypeOK /\ [Next]_vars => TypeOK'
  <1> SUFFICES ASSUME TypeOK, [Next]_vars PROVE TypeOK'
    OBVIOUS
  <1>1. CASE UNCHANGED vars
    BY <1>1 DEF vars, TypeOK
  <1>2. CASE Tick
    BY <1>2 DEF Tick, TypeOK
  <1>3. ASSUME NEW u \in Users, Register(u) PROVE TypeOK'
    BY <1>3 DEF Register, TypeOK
  <1>4. ASSUME NEW g \in Games, NEW c \in Feed, NEW t \in Starts, GameRevised(g, c, t)
        PROVE TypeOK'
    BY <1>4, GameRevisedType
  <1>5. ASSUME NEW a \in Disputed, Hold(a) \/ Release(a) PROVE TypeOK'
    BY <1>5, LedgerConstants DEF Hold, Release, TypeOK
  <1>6. ASSUME NEW o \in Ops, NEW u \in Users, NEW a \in Accounts, Enroll(o, u, a)
        PROVE TypeOK'
    BY <1>6 DEF Enroll, Consume, NoCredit, Credits, Enrollments, TypeOK
  <1>7. ASSUME NEW o \in Ops, NEW u \in Users, NEW a \in Accounts, Claim(o, u, a)
        PROVE TypeOK'
    BY <1>7, ClaimType
  <1>8. ASSUME NEW o \in Ops, NEW u \in Users, NEW a \in Accounts, Depart(o, u, a)
        PROVE TypeOK'
    BY <1>8 DEF Depart, Consume, Enrollments, TypeOK
  <1>9. ASSUME NEW o \in Ops, NEW u \in Users, NEW a \in Accounts, NEW g \in Games,
               NEW p \in BetPredictions, NEW s \in Stakes, Place(o, u, a, g, p, s)
        PROVE TypeOK'
    BY <1>9, PlaceType
  <1>10. ASSUME NEW o \in Ops, NEW b \in Ops, NEW r \in 1..MaxRevision, Settle(o, b, r)
         PROVE TypeOK'
    <2>1. r \in Nat
      BY LedgerConstants
    <2> QED
      BY <1>10, <2>1, SettleType
  <1>11. ASSUME NEW o \in Ops, NEW admin \in Administrators, NEW a \in Accounts,
                NEW v \in Versions, NEW d \in Adjustments, Adjust(o, admin, a, v, d)
         PROVE TypeOK'
    BY <1>11, AdjustType
  <1>12. ASSUME NEW o \in Ops, RefusedStep(o) PROVE TypeOK'
    BY <1>12 DEF RefusedStep, RefuseEnroll, RefuseClaim, RefusePlace, RefuseSettle,
                 RefuseAdjust, Deny, Consume, TypeOK
  <1>13. ASSUME NEW S \in SUBSET Accounts, Purge(S) PROVE TypeOK'
    BY <1>13, PurgeType
  <1> QED
    BY <1>1, <1>2, <1>3, <1>4, <1>5, <1>6, <1>7, <1>8, <1>9, <1>10, <1>11, <1>12, <1>13
       DEF Next, Environment, MemberStep, SettlementStep, AdministratorStep

\* The tables hold well-typed rows, and no balance or debt is ever negative, for
\* any users, accounts, games, feed and bounds.
THEOREM LedgerTypeOK == Spec => []TypeOK
  BY InitType, StepType, PTL DEF Spec

-----------------------------------------------------------------------------
\* Closed accounts keep nothing.

\* A step that touches one open account leaves the closed ones empty.
LEMMA ClosedFrame ==
  ASSUME ClosedAccountsKeepNothing, NEW a \in Accounts, AccountExists(a)',
         \A c \in Accounts \ {a} :
           /\ enrollment'[c] = enrollment[c]
           /\ account'[c] = account[c]
           /\ ledger'[c] = ledger[c]
           /\ claims'[c] = claims[c]
           /\ BetsOf(c)' \subseteq BetsOf(c)
           /\ c \in held' => c \in held
  PROVE  ClosedAccountsKeepNothing'
  BY DEF ClosedAccountsKeepNothing, AccountExists

\* A posting leaves other accounts alone.
LEMMA PostFrame ==
  ASSUME TypeOK, NEW a \in Accounts, NEW o, NEW reason, NEW delta,
         Post(a, o, reason, delta), NEW c \in Accounts \ {a}
  PROVE  account'[c] = account[c] /\ ledger'[c] = ledger[c]
  BY DEF Post, TypeOK

\* No account has rows at the start.
LEMMA InitClosed == Init => ClosedAccountsKeepNothing
  BY DEF Init, ClosedAccountsKeepNothing, BetsOf

\* Only open accounts get rows, and a purge clears those it closes.
LEMMA StepClosed == TypeOK /\ ClosedAccountsKeepNothing /\ [Next]_vars
                      => ClosedAccountsKeepNothing'
  <1> SUFFICES ASSUME TypeOK, ClosedAccountsKeepNothing, [Next]_vars
               PROVE  ClosedAccountsKeepNothing'
    OBVIOUS
  <1> USE DEF BetsOf
  <1>1. CASE UNCHANGED vars
    BY <1>1 DEF vars, ClosedAccountsKeepNothing, AccountExists
  <1>2. CASE Tick
    BY <1>2 DEF Tick, ClosedAccountsKeepNothing, AccountExists
  <1>3. ASSUME NEW u \in Users, Register(u) PROVE ClosedAccountsKeepNothing'
    BY <1>3 DEF Register, ClosedAccountsKeepNothing, AccountExists
  <1>4. ASSUME NEW g \in Games, NEW c \in Feed, NEW t \in Starts, GameRevised(g, c, t)
        PROVE ClosedAccountsKeepNothing'
    BY <1>4 DEF GameRevised, ClosedAccountsKeepNothing, AccountExists
  <1>5. ASSUME NEW a \in Disputed, Hold(a) \/ Release(a) PROVE ClosedAccountsKeepNothing'
    BY <1>5 DEF Hold, Release, ClosedAccountsKeepNothing, AccountExists
  <1>6. ASSUME NEW o \in Ops, NEW u \in Users, NEW a \in Accounts, Enroll(o, u, a)
        PROVE ClosedAccountsKeepNothing'
    <2>1. AccountExists(a)'
      BY <1>6 DEF Enroll, AccountExists, TypeOK
    <2>2. \A c \in Accounts \ {a} : enrollment'[c] = enrollment[c] /\ account'[c] = account[c]
      BY <1>6 DEF Enroll, TypeOK
    <2> QED
      BY <1>6, <2>1, <2>2, ClosedFrame DEF Enroll
  <1>7. ASSUME NEW o \in Ops, NEW u \in Users, NEW a \in Accounts, Claim(o, u, a)
        PROVE ClosedAccountsKeepNothing'
    <2>1. AccountExists(a)'
      BY <1>7 DEF Claim, EnrolledAs, AccountExists
    <2>2. \A c \in Accounts \ {a} : account'[c] = account[c] /\ ledger'[c] = ledger[c]
      BY <1>7, PostFrame DEF Claim
    <2>3. \A c \in Accounts \ {a} : claims'[c] = claims[c]
      BY <1>7 DEF Claim, TypeOK
    <2> QED
      BY <1>7, <2>1, <2>2, <2>3, ClosedFrame DEF Claim
  <1>8. ASSUME NEW o \in Ops, NEW u \in Users, NEW a \in Accounts, Depart(o, u, a)
        PROVE ClosedAccountsKeepNothing'
    <2>1. AccountExists(a)'
      BY <1>8 DEF Depart, AccountExists, TypeOK
    <2>2. \A c \in Accounts \ {a} : enrollment'[c] = enrollment[c]
      BY <1>8 DEF Depart, TypeOK
    <2> QED
      BY <1>8, <2>1, <2>2, ClosedFrame DEF Depart
  <1>9. ASSUME NEW o \in Ops, NEW u \in Users, NEW a \in Accounts, NEW g \in Games,
               NEW p \in BetPredictions, NEW s \in Stakes, Place(o, u, a, g, p, s)
        PROVE ClosedAccountsKeepNothing'
    <2>1. AccountExists(a)'
      BY <1>9 DEF Place, EnrolledAs, AccountExists
    <2>2. \A c \in Accounts \ {a} : account'[c] = account[c] /\ ledger'[c] = ledger[c]
      BY <1>9, PostFrame DEF Place
    <2>3. \A c \in Accounts \ {a} : BetsOf(c)' \subseteq BetsOf(c)
      BY <1>9 DEF Place, TypeOK
    <2> QED
      BY <1>9, <2>1, <2>2, <2>3, ClosedFrame DEF Place
  <1>10. ASSUME NEW o \in Ops, NEW b \in Ops, NEW r \in 1..MaxRevision, Settle(o, b, r)
         PROVE ClosedAccountsKeepNothing'
    <2>1. bet[b] \in Bets /\ bet[b] # NoBet
      BY <1>10 DEF Settle, SettlementAllowed, TypeOK
    <2>2. PICK a \in Accounts : a = bet[b].account
      BY <2>1 DEF Bets
    <2>3. AccountExists(a)
      BY <2>1, <2>2 DEF ClosedAccountsKeepNothing
    <2>4. AccountExists(a)'
      BY <1>10, <2>3 DEF Settle, AccountExists
    <2>5. \A c \in Accounts \ {a} : account'[c] = account[c] /\ ledger'[c] = ledger[c]
      BY <1>10, <2>2, PostFrame DEF Settle
    <2>6. \A c \in Accounts \ {a} : BetsOf(c)' \subseteq BetsOf(c)
      BY <1>10, <2>1, <2>2 DEF Settle, TypeOK, Bets
    <2> QED
      BY <1>10, <2>4, <2>5, <2>6, ClosedFrame DEF Settle
  <1>11. ASSUME NEW o \in Ops, NEW admin \in Administrators, NEW a \in Accounts,
                NEW v \in Versions, NEW d \in Adjustments, Adjust(o, admin, a, v, d)
         PROVE ClosedAccountsKeepNothing'
    <2>1. AccountExists(a)'
      BY <1>11 DEF Adjust, AdjustmentAllowed, AccountExists
    <2>2. \A c \in Accounts \ {a} : account'[c] = account[c] /\ ledger'[c] = ledger[c]
      BY <1>11, PostFrame DEF Adjust
    <2> QED
      BY <1>11, <2>1, <2>2, ClosedFrame DEF Adjust
  <1>12. ASSUME NEW o \in Ops, RefusedStep(o) PROVE ClosedAccountsKeepNothing'
    BY <1>12 DEF RefusedStep, RefuseEnroll, RefuseClaim, RefusePlace, RefuseSettle,
                 RefuseAdjust, Deny, Consume, ClosedAccountsKeepNothing, AccountExists
  <1>13. ASSUME NEW S \in SUBSET Accounts, Purge(S) PROVE ClosedAccountsKeepNothing'
    <2>1. \A a \in S : a \notin held
      BY <1>13 DEF Purge, Expired
    <2> QED
      BY <1>13, <2>1 DEF Purge, ClosedAccountsKeepNothing, AccountExists, NoCredit, TypeOK
  <1> QED
    BY <1>1, <1>2, <1>3, <1>4, <1>5, <1>6, <1>7, <1>8, <1>9, <1>10, <1>11, <1>12, <1>13
       DEF Next, Environment, MemberStep, SettlementStep, AdministratorStep

\* Nothing is left of an account before it is enrolled or after it is purged.
THEOREM ClosedAccountsTheorem == Spec => []ClosedAccountsKeepNothing
  <1>1. Init => TypeOK /\ ClosedAccountsKeepNothing
    BY InitType, InitClosed
  <1>2. TypeOK /\ ClosedAccountsKeepNothing /\ [Next]_vars
          => (TypeOK /\ ClosedAccountsKeepNothing)'
    BY StepType, StepClosed
  <1> QED
    BY <1>1, <1>2, PTL DEF Spec

-----------------------------------------------------------------------------
\* The ledger explains the balance.

\* LedgerExplainsBalance, for one account.
Explained(a) ==
  LET l == ledger[a]
      opening == [available |-> 0, debt |-> 0]
  IN  /\ \A i \in DOMAIN l : l[i].before = IF i = 1 THEN opening ELSE l[i - 1].after
      /\ [available |-> account[a].available, debt |-> account[a].debt] =
           IF l = <<>> THEN opening ELSE l[Len(l)].after
      /\ account[a].version = Len(l)

\* A posting extends the chain of an account by one link.
LEMMA PostExplained ==
  ASSUME TypeOK, NEW a \in Accounts, Explained(a),
         NEW o, NEW reason, NEW delta, Post(a, o, reason, delta)
  PROVE  Explained(a)'
  <1> DEFINE l == ledger[a]
             before == [available |-> account[a].available, debt |-> account[a].debt]
             after == [available |-> before.available + delta.available,
                       debt |-> before.debt + delta.debt]
             entry == [reason |-> reason, op |-> o, at |-> now,
                       before |-> before, after |-> after]
  <1>1. l \in Seq(Entries)
    BY DEF TypeOK
  <1>2. ledger'[a] = Append(l, entry)
    BY DEF Post, TypeOK
  <1>3. account'[a] = [available |-> after.available, debt |-> after.debt,
                       version |-> account[a].version + 1]
    BY DEF Post, TypeOK
  <1>4. /\ Len(Append(l, entry)) = Len(l) + 1
        /\ DOMAIN Append(l, entry) = 1..(Len(l) + 1)
        /\ Append(l, entry)[Len(l) + 1] = entry
        /\ \A i \in 1..Len(l) : Append(l, entry)[i] = l[i]
        /\ Append(l, entry) # <<>>
        /\ Len(l) \in Nat /\ DOMAIN l = 1..Len(l)
    <2> HIDE DEF entry, l
    <2> QED
      BY <1>1
  <1>5. ASSUME NEW i \in 1..(Len(l) + 1)
        PROVE  Append(l, entry)[i].before =
                 IF i = 1 THEN [available |-> 0, debt |-> 0] ELSE Append(l, entry)[i - 1].after
    <2>1. CASE i \in 1..Len(l)
      <3>1. l[i].before = IF i = 1 THEN [available |-> 0, debt |-> 0] ELSE l[i - 1].after
        BY <1>4, <2>1 DEF Explained
      <3>2. i # 1 => i - 1 \in 1..Len(l)
        BY <1>4, <2>1
      <3> QED
        BY <1>4, <2>1, <3>1, <3>2
    <2>2. CASE i = Len(l) + 1
      <3>1. Append(l, entry)[i].before = before
        BY <1>4, <2>2
      <3>2. before = IF l = <<>> THEN [available |-> 0, debt |-> 0] ELSE l[Len(l)].after
        BY DEF Explained
      <3>3. CASE l = <<>>
        BY <1>4, <2>2, <3>1, <3>2, <3>3
      <3>4. CASE l # <<>>
        <4>1. Len(l) \in 1..Len(l) /\ i - 1 = Len(l) /\ i # 1
          BY <1>1, <1>4, <2>2, <3>4
        <4>2. Append(l, entry)[i - 1] = l[Len(l)]
          BY <1>4, <4>1
        <4> QED
          BY <3>1, <3>2, <3>4, <4>1, <4>2
      <3> QED
        BY <3>3, <3>4
    <2> QED
      BY <1>4, <2>1, <2>2
  <1>6. account[a].version = Len(l)
    BY DEF Explained
  <1>7. [available |-> account'[a].available, debt |-> account'[a].debt] = after
    BY <1>3
  <1>8. Append(l, entry)[Len(Append(l, entry))].after = after
    BY <1>4
  <1> HIDE DEF l, entry, after, before
  <1> QED
    BY <1>2, <1>3, <1>4, <1>5, <1>6, <1>7, <1>8 DEF Explained

\* A step changes no row of an account, or closes it, or posts to it.
LEMMA BalanceStep ==
  ASSUME TypeOK, ClosedAccountsKeepNothing, [Next]_vars, NEW c \in Accounts
  PROVE  \/ account'[c] = account[c] /\ ledger'[c] = ledger[c]
         \/ account'[c] = NoCredit /\ ledger'[c] = <<>>
         \/ \E o \in Ops, reason \in Reasons, delta \in [available : Int, debt : Int] :
              Post(c, o, reason, delta)
  <1> DEFINE Goal == \/ account'[c] = account[c] /\ ledger'[c] = ledger[c]
                     \/ account'[c] = NoCredit /\ ledger'[c] = <<>>
                     \/ \E o \in Ops, reason \in Reasons, delta \in [available : Int, debt : Int] :
                          Post(c, o, reason, delta)
  <1>1. ASSUME NEW a \in Accounts, NEW o \in Ops, NEW reason \in Reasons,
               NEW delta \in [available : Int, debt : Int], Post(a, o, reason, delta)
        PROVE  Goal
    <2>1. CASE c = a
      BY <1>1, <2>1
    <2>2. CASE c # a
      BY <1>1, <2>2, PostFrame
    <2> QED
      BY <2>1, <2>2
  <1>2. CASE UNCHANGED <<account, ledger>>
    BY <1>2
  <1>3. ASSUME NEW o \in Ops, NEW u \in Users, NEW a \in Accounts, Enroll(o, u, a)
        PROVE Goal
    <2>1. a = c => ledger[c] = <<>>
      BY <1>3 DEF Enroll, ClosedAccountsKeepNothing, AccountExists
    <2> QED
      BY <1>3, <2>1 DEF Enroll, TypeOK
  <1>4. ASSUME NEW o \in Ops, NEW u \in Users, NEW a \in Accounts, Claim(o, u, a)
        PROVE Goal
    <2>1. account[a].debt \in Nat
      BY DEF TypeOK, Credits
    <2>2. AllocateDailyCredit(account[a].debt) \in [available : Int, debt : Int]
      BY <2>1, DailyCreditSplit
    <2> QED
      BY <1>1, <1>4, <2>2 DEF Claim, Reasons
  <1>5. ASSUME NEW o \in Ops, NEW u \in Users, NEW a \in Accounts, NEW g \in Games,
               NEW p \in BetPredictions, NEW s \in Stakes, Place(o, u, a, g, p, s)
        PROVE Goal
    <2>1. [available |-> -s, debt |-> 0] \in [available : Int, debt : Int]
      BY RuleConstants DEF Stakes
    <2> QED
      BY <1>1, <1>5, <2>1 DEF Place, Reasons
  <1>6. ASSUME NEW o \in Ops, NEW b \in Ops, NEW r \in 1..MaxRevision, Settle(o, b, r)
        PROVE Goal
    <2>1. r \in Nat
      BY LedgerConstants
    <2> DEFINE a == bet[b].account
               result == ResultOf(bet[b].prediction, CurrentGame(bet[b].game))
               applied == ReturnOf(bet[b].stake, result) - LastReturn(bet[b].settlements)
               delta == AllocateSettlementDelta(account[a].available, account[a].debt,
                          applied, bet[b].settlements = <<>> /\ result = "void")
    <2>2. /\ a \in Accounts /\ delta \in [available : Int, debt : Int]
          /\ \/ UNCHANGED <<account, ledger>>
             \/ \E reason \in {"bet_void_refund", "bet_payout", "settlement_correction"} :
                  Post(a, o, reason, delta)
      BY <1>6, <2>1, SettleStep
    <2> HIDE DEF a, delta
    <2> QED
      BY <1>1, <1>2, <2>2 DEF Reasons
  <1>7. ASSUME NEW o \in Ops, NEW admin \in Administrators, NEW a \in Accounts,
               NEW v \in Versions, NEW d \in Adjustments, Adjust(o, admin, a, v, d)
        PROVE Goal
    <2>1. [available |-> d, debt |-> 0] \in [available : Int, debt : Int]
      BY LedgerConstants
    <2> QED
      BY <1>1, <1>7, <2>1 DEF Adjust, Reasons
  <1>8. ASSUME NEW S \in SUBSET Accounts, Purge(S) PROVE Goal
    BY <1>8 DEF Purge
  <1>9. ASSUME NEW o \in Ops, RefusedStep(o) PROVE Goal
    BY <1>2, <1>9 DEF RefusedStep, RefuseEnroll, RefuseClaim, RefusePlace, RefuseSettle,
                      RefuseAdjust, Deny, Consume
  <1>10. ASSUME NEW o \in Ops, NEW u \in Users, NEW a \in Accounts, Depart(o, u, a)
         PROVE Goal
    BY <1>2, <1>10 DEF Depart
  <1>11. ASSUME Environment \/ UNCHANGED vars PROVE Goal
    BY <1>2, <1>11 DEF Environment, Tick, Register, GameRevised, Hold, Release, vars
  <1> HIDE DEF Goal
  <1>12. Goal
    BY <1>3, <1>4, <1>5, <1>6, <1>7, <1>8, <1>9, <1>10, <1>11
       DEF Next, MemberStep, SettlementStep, AdministratorStep
  <1> QED
    BY <1>12 DEF Goal

\* Every posting extends the chain of its account.
LEMMA StepExplained ==
  TypeOK /\ ClosedAccountsKeepNothing /\ LedgerExplainsBalance /\ [Next]_vars
    => LedgerExplainsBalance'
  <1> SUFFICES ASSUME TypeOK, ClosedAccountsKeepNothing, LedgerExplainsBalance, [Next]_vars,
                      NEW c \in Accounts
               PROVE  Explained(c)'
    BY DEF LedgerExplainsBalance, Explained
  <1>1. Explained(c)
    BY DEF LedgerExplainsBalance, Explained
  <1>2. CASE account'[c] = account[c] /\ ledger'[c] = ledger[c]
    BY <1>1, <1>2 DEF Explained
  <1>3. CASE account'[c] = NoCredit /\ ledger'[c] = <<>>
    BY <1>3 DEF Explained, NoCredit
  <1>4. ASSUME NEW o \in Ops, NEW reason \in Reasons,
               NEW delta \in [available : Int, debt : Int], Post(c, o, reason, delta)
        PROVE  Explained(c)'
    BY <1>1, <1>4, PostExplained
  <1> QED
    BY <1>2, <1>3, <1>4, BalanceStep

\* For every account and at every moment, the entries of the immutable ledger
\* chain up from zero to the stored balance and debt, and the version counts them.
THEOREM LedgerExplainsBalanceTheorem == Spec => []LedgerExplainsBalance
  <1> DEFINE IInv == TypeOK /\ ClosedAccountsKeepNothing /\ LedgerExplainsBalance
  <1>1. Init => IInv
    <2> SUFFICES ASSUME Init PROVE LedgerExplainsBalance
      BY InitType, InitClosed
    <2> QED
      BY DEF Init, LedgerExplainsBalance, NoCredit
  <1>2. IInv /\ [Next]_vars => IInv'
    BY StepType, StepClosed, StepExplained
  <1> QED
    BY <1>1, <1>2, PTL DEF Spec

-----------------------------------------------------------------------------
\* The kinds of steps.

\* A step that changes no amount, no claim and no bet: operations that were used
\* stay as they are, recorded revisions stay, and open accounts stay open.
Quiet ==
  /\ UNCHANGED <<account, ledger, claims, bet>>
  /\ \A o \in Ops : operation[o] # "unused" => operation'[o] = operation[o]
  /\ \A g \in Games : \A i \in 1..Len(revisions[g]) :
       i \in 1..Len(revisions'[g]) /\ revisions'[g][i] = revisions[g][i]
  /\ \/ \A a \in Accounts : AccountExists(a)' <=> AccountExists(a)
     \/ \E c \in Accounts : ~AccountExists(c)
          /\ \A a \in Accounts : AccountExists(a)' <=> AccountExists(a) \/ a = c

\* Every step is quiet, or one of the operations that write amounts, or a purge.
LEMMA StepKinds ==
  ASSUME TypeOK, ClosedAccountsKeepNothing, [Next]_vars
  PROVE  \/ Quiet
         \/ \E o \in Ops, u \in Users, a \in Accounts : Claim(o, u, a)
         \/ \E o \in Ops, u \in Users, a \in Accounts, g \in Games, p \in BetPredictions,
               s \in Stakes : Place(o, u, a, g, p, s)
         \/ \E o \in Ops, b \in Ops, r \in Nat : Settle(o, b, r)
         \/ \E o \in Ops, admin \in Administrators, a \in Accounts, v \in Versions,
               d \in Adjustments : Adjust(o, admin, a, v, d)
         \/ \E S \in SUBSET Accounts : Purge(S)
  <1>1. CASE UNCHANGED vars
    BY <1>1 DEF vars, Quiet, AccountExists
  <1>2. ASSUME NEW o \in Ops, NEW u \in Users, NEW a \in Accounts, Enroll(o, u, a) PROVE Quiet
    <2>1. account[a] = NoCredit /\ ~AccountExists(a)
      BY <1>2 DEF Enroll, ClosedAccountsKeepNothing, AccountExists
    <2>2. account' = account
      BY <1>2, <2>1 DEF Enroll, TypeOK
    <2>3. \A c \in Accounts : AccountExists(c)' <=> AccountExists(c) \/ c = a
      BY <1>2 DEF Enroll, TypeOK, AccountExists
    <2>4. \A x \in Ops : operation[x] # "unused" => operation'[x] = operation[x]
      BY <1>2 DEF Enroll, Consume, Fresh, TypeOK
    <2> QED
      BY <1>2, <2>1, <2>2, <2>3, <2>4 DEF Enroll, Quiet
  <1>3. ASSUME NEW o \in Ops, NEW u \in Users, NEW a \in Accounts, Depart(o, u, a) PROVE Quiet
    <2>1. \A c \in Accounts : AccountExists(c)' <=> AccountExists(c)
      BY <1>3 DEF Depart, TypeOK, AccountExists, EnrolledAs
    <2>2. \A x \in Ops : operation[x] # "unused" => operation'[x] = operation[x]
      BY <1>3 DEF Depart, Consume, Fresh, TypeOK
    <2> QED
      BY <1>3, <2>1, <2>2 DEF Depart, Quiet
  <1>4. ASSUME NEW o \in Ops, RefusedStep(o) PROVE Quiet
    <2>1. UNCHANGED <<enrollment, account, ledger, claims, bet, revisions>>
      BY <1>4 DEF RefusedStep, RefuseEnroll, RefuseClaim, RefusePlace, RefuseSettle,
                  RefuseAdjust, Deny
    <2>2. \A x \in Ops : operation[x] # "unused" => operation'[x] = operation[x]
      BY <1>4 DEF RefusedStep, RefuseEnroll, RefuseClaim, RefusePlace, RefuseSettle,
                  RefuseAdjust, Deny, Consume, Fresh, TypeOK
    <2> QED
      BY <2>1, <2>2 DEF Quiet, AccountExists
  <1>5. ASSUME NEW g \in Games, NEW c \in Feed, NEW t \in Starts, GameRevised(g, c, t)
        PROVE  Quiet
    <2>1. \A h \in Games : revisions[h] \in Seq(Revisions)
      BY DEF TypeOK
    <2>2. PICK x : revisions' = [revisions EXCEPT ![g] = Append(@, x)]
      BY <1>5 DEF GameRevised
    <2>3. \A h \in Games : \A i \in 1..Len(revisions[h]) :
            i \in 1..Len(revisions'[h]) /\ revisions'[h][i] = revisions[h][i]
      <3> SUFFICES ASSUME NEW h \in Games, NEW i \in 1..Len(revisions[h])
                   PROVE  i \in 1..Len(revisions'[h]) /\ revisions'[h][i] = revisions[h][i]
        OBVIOUS
      <3>1. CASE h = g
        <4>1. revisions'[h] = Append(revisions[h], x)
          BY <2>2, <3>1 DEF TypeOK
        <4>2. /\ Len(Append(revisions[h], x)) = Len(revisions[h]) + 1
              /\ Append(revisions[h], x)[i] = revisions[h][i]
          BY <2>1
        <4> QED
          BY <2>1, <4>1, <4>2
      <3>2. CASE h # g
        BY <2>2, <3>2 DEF TypeOK
      <3> QED
        BY <3>1, <3>2
    <2>4. UNCHANGED <<enrollment, account, ledger, claims, bet, operation>>
      BY <1>5 DEF GameRevised
    <2> QED
      BY <2>3, <2>4 DEF Quiet, AccountExists
  <1>6. ASSUME Tick \/ (\E u \in Users : Register(u))
                    \/ (\E a \in Disputed : Hold(a) \/ Release(a))
        PROVE  Quiet
    BY <1>6 DEF Tick, Register, Hold, Release, Quiet, AccountExists
  <1>7. MaxRevision \in Nat
    BY LedgerConstants
  <1>8. ASSUME NEW o \in Ops, SettlementStep(o)
        PROVE  \E b \in Ops, r \in Nat : Settle(o, b, r)
    BY <1>7, <1>8 DEF SettlementStep
  <1> QED
    BY <1>1, <1>2, <1>3, <1>4, <1>5, <1>6, <1>8
       DEF Next, Environment, MemberStep, AdministratorStep

-----------------------------------------------------------------------------
\* What a posting books.

\* A sequence with one more element.
LEMMA Appended ==
  ASSUME NEW T, NEW s \in Seq(T), NEW e \in T
  PROVE  /\ Append(s, e) \in Seq(T)
         /\ Len(s) \in Nat
         /\ DOMAIN s = 1..Len(s)
         /\ Len(Append(s, e)) = Len(s) + 1
         /\ DOMAIN Append(s, e) = DOMAIN s \cup {Len(s) + 1}
         /\ Append(s, e)[Len(s) + 1] = e
         /\ Append(s, e)[Len(Append(s, e))] = e
         /\ Append(s, e) # <<>>
         /\ Len(s) + 1 \notin DOMAIN s
         /\ \A i \in DOMAIN s : Append(s, e)[i] = s[i]
  <1>1. /\ Append(s, e) \in Seq(T)
        /\ Len(s) \in Nat
        /\ DOMAIN s = 1..Len(s)
        /\ Len(Append(s, e)) = Len(s) + 1
        /\ DOMAIN Append(s, e) = 1..(Len(s) + 1)
        /\ Append(s, e)[Len(s) + 1] = e
        /\ \A i \in 1..Len(s) : Append(s, e)[i] = s[i]
    OBVIOUS
  <1> QED
    BY <1>1

\* What an account is worth.
Worth(a) == account[a].available - account[a].debt

\* The step adds the entry e to the ledger of a, and what it amounts to to the account.
Adds(a, e) ==
  /\ ledger' = [ledger EXCEPT ![a] = Append(@, e)]
  /\ Worth(a)' = Worth(a) + NetOf(e)
  /\ \A c \in Accounts \ {a} : account'[c] = account[c]

\* The step books an amount for the operation o.
Books(a, o, reason, amount) ==
  \E e \in Entries : /\ e.op = o /\ e.reason = reason /\ NetOf(e) = amount
                     /\ Adds(a, e)

\* A posting books the difference it makes to the account's worth.
LEMMA PostBooks ==
  ASSUME TypeOK, NEW a \in Accounts, NEW o \in Ops, NEW reason \in Reasons,
         NEW delta \in [available : Int, debt : Int],
         account[a].available + delta.available \in Nat,
         account[a].debt + delta.debt \in Nat,
         Post(a, o, reason, delta)
  PROVE  Books(a, o, reason, delta.available - delta.debt)
  <1> DEFINE before == [available |-> account[a].available, debt |-> account[a].debt]
             after == [available |-> before.available + delta.available,
                       debt |-> before.debt + delta.debt]
             entry == [reason |-> reason, op |-> o, at |-> now,
                       before |-> before, after |-> after]
  <1>1. account[a] \in Credits /\ now \in Nat
    BY DEF TypeOK
  <1>2. before \in Balances /\ after \in Balances
    BY <1>1 DEF Balances, Credits
  <1>3. entry \in Entries /\ entry.op = o /\ entry.reason = reason
    BY <1>1, <1>2 DEF Entries
  <1>4. NetOf(entry) = delta.available - delta.debt
    BY <1>1 DEF NetOf, Credits
  <1>5. ledger' = [ledger EXCEPT ![a] = Append(@, entry)]
    BY DEF Post
  <1>6. account'[a].available = after.available /\ account'[a].debt = after.debt
    BY DEF Post, TypeOK
  <1>7. Worth(a)' = Worth(a) + (delta.available - delta.debt)
    BY <1>1, <1>6 DEF Worth, Credits
  <1>8. \A c \in Accounts \ {a} : account'[c] = account[c]
    BY DEF Post, TypeOK
  <1> HIDE DEF entry
  <1> QED
    BY <1>3, <1>4, <1>5, <1>7, <1>8 DEF Books, Adds

\* A claim books the daily credit.
LEMMA ClaimBooks ==
  ASSUME TypeOK, NEW o \in Ops, NEW u \in Users, NEW a \in Accounts, Claim(o, u, a)
  PROVE  Books(a, o, "daily_claim", DailyCredit)
  <1>1. PICK delta : delta = AllocateDailyCredit(account[a].debt)
    OBVIOUS
  <1>2. account[a] \in Credits
    BY DEF TypeOK
  <1>3. /\ delta \in [available : Int, debt : Int]
        /\ account[a].available + delta.available \in Nat
        /\ account[a].debt + delta.debt \in Nat
        /\ delta.available - delta.debt = DailyCredit
    BY <1>1, <1>2, DailyCreditSplit DEF Credits
  <1>4. Post(a, o, "daily_claim", delta)
    BY <1>1 DEF Claim
  <1>5. Books(a, o, "daily_claim", delta.available - delta.debt)
    BY <1>3, <1>4, PostBooks DEF Reasons
  <1> QED
    BY <1>3, <1>5

\* A bet books its stake.
LEMMA PlaceBooks ==
  ASSUME TypeOK, NEW o \in Ops, NEW u \in Users, NEW a \in Accounts, NEW g \in Games,
         NEW p \in BetPredictions, NEW s \in Stakes, Place(o, u, a, g, p, s)
  PROVE  Books(a, o, "bet_stake", -s)
  <1>1. PICK delta : delta = [available |-> -s, debt |-> 0]
    OBVIOUS
  <1>2. account[a] \in Credits /\ s \in Nat /\ s <= account[a].available
    BY RuleConstants DEF TypeOK, Place, PlacementAllowed, PlacementAccepted, Stakes
  <1>3. /\ delta \in [available : Int, debt : Int]
        /\ account[a].available + delta.available \in Nat
        /\ account[a].debt + delta.debt \in Nat
        /\ delta.available - delta.debt = -s
    BY <1>1, <1>2 DEF Credits
  <1>4. Post(a, o, "bet_stake", delta)
    BY <1>1 DEF Place
  <1>5. Books(a, o, "bet_stake", delta.available - delta.debt)
    BY <1>3, <1>4, PostBooks DEF Reasons
  <1> QED
    BY <1>3, <1>5

\* An adjustment books its amount.
LEMMA AdjustBooks ==
  ASSUME TypeOK, NEW o \in Ops, NEW admin \in Administrators, NEW a \in Accounts,
         NEW v \in Versions, NEW d \in Adjustments, Adjust(o, admin, a, v, d)
  PROVE  Books(a, o, "admin_adjustment", d)
  <1>1. PICK delta : delta = [available |-> d, debt |-> 0]
    OBVIOUS
  <1>2. account[a] \in Credits /\ d \in Int /\ account[a].available + d >= 0
    BY LedgerConstants DEF TypeOK, Adjust, AdjustmentAllowed
  <1>3. /\ delta \in [available : Int, debt : Int]
        /\ account[a].available + delta.available \in Nat
        /\ account[a].debt + delta.debt \in Nat
        /\ delta.available - delta.debt = d
    BY <1>1, <1>2 DEF Credits
  <1>4. Post(a, o, "admin_adjustment", delta)
    BY <1>1 DEF Adjust
  <1>5. Books(a, o, "admin_adjustment", delta.available - delta.debt)
    BY <1>3, <1>4, PostBooks DEF Reasons
  <1> QED
    BY <1>3, <1>5

\* What a settlement adds to a bet: the official result of its game, and what it
\* returns beyond the settlement it supersedes.
NewSettlement(o, b, r) ==
  LET result == ResultOf(bet[b].prediction, CurrentGame(bet[b].game))
      returned == ReturnOf(bet[b].stake, result)
  IN  [op |-> o, revision |-> r, result |-> result, returned |-> returned,
       applied |-> returned - LastReturn(bet[b].settlements)]

\* The bet once it is settled.
SettledRow(row, x) ==
  [row EXCEPT !.status = IF x.result = "void" THEN "void" ELSE "settled",
              !.settlements = Append(row.settlements, x)]

\* A settlement step appends its settlement to the bet, and books what it applies
\* unless that is nothing.
LEMMA SettleBooks ==
  ASSUME TypeOK, NEW o \in Ops, NEW b \in Ops, NEW r \in Nat, Settle(o, b, r),
         NEW x, x = NewSettlement(o, b, r)
  PROVE  /\ bet[b] \in Bets /\ bet[b] # NoBet
         /\ x \in Settlements /\ x.op = o /\ x.revision = r
         /\ x.result = ResultOf(bet[b].prediction, CurrentGame(bet[b].game))
         /\ x.returned = ReturnOf(bet[b].stake, x.result)
         /\ x.applied = x.returned - LastReturn(bet[b].settlements)
         /\ bet' = [bet EXCEPT ![b] = SettledRow(bet[b], x)]
         /\ \/ x.applied = 0 /\ UNCHANGED <<account, ledger>>
            \/ /\ x.applied # 0
               /\ \E reason \in Reasons \ {"admin_adjustment"} :
                    Books(bet[b].account, o, reason, x.applied)
  <1> DEFINE row      == bet[b]
             a        == row.account
             result   == ResultOf(row.prediction, CurrentGame(row.game))
             returned == ReturnOf(row.stake, result)
             applied  == returned - LastReturn(row.settlements)
             delta    == AllocateSettlementDelta(account[a].available, account[a].debt,
                                                 applied, row.settlements = <<>> /\ result = "void")
             status   == IF result = "void" THEN "void" ELSE "settled"
  <1>1. /\ row \in Bets /\ a \in Accounts /\ result \in Results /\ returned \in Nat
        /\ applied \in Int
        /\ delta \in [available : Int, debt : Int]
        /\ account[a].available + delta.available \in Nat
        /\ account[a].debt + delta.debt \in Nat
        /\ delta.available - delta.debt = applied
        /\ \/ applied = 0 /\ UNCHANGED <<account, ledger>>
           \/ /\ applied # 0
              /\ \E reason \in {"bet_void_refund", "bet_payout", "settlement_correction"} :
                   Post(a, o, reason, delta)
        /\ bet' = [bet EXCEPT ![b].status = status,
                              ![b].settlements = Append(@, [op |-> o, revision |-> r,
                                result |-> result, returned |-> returned, applied |-> applied])]
    BY SettleStep
  <1>2. x = [op |-> o, revision |-> r, result |-> result, returned |-> returned,
             applied |-> applied]
    BY DEF NewSettlement
  <1>3. row # NoBet
    BY DEF Settle, SettlementAllowed
  <1> HIDE DEF result, returned, applied, delta, row
  <1>4. x \in Settlements /\ x.op = o /\ x.revision = r /\ x.result = result
          /\ x.returned = returned /\ x.applied = applied
    BY <1>1, <1>2 DEF Settlements
  <1>5. ASSUME NEW reason \in {"bet_void_refund", "bet_payout", "settlement_correction"},
               Post(a, o, reason, delta)
        PROVE  reason \in Reasons \ {"admin_adjustment"} /\ Books(a, o, reason, applied)
    <2>1. reason \in Reasons \ {"admin_adjustment"}
      BY DEF Reasons
    <2>2. Books(a, o, reason, delta.available - delta.debt)
      BY <1>1, <1>5, <2>1, PostBooks
    <2> QED
      BY <1>1, <2>1, <2>2
  <1>6. bet' = [bet EXCEPT ![b] = SettledRow(row, x)]
    BY <1>1, <1>2, <1>4 DEF row, SettledRow
  <1>7. \/ x.applied = 0 /\ UNCHANGED <<account, ledger>>
        \/ /\ x.applied # 0
           /\ \E reason \in Reasons \ {"admin_adjustment"} : Books(a, o, reason, x.applied)
    BY <1>1, <1>4, <1>5
  <1>8. result = ResultOf(row.prediction, CurrentGame(row.game))
          /\ returned = ReturnOf(row.stake, result)
          /\ applied = returned - LastReturn(row.settlements)
    BY DEF result, returned, applied
  <1>9. row = bet[b]
    BY DEF row
  <1> QED
    BY <1>1, <1>3, <1>4, <1>6, <1>7, <1>8, <1>9

-----------------------------------------------------------------------------
\* Settlements follow the game.

\* What the settlements before the i-th one came to.
LEMMA BeforeSettlement ==
  ASSUME NEW s \in Seq(Settlements), NEW i \in DOMAIN s
  PROVE  /\ LastReturn(SubSeq(s, 1, i - 1)) = IF i = 1 THEN 0 ELSE s[i - 1].returned
         /\ LastRevision(SubSeq(s, 1, i - 1)) = IF i = 1 THEN 0 ELSE s[i - 1].revision
  <1>1. i \in 1..Len(s) /\ Len(s) \in Nat
    OBVIOUS
  <1>2. CASE i = 1
    <2>1. SubSeq(s, 1, i - 1) = <<>>
      BY <1>2
    <2> QED
      BY <1>2, <2>1 DEF LastReturn, LastRevision
  <1>3. CASE i # 1
    <2>1. i - 1 \in 1..Len(s)
      BY <1>1, <1>3
    <2>2. /\ Len(SubSeq(s, 1, i - 1)) = i - 1
          /\ SubSeq(s, 1, i - 1)[i - 1] = s[i - 1]
          /\ SubSeq(s, 1, i - 1) # <<>>
      BY <1>1, <2>1
    <2> QED
      BY <1>3, <2>2 DEF LastReturn, LastRevision
  <1> QED
    BY <1>2, <1>3

\* What the last settlement came to.
LEMMA LastOf ==
  ASSUME NEW s \in Seq(Settlements)
  PROVE  /\ s # <<>> => /\ Len(s) \in DOMAIN s
                        /\ LastReturn(s) = s[Len(s)].returned
                        /\ LastRevision(s) = s[Len(s)].revision
         /\ s = <<>> => LastReturn(s) = 0 /\ LastRevision(s) = 0 /\ DOMAIN s = {}
  BY DEF LastReturn, LastRevision

\* SettlementChain for the settlement s of a bet on a game, after one that returned
\* returned on revision revision.
Follows(row, game, s, returned, revision) ==
  /\ revision < s.revision
  /\ s.revision <= Len(game)
  /\ Terminal(game[s.revision])
  /\ s.result = ResultOf(row.prediction, game[s.revision])
  /\ s.returned = ReturnOf(row.stake, s.result)
  /\ s.applied = s.returned - returned

StatusOf(chain) ==
  IF chain = <<>> THEN "pending"
  ELSE IF chain[Len(chain)].result = "void" THEN "void" ELSE "settled"

\* SettlementChain for one bet.
Chained(row, game) ==
  /\ \A i \in DOMAIN row.settlements :
       Follows(row, game, row.settlements[i],
               IF i = 1 THEN 0 ELSE row.settlements[i - 1].returned,
               IF i = 1 THEN 0 ELSE row.settlements[i - 1].revision)
  /\ row.status = StatusOf(row.settlements)

Chains == \A b \in Ops : bet[b] # NoBet => Chained(bet[b], revisions[bet[b].game])

\* The chain in terms of neighbours.
LEMMA ChainByNeighbours == TypeOK => (SettlementChain <=> Chains)
  <1> SUFFICES ASSUME TypeOK PROVE SettlementChain <=> Chains
    OBVIOUS
  <1>1. \A b \in Ops : bet[b] # NoBet => bet[b].settlements \in Seq(Settlements)
    BY DEF TypeOK, Bets
  <1>2. ASSUME NEW b \in Ops, bet[b] # NoBet, NEW i \in DOMAIN bet[b].settlements
        PROVE  /\ LastReturn(SubSeq(bet[b].settlements, 1, i - 1))
                    = IF i = 1 THEN 0 ELSE bet[b].settlements[i - 1].returned
               /\ LastRevision(SubSeq(bet[b].settlements, 1, i - 1))
                    = IF i = 1 THEN 0 ELSE bet[b].settlements[i - 1].revision
    BY <1>1, <1>2, BeforeSettlement
  <1> QED
    BY <1>2 DEF SettlementChain, Chains, Chained, Follows, StatusOf

\* More revisions of the game leave a chain as it is.
LEMMA ChainedLater ==
  ASSUME NEW row \in Bets, NEW game \in Seq(Revisions), NEW later \in Seq(Revisions),
         Chained(row, game),
         \A i \in 1..Len(game) : i \in 1..Len(later) /\ later[i] = game[i]
  PROVE  Chained(row, later)
  <1>1. row.settlements \in Seq(Settlements)
    BY DEF Bets
  <1> SUFFICES ASSUME NEW i \in DOMAIN row.settlements
               PROVE  Follows(row, later, row.settlements[i],
                              IF i = 1 THEN 0 ELSE row.settlements[i - 1].returned,
                              IF i = 1 THEN 0 ELSE row.settlements[i - 1].revision)
    BY DEF Chained
  <1>2. Follows(row, game, row.settlements[i],
                IF i = 1 THEN 0 ELSE row.settlements[i - 1].returned,
                IF i = 1 THEN 0 ELSE row.settlements[i - 1].revision)
    BY DEF Chained
  <1>3. row.settlements[i].revision \in Nat /\ (i # 1 => row.settlements[i - 1].revision \in Nat)
    <2>1. row.settlements[i] \in Settlements /\ (i # 1 => i - 1 \in DOMAIN row.settlements)
      BY <1>1
    <2>2. i # 1 => row.settlements[i - 1] \in Settlements
      BY <1>1, <2>1
    <2> QED
      BY <2>1, <2>2 DEF Settlements
  <1>4. row.settlements[i].revision \in 1..Len(game)
    <2>1. Len(game) \in Nat
      OBVIOUS
    <2> QED
      BY <1>2, <1>3, <2>1 DEF Follows
  <1>5. row.settlements[i].revision \in 1..Len(later)
          /\ later[row.settlements[i].revision] = game[row.settlements[i].revision]
    BY <1>4
  <1>6. row.settlements[i].revision <= Len(later)
    BY <1>5
  <1> QED
    BY <1>2, <1>5, <1>6 DEF Follows

\* A settlement extends the chain of its bet.
LEMMA ChainedSettle ==
  ASSUME NEW row \in Bets, NEW game \in Seq(Revisions), Chained(row, game),
         NEW x \in Settlements,
         Follows(row, game, x, LastReturn(row.settlements), LastRevision(row.settlements)),
         NEW new, new = SettledRow(row, x)
  PROVE  Chained(new, game)
  <1> DEFINE s == row.settlements
             t == Append(s, x)
  <1>1. s \in Seq(Settlements)
    BY DEF Bets
  <1>2. /\ t \in Seq(Settlements) /\ t # <<>> /\ t[Len(t)] = x
        /\ Len(s) \in Nat /\ DOMAIN s = 1..Len(s)
        /\ DOMAIN t = DOMAIN s \cup {Len(s) + 1}
        /\ t[Len(s) + 1] = x
        /\ \A i \in DOMAIN s : t[i] = s[i]
    BY <1>1, Appended
  <1>3. new.settlements = t /\ new.prediction = row.prediction /\ new.stake = row.stake
          /\ new.status = IF x.result = "void" THEN "void" ELSE "settled"
    BY DEF Bets, SettledRow
  <1>4. /\ s # <<>> => Len(s) \in DOMAIN s /\ LastReturn(s) = s[Len(s)].returned
                         /\ LastRevision(s) = s[Len(s)].revision
        /\ s = <<>> => LastReturn(s) = 0 /\ LastRevision(s) = 0 /\ Len(s) = 0
    BY <1>1, LastOf
  <1>5. s # <<>> => Len(s) # 0
    BY <1>1
  <1> HIDE DEF s, t
  <1>6. ASSUME NEW i \in DOMAIN t
        PROVE  Follows(new, game, t[i], IF i = 1 THEN 0 ELSE t[i - 1].returned,
                       IF i = 1 THEN 0 ELSE t[i - 1].revision)
    <2>1. CASE i \in DOMAIN s
      <3>1. Follows(row, game, s[i], IF i = 1 THEN 0 ELSE s[i - 1].returned,
                    IF i = 1 THEN 0 ELSE s[i - 1].revision)
        BY <2>1 DEF Chained, s
      <3>2. i # 1 => i - 1 \in DOMAIN s
        BY <1>2, <2>1
      <3> QED
        BY <1>2, <1>3, <2>1, <3>1, <3>2 DEF Follows
    <2>2. CASE i = Len(s) + 1
      <3>1. Follows(row, game, x, LastReturn(s), LastRevision(s))
        BY DEF s
      <3>2. CASE s = <<>>
        BY <1>2, <1>3, <1>4, <2>2, <3>1, <3>2 DEF Follows
      <3>3. CASE s # <<>>
        <4>1. i # 1 /\ i - 1 = Len(s) /\ t[i - 1] = s[Len(s)]
          BY <1>2, <1>4, <1>5, <2>2, <3>3
        <4> QED
          BY <1>2, <1>3, <1>4, <2>2, <3>1, <3>3, <4>1 DEF Follows
      <3> QED
        BY <3>2, <3>3
    <2> QED
      BY <1>2, <2>1, <2>2
  <1>7. new.status = StatusOf(new.settlements)
    BY <1>2, <1>3 DEF StatusOf
  <1>8. \A i \in DOMAIN new.settlements :
          Follows(new, game, new.settlements[i],
                  IF i = 1 THEN 0 ELSE new.settlements[i - 1].returned,
                  IF i = 1 THEN 0 ELSE new.settlements[i - 1].revision)
    BY <1>3, <1>6
  <1> QED
    BY <1>7, <1>8 DEF Chained

\* There are no settlements at the start.
LEMMA InitChain == Init => SettlementChain
  BY DEF Init, SettlementChain

\* Every settlement is the official result of the game at its revision, whatever the
\* feed publishes before and after it.
LEMMA StepChain ==
  TypeOK /\ ClosedAccountsKeepNothing /\ SettlementChain /\ [Next]_vars => SettlementChain'
  <1> SUFFICES ASSUME TypeOK, ClosedAccountsKeepNothing, SettlementChain, [Next]_vars
               PROVE  SettlementChain'
    OBVIOUS
  <1>1. TypeOK' /\ TypeOK
    BY StepType
  <1>2. \A b \in Ops : bet[b] # NoBet => Chained(bet[b], revisions[bet[b].game])
    BY ChainByNeighbours DEF Chains
  <1> DEFINE Good == \A b \in Ops : bet'[b] # NoBet => Chained(bet'[b], revisions'[bet'[b].game])
  <1>3. \A b \in Ops : bet[b] # NoBet => bet[b] \in Bets /\ bet[b].game \in Games
                                          /\ revisions[bet[b].game] \in Seq(Revisions)
    BY DEF TypeOK, Bets
  <1>4. ASSUME Quiet PROVE Good
    <2> SUFFICES ASSUME NEW b \in Ops, bet'[b] # NoBet
                 PROVE  Chained(bet'[b], revisions'[bet'[b].game])
      OBVIOUS
    <2>1. bet'[b] = bet[b]
      BY <1>4 DEF Quiet
    <2>2. revisions'[bet[b].game] \in Seq(Revisions)
      BY <1>1, <1>3, <2>1 DEF TypeOK
    <2>3. PICK row, game, later : /\ row = bet[b] /\ game = revisions[bet[b].game]
                                  /\ later = revisions'[bet[b].game]
      OBVIOUS
    <2>4. \A i \in 1..Len(game) : i \in 1..Len(later) /\ later[i] = game[i]
      BY <1>3, <1>4, <2>1, <2>3 DEF Quiet
    <2>5. Chained(row, later)
      BY <1>2, <1>3, <2>1, <2>2, <2>3, <2>4, ChainedLater
    <2> QED
      BY <2>1, <2>3, <2>5
  <1>5. ASSUME UNCHANGED <<bet, revisions>> PROVE Good
    BY <1>2, <1>5
  <1>6. ASSUME NEW o \in Ops, NEW u \in Users, NEW a \in Accounts, NEW g \in Games,
               NEW p \in BetPredictions, NEW s \in Stakes, Place(o, u, a, g, p, s)
        PROVE  Good
    <2> SUFFICES ASSUME NEW b \in Ops, bet'[b] # NoBet
                 PROVE  Chained(bet'[b], revisions'[bet'[b].game])
      OBVIOUS
    <2>1. revisions' = revisions
      BY <1>6 DEF Place
    <2>2. CASE b = o
      <3>1. bet'[b].settlements = <<>> /\ bet'[b].status = "pending"
        BY <1>6, <2>2 DEF Place, TypeOK
      <3> QED
        BY <3>1 DEF Chained, StatusOf
    <2>3. CASE b # o
      <3>1. bet'[b] = bet[b]
        BY <1>6, <2>3 DEF Place, TypeOK
      <3> QED
        BY <1>2, <2>1, <3>1
    <2> QED
      BY <2>2, <2>3
  <1>7. ASSUME NEW o \in Ops, NEW b \in Ops, NEW r \in Nat, Settle(o, b, r) PROVE Good
    <2>1. PICK x : x = NewSettlement(o, b, r)
      OBVIOUS
    <2>2. /\ bet[b] \in Bets /\ bet[b] # NoBet
          /\ x \in Settlements /\ x.op = o /\ x.revision = r
          /\ x.result = ResultOf(bet[b].prediction, CurrentGame(bet[b].game))
          /\ x.returned = ReturnOf(bet[b].stake, x.result)
          /\ x.applied = x.returned - LastReturn(bet[b].settlements)
          /\ bet' = [bet EXCEPT ![b] = SettledRow(bet[b], x)]
      BY <1>7, <2>1, SettleBooks
    <2>3. PICK row, game : row = bet[b] /\ game = revisions[bet[b].game]
      OBVIOUS
    <2>4. /\ r = Len(game) /\ LastRevision(row.settlements) < r /\ Terminal(game[r])
          /\ CurrentGame(bet[b].game) = game[r]
      BY <1>7, <2>3 DEF Settle, SettlementAllowed, CurrentRevision, CurrentGame
    <2>5. Follows(row, game, x, LastReturn(row.settlements), LastRevision(row.settlements))
      BY <2>2, <2>3, <2>4 DEF Follows
    <2>6. PICK new : new = SettledRow(row, x)
      OBVIOUS
    <2>7. Chained(new, game)
      BY <1>2, <1>3, <2>2, <2>3, <2>5, <2>6, ChainedSettle
    <2>8. bet' = [bet EXCEPT ![b] = new] /\ new.game = row.game
      BY <2>2, <2>3, <2>6 DEF Bets, SettledRow
    <2>9. revisions' = revisions
      BY <1>7 DEF Settle
    <2> SUFFICES ASSUME NEW c \in Ops, bet'[c] # NoBet
                 PROVE  Chained(bet'[c], revisions'[bet'[c].game])
      OBVIOUS
    <2>10. CASE c = b
      <3>1. bet'[c] = new
        BY <2>8, <2>10 DEF TypeOK
      <3> QED
        BY <2>3, <2>7, <2>8, <2>9, <3>1
    <2>11. CASE c # b
      <3>1. bet'[c] = bet[c]
        BY <2>8, <2>11 DEF TypeOK
      <3> QED
        BY <1>2, <2>9, <3>1
    <2> QED
      BY <2>10, <2>11
  <1>8. ASSUME NEW S \in SUBSET Accounts, Purge(S) PROVE Good
    <2>1. revisions' = revisions /\ \A b \in Ops : bet'[b] # NoBet => bet'[b] = bet[b]
      BY <1>8 DEF Purge
    <2> QED
      BY <1>2, <2>1
  <1>9. ASSUME NEW o \in Ops, NEW u \in Users, NEW a \in Accounts, Claim(o, u, a) PROVE Good
    BY <1>5, <1>9 DEF Claim
  <1>10. ASSUME NEW o \in Ops, NEW admin \in Administrators, NEW a \in Accounts,
                NEW v \in Versions, NEW d \in Adjustments, Adjust(o, admin, a, v, d)
         PROVE  Good
    BY <1>5, <1>10 DEF Adjust
  <1> HIDE DEF Good
  <1>11. Good
    BY <1>4, <1>6, <1>7, <1>8, <1>9, <1>10, StepKinds
  <1>12. Chains'
    BY <1>11 DEF Good, Chains
  <1>13. TypeOK' => (SettlementChain' <=> Chains')
    BY ChainByNeighbours, PTL
  <1> QED
    BY <1>1, <1>12, <1>13

\* Settlements follow the game, for any games, revisions and bets.
THEOREM SettlementChainTheorem == Spec => []SettlementChain
  <1> DEFINE IInv == TypeOK /\ ClosedAccountsKeepNothing /\ SettlementChain
  <1>1. Init => IInv
    BY InitType, InitClosed, InitChain
  <1>2. IInv /\ [Next]_vars => IInv'
    BY StepType, StepClosed, StepChain
  <1> QED
    BY <1>1, <1>2, PTL DEF Spec

-----------------------------------------------------------------------------
\* One effect per operation.

\* The operation o is named by a row of the account a.
Names(a, o) ==
  \/ \E i \in DOMAIN ledger[a] : ledger[a][i].op = o
  \/ o \in BetsOf(a)
  \/ \E b \in BetsOf(a) : \E i \in DOMAIN bet[b].settlements : bet[b].settlements[i].op = o

\* The operations of an account are those its rows name.
LEMMA OpsOfNames == \A a, o : o \in OpsOf(a) <=> Names(a, o)
  BY DEF OpsOf, Names

OneEffect ==
  /\ \A a \in Accounts : \A i, j \in DOMAIN ledger[a] :
       ledger[a][i].op = ledger[a][j].op => i = j
  /\ \A a, c \in Accounts : \A o : Names(a, o) /\ Names(c, o) => a = c
  /\ \A a \in Accounts : \A o : Names(a, o) => operation[o] = "accepted"

\* The property in terms of names.
LEMMA OneEffectByNames == OneEffectPerOperation <=> OneEffect
  BY OpsOfNames DEF OneEffectPerOperation, OneEffect

\* Rows name operations.
LEMMA NamesOps == ASSUME TypeOK, NEW a \in Accounts, NEW o, Names(a, o) PROVE o \in Ops
  <1>1. ASSUME NEW i \in DOMAIN ledger[a] PROVE ledger[a][i].op \in Ops
    <2>1. ledger[a] \in Seq(Entries)
      BY DEF TypeOK
    <2>2. ledger[a][i] \in Entries
      BY <2>1
    <2> QED
      BY <2>2 DEF Entries
  <1>2. ASSUME NEW b \in BetsOf(a), NEW i \in DOMAIN bet[b].settlements
        PROVE  bet[b].settlements[i].op \in Ops
    <2>1. bet[b].settlements \in Seq(Settlements)
      BY DEF BetsOf, TypeOK, Bets
    <2>2. bet[b].settlements[i] \in Settlements
      BY <2>1
    <2> QED
      BY <2>2 DEF Settlements
  <1> QED
    BY <1>1, <1>2 DEF Names, BetsOf

\* An operation that was not used has no effect yet.
LEMMA FreshNamesNothing ==
  ASSUME OneEffect, NEW o \in Ops, Fresh(o)
  PROVE  /\ \A a \in Accounts : ~Names(a, o)
         /\ TypeOK => bet[o] = NoBet
  <1>1. \A a \in Accounts : ~Names(a, o)
    BY DEF OneEffect, Fresh
  <1>2. ASSUME TypeOK, bet[o] # NoBet PROVE FALSE
    <2>1. bet[o].account \in Accounts
      BY <1>2 DEF TypeOK, Bets
    <2>2. Names(bet[o].account, o)
      BY <1>2 DEF Names, BetsOf
    <2> QED
      BY <1>1, <2>1, <2>2
  <1> QED
    BY <1>1, <1>2

\* A step whose new rows all name its own fresh operation, in one account, where it
\* makes at most one ledger entry.
LEMMA OneEffectKept ==
  ASSUME TypeOK, OneEffect, NEW o \in Ops, NEW a \in Accounts, Consume(o, "accepted"),
         \/ ledger' = ledger
         \/ \E e \in Entries : e.op = o /\ ledger' = [ledger EXCEPT ![a] = Append(@, e)],
         \A c \in Accounts : \A x : Names(c, x)' => Names(c, x) \/ (c = a /\ x = o)
  PROVE  OneEffect'
  <1>1. Fresh(o) /\ operation' = [operation EXCEPT ![o] = "accepted"]
    BY DEF Consume
  <1>2. \A c \in Accounts : ~Names(c, o)
    BY <1>1, FreshNamesNothing
  <1>3. \A c, d \in Accounts : \A x : Names(c, x)' /\ Names(d, x)' => c = d
    BY <1>2 DEF OneEffect
  <1>4. ASSUME NEW c \in Accounts, NEW x, Names(c, x)' PROVE operation'[x] = "accepted"
    <2>1. CASE Names(c, x)
      <3>1. operation[x] = "accepted" /\ x # o
        BY <1>2, <2>1 DEF OneEffect
      <3> QED
        BY <1>1, <3>1 DEF TypeOK
    <2>2. CASE x = o
      BY <1>1, <2>2 DEF TypeOK
    <2> QED
      BY <1>4, <2>1, <2>2
  <1>5. ASSUME NEW c \in Accounts
        PROVE  \A i, j \in DOMAIN ledger'[c] : ledger'[c][i].op = ledger'[c][j].op => i = j
    <2>1. \A i, j \in DOMAIN ledger[c] : ledger[c][i].op = ledger[c][j].op => i = j
      BY DEF OneEffect
    <2>2. CASE ledger'[c] = ledger[c]
      BY <2>1, <2>2
    <2>3. ASSUME NEW e \in Entries, e.op = o, c = a, ledger'[c] = Append(ledger[c], e)
          PROVE  \A i, j \in DOMAIN ledger'[c] : ledger'[c][i].op = ledger'[c][j].op => i = j
      <3> DEFINE s == ledger[c]
                 t == Append(s, e)
      <3>1. s \in Seq(Entries)
        BY DEF TypeOK
      <3>2. /\ DOMAIN t = DOMAIN s \cup {Len(s) + 1}
            /\ t[Len(s) + 1] = e
            /\ \A i \in DOMAIN s : t[i] = s[i]
        BY <3>1, Appended
      <3>3. \A i \in DOMAIN s : s[i].op # o
        BY <1>2 DEF Names
      <3> HIDE DEF s, t
      <3>4. \A i, j \in DOMAIN t : t[i].op = t[j].op => i = j
        BY <2>1, <2>3, <3>2, <3>3 DEF s
      <3> QED
        BY <2>3, <3>4 DEF s, t
    <2>4. \/ ledger'[c] = ledger[c]
          \/ \E e \in Entries : e.op = o /\ c = a /\ ledger'[c] = Append(ledger[c], e)
      BY DEF TypeOK
    <2> QED
      BY <2>2, <2>3, <2>4
  <1> QED
    BY <1>3, <1>4, <1>5 DEF OneEffect

\* The ledger rows after a step that books for o name nothing else new.
LEMMA BooksNames ==
  ASSUME TypeOK, NEW o \in Ops, NEW a \in Accounts,
         \/ ledger' = ledger
         \/ \E e \in Entries : e.op = o /\ ledger' = [ledger EXCEPT ![a] = Append(@, e)],
         NEW c \in Accounts, NEW i \in DOMAIN ledger'[c]
  PROVE  \/ i \in DOMAIN ledger[c] /\ ledger'[c][i] = ledger[c][i]
         \/ c = a /\ ledger'[c][i].op = o
  <1>1. \/ ledger'[c] = ledger[c]
        \/ \E e \in Entries : e.op = o /\ c = a /\ ledger'[c] = Append(ledger[c], e)
    BY DEF TypeOK
  <1>2. ASSUME NEW e \in Entries, e.op = o, c = a, ledger'[c] = Append(ledger[c], e)
        PROVE  \/ i \in DOMAIN ledger[c] /\ ledger'[c][i] = ledger[c][i]
               \/ c = a /\ ledger'[c][i].op = o
    <2>1. ledger[c] \in Seq(Entries)
      BY DEF TypeOK
    <2> QED
      BY <1>2, <2>1, Appended
  <1> QED
    BY <1>1, <1>2

\* Nothing is named at the start.
LEMMA InitOneEffect == Init => OneEffect
  BY DEF Init, OneEffect, Names, BetsOf

\* Every operation that books anything is new, and a purge frees the operations of whole
\* accounts.
LEMMA StepOneEffect ==
  TypeOK /\ ClosedAccountsKeepNothing /\ OneEffect /\ [Next]_vars => OneEffect'
  <1> SUFFICES ASSUME TypeOK, ClosedAccountsKeepNothing, OneEffect, [Next]_vars
               PROVE  OneEffect'
    OBVIOUS
  <1>1. ASSUME Quiet PROVE OneEffect'
    <2>1. \A a, o : Names(a, o)' <=> Names(a, o)
      BY <1>1 DEF Quiet, Names, BetsOf
    <2>2. ASSUME NEW a \in Accounts, NEW o, Names(a, o)
          PROVE  operation'[o] = "accepted"
      <3>1. operation[o] = "accepted"
        BY <2>2 DEF OneEffect
      <3>2. o \in Ops
        BY <2>2, NamesOps
      <3> QED
        BY <1>1, <3>1, <3>2 DEF Quiet
    <2> QED
      BY <1>1, <2>1, <2>2 DEF OneEffect, Quiet
  <1>2. ASSUME NEW o \in Ops, NEW a \in Accounts, NEW reason, NEW amount,
               Consume(o, "accepted"), Books(a, o, reason, amount), bet' = bet
        PROVE  OneEffect'
    <2>1. \E e \in Entries : e.op = o /\ ledger' = [ledger EXCEPT ![a] = Append(@, e)]
      BY <1>2 DEF Books, Adds
    <2>2. \A c \in Accounts : \A x : Names(c, x)' => Names(c, x) \/ (c = a /\ x = o)
      BY <1>2, <2>1, BooksNames DEF Names, BetsOf
    <2> QED
      BY <1>2, <2>1, <2>2, OneEffectKept
  <1>3. ASSUME NEW o \in Ops, NEW u \in Users, NEW a \in Accounts, Claim(o, u, a)
        PROVE  OneEffect'
    BY <1>2, <1>3, ClaimBooks DEF Claim
  <1>4. ASSUME NEW o \in Ops, NEW admin \in Administrators, NEW a \in Accounts,
               NEW v \in Versions, NEW d \in Adjustments, Adjust(o, admin, a, v, d)
        PROVE  OneEffect'
    BY <1>2, <1>4, AdjustBooks DEF Adjust
  <1>5. ASSUME NEW o \in Ops, NEW u \in Users, NEW a \in Accounts, NEW g \in Games,
               NEW p \in BetPredictions, NEW s \in Stakes, Place(o, u, a, g, p, s)
        PROVE  OneEffect'
    <2>1. \E e \in Entries : e.op = o /\ ledger' = [ledger EXCEPT ![a] = Append(@, e)]
      BY <1>5, PlaceBooks DEF Books, Adds
    <2>2. PICK row : row.account = a /\ row.settlements = <<>> /\ bet' = [bet EXCEPT ![o] = row]
      BY <1>5 DEF Place
    <2>3. bet[o] = NoBet
      BY <1>5, FreshNamesNothing DEF Place, Consume
    <2>4. \A c \in Accounts : \A b : b \in BetsOf(c)' => b \in BetsOf(c) \/ (c = a /\ b = o)
      BY <2>2 DEF BetsOf, TypeOK
    <2>5. \A b \in Ops : bet'[b] = bet[b] \/ (b = o /\ DOMAIN bet'[b].settlements = {})
      BY <2>2 DEF TypeOK
    <2>6. \A c \in Accounts : \A x : Names(c, x)' => Names(c, x) \/ (c = a /\ x = o)
      BY <2>1, <2>3, <2>4, <2>5, BooksNames DEF Names, BetsOf
    <2> QED
      BY <1>5, <2>1, <2>6, OneEffectKept DEF Place
  <1>6. ASSUME NEW o \in Ops, NEW b \in Ops, NEW r \in Nat, Settle(o, b, r) PROVE OneEffect'
    <2>1. PICK x : x = NewSettlement(o, b, r)
      OBVIOUS
    <2>2. PICK row : row = bet[b]
      OBVIOUS
    <2>3. /\ row \in Bets /\ row # NoBet
          /\ x \in Settlements /\ x.op = o
          /\ bet' = [bet EXCEPT ![b] = SettledRow(row, x)]
          /\ \/ UNCHANGED <<account, ledger>>
             \/ \E reason \in Reasons \ {"admin_adjustment"} :
                  Books(row.account, o, reason, x.applied)
      BY <1>6, <2>1, <2>2, SettleBooks
    <2> DEFINE a == row.account
    <2>4. a \in Accounts /\ row.settlements \in Seq(Settlements)
      BY <2>3 DEF Bets
    <2>5. \/ ledger' = ledger
          \/ \E e \in Entries : e.op = o /\ ledger' = [ledger EXCEPT ![a] = Append(@, e)]
      BY <2>3 DEF Books, Adds
    <2>6. SettledRow(row, x).account = a
            /\ SettledRow(row, x).settlements = Append(row.settlements, x)
      BY <2>3 DEF SettledRow, Bets
    <2>7. SettledRow(row, x) # NoBet
      <3>1. bet' \in [Ops -> Bets \cup {NoBet}]
        BY StepType DEF TypeOK
      <3>2. SettledRow(row, x) \in Bets
        <4>1. Append(row.settlements, x) \in Seq(Settlements)
          BY <2>3, <2>4
        <4> QED
          BY <2>3, <4>1 DEF SettledRow, Bets
      <3> QED
        BY <3>2, NoBetAssumption
    <2>8. \A c \in Accounts : \A y : y \in BetsOf(c)' <=> y \in BetsOf(c)
      BY <2>2, <2>3, <2>6, <2>7 DEF BetsOf, TypeOK
    <2>9. \A y \in Ops : y # b => bet'[y] = bet[y]
      BY <2>3 DEF TypeOK
    <2>10. bet'[b] = SettledRow(row, x)
      BY <2>3 DEF TypeOK
    <2>11. \A i \in DOMAIN bet'[b].settlements :
             \/ i \in DOMAIN bet[b].settlements
                  /\ bet'[b].settlements[i].op = bet[b].settlements[i].op
             \/ bet'[b].settlements[i].op = o
      BY <2>2, <2>3, <2>4, <2>6, <2>10, Appended
    <2>12. b \in BetsOf(a) /\ \A c \in Accounts : b \in BetsOf(c) => c = a
      BY <2>2, <2>3 DEF BetsOf
    <2> HIDE DEF a
    <2>13. ASSUME NEW c \in Accounts, NEW y, Names(c, y)'
           PROVE  Names(c, y) \/ (c = a /\ y = o)
      <3>1. CASE \E i \in DOMAIN ledger'[c] : ledger'[c][i].op = y
        BY <2>4, <2>5, <3>1, BooksNames DEF Names, a
      <3>2. CASE y \in BetsOf(c)'
        BY <2>8, <3>2 DEF Names
      <3>3. ASSUME NEW z \in BetsOf(c)', NEW i \in DOMAIN bet'[z].settlements,
                   bet'[z].settlements[i].op = y
            PROVE  Names(c, y) \/ (c = a /\ y = o)
        <4>1. z \in BetsOf(c) /\ z \in Ops
          BY <2>8 DEF BetsOf
        <4>2. CASE z = b
          BY <2>11, <2>12, <3>3, <4>1, <4>2 DEF Names
        <4>3. CASE z # b
          BY <2>9, <3>3, <4>1, <4>3 DEF Names
        <4> QED
          BY <4>2, <4>3
      <3> QED
        BY <2>13, <3>1, <3>2, <3>3 DEF Names
    <2> QED
      BY <1>6, <2>4, <2>5, <2>13, OneEffectKept DEF Settle, a
  <1>7. ASSUME NEW S \in SUBSET Accounts, Purge(S) PROVE OneEffect'
    <2>1. \A c \in Accounts \ S : ledger'[c] = ledger[c] /\ BetsOf(c)' = BetsOf(c)
      BY <1>7 DEF Purge, BetsOf
    <2>2. \A c \in S : ledger'[c] = <<>> /\ BetsOf(c)' = {}
      BY <1>7 DEF Purge, BetsOf
    <2>3. \A b \in Ops : bet'[b] # NoBet => bet'[b] = bet[b]
      BY <1>7 DEF Purge
    <2>4. ASSUME NEW c \in Accounts, NEW x, Names(c, x)' PROVE c \notin S /\ Names(c, x)
      <3>1. c \notin S
        BY <2>2, <2>4 DEF Names
      <3>2. \A b \in BetsOf(c)' : bet'[b] = bet[b] /\ b \in BetsOf(c)
        BY <2>1, <2>3, <3>1 DEF BetsOf
      <3> QED
        BY <2>1, <2>4, <3>1, <3>2 DEF Names
    <2>5. ASSUME NEW c \in Accounts, NEW x, Names(c, x)' PROVE operation'[x] = "accepted"
      <3>1. operation[x] = "accepted" /\ c \notin S /\ Names(c, x)
        BY <2>4, <2>5 DEF OneEffect
      <3>2. \A a \in S : x \notin OpsOf(a)
        BY <3>1, OpsOfNames DEF OneEffect
      <3>3. x \in Ops
        BY <3>1, NamesOps
      <3> QED
        BY <1>7, <3>1, <3>2, <3>3 DEF Purge
    <2>6. \A c, d \in Accounts : \A x : Names(c, x)' /\ Names(d, x)' => c = d
      BY <2>4 DEF OneEffect
    <2>7. \A c \in Accounts : \A i, j \in DOMAIN ledger'[c] :
            ledger'[c][i].op = ledger'[c][j].op => i = j
      BY <2>1, <2>2 DEF OneEffect
    <2> QED
      BY <2>5, <2>6, <2>7 DEF OneEffect
  <1> QED
    BY <1>1, <1>3, <1>4, <1>5, <1>6, <1>7, StepKinds

\* No operation has two effects, and a purge frees exactly the operations it forgets, for
\* any number of users, accounts and operations.
THEOREM OneEffectTheorem == Spec => []OneEffectPerOperation
  <1> DEFINE IInv == TypeOK /\ ClosedAccountsKeepNothing /\ OneEffect
  <1>1. Init => IInv
    BY InitType, InitClosed, InitOneEffect
  <1>2. IInv /\ [Next]_vars => IInv'
    BY StepType, StepClosed, StepOneEffect
  <1>3. IInv => OneEffectPerOperation
    BY OneEffectByNames
  <1> QED
    BY <1>1, <1>2, <1>3, PTL DEF Spec

-----------------------------------------------------------------------------
\* Bets are booked.

Unbooked(o) == \A a \in Accounts : \A j \in DOMAIN ledger[a] : ledger[a][j].op # o

SettlementBooked(a, s) == IF s.applied = 0 THEN Unbooked(s.op) ELSE Booked(a, s.op, s.applied)

\* BetsAreBooked for one bet.
BetBooked(b, row) ==
  /\ Booked(row.account, b, -row.stake)
  /\ \A i \in DOMAIN row.settlements : SettlementBooked(row.account, row.settlements[i])

\* An entry stays booked while entries are added.
LEMMA BookedStays ==
  ASSUME TypeOK, NEW o \in Ops, NEW a \in Accounts,
         \/ ledger' = ledger
         \/ \E e \in Entries : e.op = o /\ ledger' = [ledger EXCEPT ![a] = Append(@, e)],
         NEW c \in Accounts, NEW x, NEW amount, Booked(c, x, amount)
  PROVE  Booked(c, x, amount)'
  <1>1. PICK i \in DOMAIN ledger[c] : ledger[c][i].op = x /\ NetOf(ledger[c][i]) = amount
    BY DEF Booked
  <1>2. \/ ledger'[c] = ledger[c]
        \/ \E e \in Entries : e.op = o /\ c = a /\ ledger'[c] = Append(ledger[c], e)
    BY DEF TypeOK
  <1>3. i \in DOMAIN ledger'[c] /\ ledger'[c][i] = ledger[c][i]
    <2>1. ledger[c] \in Seq(Entries)
      BY DEF TypeOK
    <2> QED
      BY <1>2, <2>1, Appended
  <1> QED
    BY <1>1, <1>3 DEF Booked

\* What a step books is booked.
LEMMA BooksBooked ==
  ASSUME TypeOK, NEW o \in Ops, NEW a \in Accounts, NEW reason, NEW amount,
         Books(a, o, reason, amount)
  PROVE  Booked(a, o, amount)'
  <1>1. PICK e \in Entries : /\ e.op = o /\ NetOf(e) = amount
                             /\ ledger' = [ledger EXCEPT ![a] = Append(@, e)]
    BY DEF Books, Adds
  <1>2. ledger'[a] = Append(ledger[a], e) /\ ledger[a] \in Seq(Entries)
    BY <1>1 DEF TypeOK
  <1>3. Len(ledger[a]) + 1 \in DOMAIN ledger'[a] /\ ledger'[a][Len(ledger[a]) + 1] = e
    BY <1>2, Appended
  <1> QED
    BY <1>1, <1>3 DEF Booked

\* What has no entry gets none from an operation that is new.
LEMMA UnbookedStays ==
  ASSUME TypeOK, NEW o \in Ops, NEW a \in Accounts,
         \/ ledger' = ledger
         \/ \E e \in Entries : e.op = o /\ ledger' = [ledger EXCEPT ![a] = Append(@, e)],
         NEW x, x # o, Unbooked(x)
  PROVE  Unbooked(x)'
  <1> SUFFICES ASSUME NEW c \in Accounts, NEW i \in DOMAIN ledger'[c] PROVE ledger'[c][i].op # x
    BY DEF Unbooked
  <1>1. \/ i \in DOMAIN ledger[c] /\ ledger'[c][i] = ledger[c][i]
        \/ c = a /\ ledger'[c][i].op = o
    BY BooksNames
  <1> QED
    BY <1>1 DEF Unbooked

\* A bet stays booked while operations that are new book what they do.
LEMMA BetBookedStays ==
  ASSUME TypeOK, OneEffect, NEW o \in Ops, NEW a \in Accounts, Fresh(o),
         \/ ledger' = ledger
         \/ \E e \in Entries : e.op = o /\ ledger' = [ledger EXCEPT ![a] = Append(@, e)],
         NEW b \in Ops, NEW row \in Bets, bet[b] = row, BetBooked(b, row)
  PROVE  BetBooked(b, row)'
  <1>1. row.account \in Accounts /\ b \in BetsOf(row.account)
    BY NoBetAssumption DEF Bets, BetsOf
  <1>2. Booked(row.account, b, -row.stake)'
    BY <1>1, BookedStays DEF BetBooked
  <1>3. ASSUME NEW i \in DOMAIN row.settlements
        PROVE  SettlementBooked(row.account, row.settlements[i])'
    <2>1. PICK s : s = row.settlements[i]
      OBVIOUS
    <2>2. SettlementBooked(row.account, s)
      BY <2>1 DEF BetBooked
    <2>3. s.op # o
      <3>1. Names(row.account, s.op)
        BY <1>1, <2>1 DEF Names
      <3> QED
        BY <1>1, <3>1, FreshNamesNothing
    <2>4. CASE s.applied = 0
      <3>1. Unbooked(s.op)
        BY <2>2, <2>4 DEF SettlementBooked
      <3>2. Unbooked(s.op)'
        BY <2>3, <3>1, UnbookedStays
      <3> QED
        BY <2>1, <2>4, <3>2 DEF SettlementBooked
    <2>5. CASE s.applied # 0
      <3>1. Booked(row.account, s.op, s.applied)
        BY <2>2, <2>5 DEF SettlementBooked
      <3>2. Booked(row.account, s.op, s.applied)'
        BY <1>1, <3>1, BookedStays
      <3> QED
        BY <2>1, <2>5, <3>2 DEF SettlementBooked
    <2> QED
      BY <2>4, <2>5
  <1> QED
    BY <1>2, <1>3 DEF BetBooked

Booking == \A b \in Ops : bet[b] # NoBet => BetBooked(b, bet[b])

\* The property in these terms.
LEMMA BookingIsBooked == BetsAreBooked <=> Booking
  BY DEF BetsAreBooked, Booking, BetBooked, SettlementBooked, Unbooked

\* There are no bets at the start.
LEMMA InitBooking == Init => Booking
  BY DEF Init, Booking

\* A stake and a settlement are booked as they are taken, once and for all.
LEMMA StepBooking ==
  TypeOK /\ ClosedAccountsKeepNothing /\ OneEffect /\ Booking /\ [Next]_vars => Booking'
  <1> SUFFICES ASSUME TypeOK, ClosedAccountsKeepNothing, OneEffect, Booking, [Next]_vars
               PROVE  Booking'
    OBVIOUS
  <1>1. \A b \in Ops : bet[b] # NoBet => bet[b] \in Bets
    BY DEF TypeOK
  <1> DEFINE Good == \A b \in Ops : bet'[b] # NoBet => BetBooked(b, bet[b])' 
  <1>2. ASSUME NEW b \in Ops, NEW row, bet'[b] = row, BetBooked(b, row)'
        PROVE  BetBooked(b, bet[b])'
    BY <1>2 DEF BetBooked, SettlementBooked, Unbooked, Booked
  <1>3. ASSUME Quiet PROVE Good
    BY <1>3 DEF Quiet, Booking, BetBooked, SettlementBooked, Unbooked, Booked
  <1>4. ASSUME NEW o \in Ops, NEW a \in Accounts, Fresh(o),
               \/ ledger' = ledger
               \/ \E e \in Entries : e.op = o /\ ledger' = [ledger EXCEPT ![a] = Append(@, e)],
               NEW b \in Ops, bet[b] # NoBet, bet'[b] = bet[b]
        PROVE  BetBooked(b, bet[b])'
    <2>1. PICK row \in Bets : row = bet[b]
      BY <1>1, <1>4
    <2>2. BetBooked(b, row)
      BY <1>4, <2>1 DEF Booking
    <2>3. BetBooked(b, row)'
      BY <1>4, <2>1, <2>2, BetBookedStays
    <2> QED
      BY <1>2, <1>4, <2>1, <2>3
  <1>5. ASSUME NEW o \in Ops, NEW a \in Accounts, NEW reason, NEW amount,
               Consume(o, "accepted"), Books(a, o, reason, amount), bet' = bet
        PROVE  Good
    <2>1. Fresh(o) /\ \E e \in Entries : e.op = o /\ ledger' = [ledger EXCEPT ![a] = Append(@, e)]
      BY <1>5 DEF Consume, Books, Adds
    <2> QED
      BY <1>4, <1>5, <2>1
  <1>6. ASSUME NEW o \in Ops, NEW u \in Users, NEW a \in Accounts, Claim(o, u, a) PROVE Good
    BY <1>5, <1>6, ClaimBooks DEF Claim
  <1>7. ASSUME NEW o \in Ops, NEW admin \in Administrators, NEW a \in Accounts,
               NEW v \in Versions, NEW d \in Adjustments, Adjust(o, admin, a, v, d)
        PROVE  Good
    BY <1>5, <1>7, AdjustBooks DEF Adjust
  <1>8. ASSUME NEW o \in Ops, NEW u \in Users, NEW a \in Accounts, NEW g \in Games,
               NEW p \in BetPredictions, NEW s \in Stakes, Place(o, u, a, g, p, s)
        PROVE  Good
    <2>1. Books(a, o, "bet_stake", -s) /\ Fresh(o)
      BY <1>8, PlaceBooks DEF Place, Consume
    <2>2. \E e \in Entries : e.op = o /\ ledger' = [ledger EXCEPT ![a] = Append(@, e)]
      BY <2>1 DEF Books, Adds
    <2>3. PICK row : /\ row.account = a /\ row.settlements = <<>> /\ row.stake = s
                     /\ bet' = [bet EXCEPT ![o] = row]
      BY <1>8 DEF Place
    <2>4. Booked(a, o, -s)'
      BY <2>1, BooksBooked
    <2>5. BetBooked(o, row)'
      BY <2>3, <2>4 DEF BetBooked
    <2>6. bet'[o] = row /\ \A b \in Ops \ {o} : bet'[b] = bet[b]
      BY <2>3 DEF TypeOK
    <2>7. BetBooked(o, bet[o])'
      BY <1>2, <2>5, <2>6
    <2>8. \A b \in Ops \ {o} : bet'[b] # NoBet => BetBooked(b, bet[b])'
      BY <1>4, <2>1, <2>2, <2>6
    <2> QED
      BY <2>7, <2>8
  <1>9. ASSUME NEW o \in Ops, NEW b \in Ops, NEW r \in Nat, Settle(o, b, r) PROVE Good
    <2>1. PICK x : x = NewSettlement(o, b, r)
      OBVIOUS
    <2>2. PICK row : row = bet[b]
      OBVIOUS
    <2>3. /\ row \in Bets /\ row # NoBet
          /\ x \in Settlements /\ x.op = o
          /\ bet' = [bet EXCEPT ![b] = SettledRow(row, x)]
          /\ \/ x.applied = 0 /\ UNCHANGED <<account, ledger>>
             \/ x.applied # 0 /\ \E reason \in Reasons \ {"admin_adjustment"} :
                  Books(row.account, o, reason, x.applied)
      BY <1>9, <2>1, <2>2, SettleBooks
    <2>4. Fresh(o)
      BY <1>9 DEF Settle, Consume
    <2>5. PICK a \in Accounts : a = row.account
      BY <2>3 DEF Bets
    <2>6. \/ ledger' = ledger
          \/ \E e \in Entries : e.op = o /\ ledger' = [ledger EXCEPT ![a] = Append(@, e)]
      BY <2>3, <2>5 DEF Books, Adds
    <2>7. BetBooked(b, row)'
      <3>1. BetBooked(b, row)
        BY <2>2, <2>3 DEF Booking
      <3> QED
        BY <2>2, <2>3, <2>4, <2>6, <3>1, BetBookedStays
    <2>8. SettlementBooked(a, x)'
      <3>1. CASE x.applied = 0
        <4>1. Unbooked(o)
          BY <2>4, FreshNamesNothing DEF Names, Unbooked
        <4>2. Unbooked(o)'
          BY <2>3, <3>1, <4>1 DEF Unbooked
        <4> QED
          BY <2>3, <3>1, <4>2 DEF SettlementBooked
      <3>2. CASE x.applied # 0
        <4>1. Booked(a, o, x.applied)'
          BY <2>3, <2>5, <3>2, BooksBooked
        <4> QED
          BY <2>3, <3>2, <4>1 DEF SettlementBooked
      <3> QED
        BY <3>1, <3>2
    <2>9. PICK new : new = SettledRow(row, x)
      OBVIOUS
    <2>10. new.account = a /\ new.stake = row.stake
             /\ new.settlements = Append(row.settlements, x)
      BY <2>3, <2>5, <2>9 DEF SettledRow, Bets
    <2>11. \A i \in DOMAIN new.settlements :
             \/ i \in DOMAIN row.settlements /\ new.settlements[i] = row.settlements[i]
             \/ new.settlements[i] = x
      <3>1. row.settlements \in Seq(Settlements)
        BY <2>3 DEF Bets
      <3> QED
        BY <2>3, <2>10, <3>1, Appended
    <2>12. \A i \in DOMAIN new.settlements : SettlementBooked(a, new.settlements[i])'
      <3> SUFFICES ASSUME NEW i \in DOMAIN new.settlements
                   PROVE  SettlementBooked(a, new.settlements[i])'
        OBVIOUS
      <3>1. CASE new.settlements[i] = x
        BY <2>8, <3>1 DEF SettlementBooked, Unbooked, Booked
      <3>2. CASE i \in DOMAIN row.settlements /\ new.settlements[i] = row.settlements[i]
        BY <2>5, <2>7, <3>2 DEF BetBooked, SettlementBooked, Unbooked, Booked
      <3> QED
        BY <2>11, <3>1, <3>2
    <2>13. Booked(new.account, b, -new.stake)'
      BY <2>5, <2>7, <2>10 DEF BetBooked, Booked
    <2>14. BetBooked(b, new)'
      BY <2>10, <2>12, <2>13 DEF BetBooked
    <2>15. bet'[b] = new /\ \A c \in Ops \ {b} : bet'[c] = bet[c]
      BY <2>3, <2>9 DEF TypeOK
    <2>16. BetBooked(b, bet[b])'
      BY <1>2, <2>14, <2>15
    <2>17. \A c \in Ops \ {b} : bet'[c] # NoBet => BetBooked(c, bet[c])'
      BY <1>4, <2>4, <2>6, <2>15
    <2> QED
      BY <2>16, <2>17
  <1>10. ASSUME NEW S \in SUBSET Accounts, Purge(S) PROVE Good
    <2> SUFFICES ASSUME NEW b \in Ops, bet'[b] # NoBet PROVE BetBooked(b, bet[b])'
      OBVIOUS
    <2>1. bet'[b] = bet[b] /\ bet[b].account \in Accounts \ S
      BY <1>1, <1>10 DEF Purge, Bets
    <2>2. PICK row : row = bet[b]
      OBVIOUS
    <2>3. ledger'[row.account] = ledger[row.account]
            /\ \A c \in Accounts : ledger'[c] = ledger[c] \/ ledger'[c] = <<>>
      BY <1>10, <2>1, <2>2 DEF Purge
    <2>4. BetBooked(b, row)
      BY <2>1, <2>2 DEF Booking
    <2>5. BetBooked(b, row)'
      <3>1. \A x, amount : Booked(row.account, x, amount) => Booked(row.account, x, amount)'
        BY <2>3 DEF Booked
      <3>2. \A x : Unbooked(x) => Unbooked(x)'
        BY <2>3 DEF Unbooked
      <3>3. \A i \in DOMAIN row.settlements :
              SettlementBooked(row.account, row.settlements[i])'
        BY <2>4, <3>1, <3>2 DEF BetBooked, SettlementBooked
      <3> QED
        BY <2>4, <3>1, <3>3 DEF BetBooked
    <2> QED
      BY <1>2, <2>1, <2>2, <2>5
  <1>11. Good
    <2> HIDE DEF Good
    <2> QED
      BY <1>3, <1>6, <1>7, <1>8, <1>9, <1>10, StepKinds
  <1> QED
    BY <1>11 DEF Booking

\* Every stake and every settlement of every bet is booked in its account, once and for
\* exactly what it came to.
THEOREM BetsAreBookedTheorem == Spec => []BetsAreBooked
  <1> DEFINE IInv == TypeOK /\ ClosedAccountsKeepNothing /\ OneEffect /\ Booking
  <1>1. Init => IInv
    BY InitType, InitClosed, InitOneEffect, InitBooking
  <1>2. IInv /\ [Next]_vars => IInv'
    BY StepType, StepClosed, StepOneEffect, StepBooking
  <1>3. IInv => BetsAreBooked
    BY BookingIsBooked
  <1> QED
    BY <1>1, <1>2, <1>3, PTL DEF Spec

-----------------------------------------------------------------------------
\* Conservation.

\* An account claims and bets finitely often.
FinitelyMany == \A a \in Accounts : IsFiniteSet(claims[a]) /\ IsFiniteSet(BetsOf(a))

\* Conservation, for one account.
Conserved(a) == Worth(a) = DailyCredit * Cardinality(claims[a]) + Adjusted(a) + Won(a)

WonBy(row) == LastReturn(row.settlements) - row.stake

\* What the parts of an account's worth are.
LEMMA WorthType ==
  ASSUME TypeOK, FinitelyMany, NEW a \in Accounts
  PROVE  /\ Cardinality(claims[a]) \in Nat
         /\ DailyCredit * Cardinality(claims[a]) \in Int
         /\ IsFiniteSet(AdjustmentsOf(a))
         /\ \A i \in DOMAIN ledger[a] : NetOf(ledger[a][i]) \in Int
         /\ Adjusted(a) \in Int
         /\ \A b \in BetsOf(a) : bet[b] \in Bets /\ WonBy(bet[b]) \in Int
         /\ Won(a) \in Int
         /\ Worth(a) \in Int
  <1>1. Cardinality(claims[a]) \in Nat
    BY FS_CardinalityType DEF FinitelyMany
  <1>2. DailyCredit * Cardinality(claims[a]) \in Int
    BY <1>1, RuleConstants
  <1>3. IsFiniteSet(AdjustmentsOf(a))
    <2>1. DOMAIN ledger[a] = 1..Len(ledger[a]) /\ Len(ledger[a]) \in Nat
      BY DEF TypeOK
    <2>2. IsFiniteSet(1..Len(ledger[a]))
      BY <2>1, FS_Interval
    <2>3. AdjustmentsOf(a) \subseteq 1..Len(ledger[a])
      BY <2>1 DEF AdjustmentsOf
    <2> QED
      BY <2>2, <2>3, FS_Subset
  <1>4. ASSUME NEW i \in DOMAIN ledger[a] PROVE NetOf(ledger[a][i]) \in Int
    <2>1. ledger[a] \in Seq(Entries)
      BY DEF TypeOK
    <2>2. ledger[a][i] \in Entries
      BY <2>1
    <2> QED
      BY <2>2 DEF Entries, Balances, NetOf
  <1>5. Adjusted(a) \in Int
    <2>1. PICK f : f = [i \in AdjustmentsOf(a) |-> NetOf(ledger[a][i])]
      OBVIOUS
    <2>2. DOMAIN f = AdjustmentsOf(a) /\ \A i \in DOMAIN f : f[i] \in Int
      BY <1>4, <2>1 DEF AdjustmentsOf
    <2> QED
      BY <1>3, <2>1, <2>2, SumFunctionType DEF Adjusted
  <1>6. ASSUME NEW b \in BetsOf(a) PROVE bet[b] \in Bets /\ WonBy(bet[b]) \in Int
    <2>1. bet[b] \in Bets
      BY DEF TypeOK, BetsOf
    <2>2. bet[b].settlements \in Seq(Settlements) /\ bet[b].stake \in Int
      BY <2>1 DEF Bets, Stakes
    <2> QED
      BY <2>1, <2>2, LastSettlementType DEF WonBy
  <1>7. Won(a) \in Int
    <2>1. PICK f : f = [b \in BetsOf(a) |-> LastReturn(bet[b].settlements) - bet[b].stake]
      OBVIOUS
    <2>2. DOMAIN f = BetsOf(a) /\ \A b \in DOMAIN f : f[b] \in Int
      BY <1>6, <2>1 DEF WonBy
    <2>3. IsFiniteSet(BetsOf(a))
      BY DEF FinitelyMany
    <2> QED
      BY <2>1, <2>2, <2>3, SumFunctionType DEF Won
  <1>8. Worth(a) \in Int
    BY DEF TypeOK, Credits, Worth
  <1> QED
    BY <1>1, <1>2, <1>3, <1>4, <1>5, <1>6, <1>7, <1>8

\* An entry counts towards the adjustments if it is one.
LEMMA AdjustedAppend ==
  ASSUME TypeOK, FinitelyMany, NEW a \in Accounts, NEW e \in Entries,
         ledger'[a] = Append(ledger[a], e)
  PROVE  Adjusted(a)' = Adjusted(a) + IF e.reason = "admin_adjustment" THEN NetOf(e) ELSE 0
  <1> DEFINE s == ledger[a]
             n == Len(s) + 1
  <1>1. s \in Seq(Entries)
    BY DEF TypeOK
  <1>2. /\ DOMAIN Append(s, e) = DOMAIN s \cup {n}
        /\ Append(s, e)[n] = e
        /\ n \notin DOMAIN s
        /\ \A i \in DOMAIN s : Append(s, e)[i] = s[i]
    BY <1>1, Appended
  <1>3. PICK f : f = [i \in AdjustmentsOf(a) |-> NetOf(ledger[a][i])]
    OBVIOUS
  <1>4. PICK g : g = [i \in AdjustmentsOf(a)' |-> NetOf(ledger'[a][i])]
    OBVIOUS
  <1>5. SumFunction(f) = Adjusted(a) /\ SumFunction(g) = Adjusted(a)'
    BY <1>3, <1>4 DEF Adjusted
  <1>6. NetOf(e) \in Int
    BY DEF Entries, Balances, NetOf
  <1>7. IsFiniteSet(DOMAIN f) /\ (\A i \in DOMAIN f : f[i] \in Int) /\ SumFunction(f) \in Int
    BY <1>3, <1>5, WorthType DEF AdjustmentsOf
  <1> HIDE DEF s, n
  <1>8. CASE e.reason = "admin_adjustment"
    <2>1. DOMAIN g = DOMAIN f \cup {n} /\ n \notin DOMAIN f
      BY <1>2, <1>3, <1>4, <1>8 DEF AdjustmentsOf, s
    <2>2. g[n] = NetOf(e) /\ \A i \in DOMAIN f : g[i] = f[i]
      BY <1>2, <1>3, <1>4, <2>1 DEF AdjustmentsOf, s
    <2>3. \A i \in DOMAIN g : g[i] \in Int
      BY <1>6, <1>7, <2>1, <2>2
    <2>4. SumFunction(g) = SumFunction(f) + g[n]
      BY <1>7, <2>1, <2>2, <2>3, SumFunctionExtend
    <2> QED
      BY <1>5, <1>8, <2>2, <2>4
  <1>9. CASE e.reason # "admin_adjustment"
    <2>1. AdjustmentsOf(a)' = AdjustmentsOf(a)
      BY <1>2, <1>9 DEF AdjustmentsOf, s
    <2>2. \A i \in AdjustmentsOf(a) : NetOf(ledger'[a][i]) = NetOf(ledger[a][i])
      BY <1>2 DEF AdjustmentsOf, s
    <2>3. g = f
      BY <1>3, <1>4, <2>1, <2>2
    <2> QED
      BY <1>5, <1>7, <1>9, <2>3
  <1> QED
    BY <1>8, <1>9

\* A bet that was not there before counts towards what the account won.
LEMMA WonExtend ==
  ASSUME TypeOK, TypeOK', FinitelyMany, FinitelyMany', NEW a \in Accounts, NEW o \in Ops,
         bet[o] = NoBet, bet'[o] \in Bets, bet'[o].account = a,
         \A b \in Ops \ {o} : bet'[b] = bet[b]
  PROVE  Won(a)' = Won(a) + WonBy(bet'[o])
  <1>1. PICK f : f = [b \in BetsOf(a) |-> LastReturn(bet[b].settlements) - bet[b].stake]
    OBVIOUS
  <1>2. PICK g : g = [b \in BetsOf(a)' |-> LastReturn(bet'[b].settlements) - bet'[b].stake]
    OBVIOUS
  <1>3. SumFunction(f) = Won(a) /\ SumFunction(g) = Won(a)'
    BY <1>1, <1>2 DEF Won
  <1>4. DOMAIN g = DOMAIN f \cup {o} /\ o \notin DOMAIN f
    BY <1>1, <1>2, NoBetAssumption DEF BetsOf
  <1>5. g[o] = WonBy(bet'[o]) /\ \A b \in DOMAIN f : g[b] = f[b]
    BY <1>1, <1>2, <1>4 DEF WonBy, BetsOf
  <1>6. \A b \in DOMAIN f : f[b] \in Int
    BY <1>1, WorthType DEF WonBy
  <1>7. WonBy(bet'[o]) \in Int
    <2>1. bet'[o].settlements \in Seq(Settlements) /\ bet'[o].stake \in Int
      BY DEF Bets, Stakes
    <2> QED
      BY <2>1, LastSettlementType DEF WonBy
  <1>8. \A b \in DOMAIN g : g[b] \in Int
    BY <1>4, <1>5, <1>6, <1>7
  <1>9. IsFiniteSet(DOMAIN f)
    BY <1>1 DEF FinitelyMany
  <1>10. SumFunction(g) = SumFunction(f) + g[o]
    BY <1>4, <1>5, <1>8, <1>9, SumFunctionExtend
  <1> QED
    BY <1>3, <1>5, <1>10

\* A bet that is settled changes what the account won by the difference.
LEMMA WonChange ==
  ASSUME TypeOK, TypeOK', FinitelyMany, NEW a \in Accounts, NEW o \in BetsOf(a),
         bet'[o] \in Bets, bet'[o].account = a,
         \A b \in Ops \ {o} : bet'[b] = bet[b]
  PROVE  Won(a)' = Won(a) + (WonBy(bet'[o]) - WonBy(bet[o]))
  <1>1. PICK f : f = [b \in BetsOf(a) |-> LastReturn(bet[b].settlements) - bet[b].stake]
    OBVIOUS
  <1>2. PICK g : g = [b \in BetsOf(a)' |-> LastReturn(bet'[b].settlements) - bet'[b].stake]
    OBVIOUS
  <1>3. SumFunction(f) = Won(a) /\ SumFunction(g) = Won(a)'
    BY <1>1, <1>2 DEF Won
  <1>4. DOMAIN g = DOMAIN f /\ o \in DOMAIN f
    BY <1>1, <1>2, NoBetAssumption DEF BetsOf
  <1>5. f[o] = WonBy(bet[o]) /\ g[o] = WonBy(bet'[o])
          /\ \A b \in DOMAIN f \ {o} : f[b] = g[b]
    BY <1>1, <1>2, <1>4 DEF WonBy, BetsOf
  <1>6. \A b \in DOMAIN f : f[b] \in Int
    BY <1>1, WorthType DEF WonBy
  <1>7. WonBy(bet'[o]) \in Int
    <2>1. bet'[o].settlements \in Seq(Settlements) /\ bet'[o].stake \in Int
      BY DEF Bets, Stakes
    <2> QED
      BY <2>1, LastSettlementType DEF WonBy
  <1>8. \A b \in DOMAIN f : f[b] \in Int /\ g[b] \in Int
    BY <1>4, <1>5, <1>6, <1>7
  <1>9. IsFiniteSet(DOMAIN f)
    BY <1>1 DEF FinitelyMany
  <1>10. SumFunction(g) = SumFunction(f) + (g[o] - f[o])
    BY <1>4, <1>5, <1>8, <1>9, SumFunctionChange
  <1> QED
    BY <1>3, <1>5, <1>10

\* An account no step touches stays balanced.
LEMMA ConservedFrame ==
  ASSUME NEW c \in Accounts, Conserved(c), account'[c] = account[c],
         ledger'[c] = ledger[c], claims'[c] = claims[c], BetsOf(c)' = BetsOf(c),
         \A b \in BetsOf(c) : bet'[b] = bet[b]
  PROVE  Conserved(c)'
  <1>1. Won(c)' = Won(c)
    BY DEF Won
  <1>2. Adjusted(c)' = Adjusted(c)
    BY DEF Adjusted, AdjustmentsOf
  <1>3. Worth(c)' = Worth(c)
    BY DEF Worth
  <1> QED
    BY <1>1, <1>2, <1>3 DEF Conserved

\* The bet a placement records.
LEMMA PlacedBet ==
  ASSUME TypeOK, NEW o \in Ops, NEW u \in Users, NEW a \in Accounts, NEW g \in Games,
         NEW p \in BetPredictions, NEW s \in Stakes, Place(o, u, a, g, p, s)
  PROVE  \E row \in Bets :
           /\ row.account = a /\ row.stake = s /\ row.day = KstDate(now)
           /\ row.status = "pending" /\ row.settlements = <<>>
           /\ bet' = [bet EXCEPT ![o] = row]
  <1> DEFINE row == [account |-> a, game |-> g, market |-> CurrentGame(g).market,
                     prediction |-> p, stake |-> s, day |-> KstDate(now),
                     status |-> "pending", settlements |-> <<>>]
  <1>1. CurrentGame(g) \in Revisions
    BY DEF Place, PlacementAllowed, CurrentGame, TypeOK
  <1>2. row \in Bets
    BY <1>1, LedgerConstants, KstDateType DEF TypeOK, Bets, Revisions
  <1>3. bet' = [bet EXCEPT ![o] = row]
    BY DEF Place
  <1> QED
    BY <1>2, <1>3

\* Claims and bets come one at a time.
LEMMA StepFinite ==
  TypeOK /\ ClosedAccountsKeepNothing /\ FinitelyMany /\ [Next]_vars => FinitelyMany'
  <1> SUFFICES ASSUME TypeOK, ClosedAccountsKeepNothing, FinitelyMany, [Next]_vars,
                      NEW c \in Accounts
               PROVE  IsFiniteSet(claims'[c]) /\ IsFiniteSet(BetsOf(c)')
    BY DEF FinitelyMany
  <1> DEFINE Good == IsFiniteSet(claims'[c]) /\ IsFiniteSet(BetsOf(c)')
  <1>1. IsFiniteSet(claims[c]) /\ IsFiniteSet(BetsOf(c))
    BY DEF FinitelyMany
  <1>2. ASSUME NEW C, NEW B, NEW x, NEW y, claims'[c] = C, BetsOf(c)' = B,
               C \subseteq claims[c] \cup {x}, B \subseteq BetsOf(c) \cup {y}
        PROVE  Good
    <2>1. IsFiniteSet(claims[c] \cup {x}) /\ IsFiniteSet(BetsOf(c) \cup {y})
      BY <1>1, FS_AddElement
    <2> QED
      BY <1>2, <2>1, FS_Subset
  <1>3. ASSUME Quiet PROVE Good
    BY <1>1, <1>3 DEF Quiet, BetsOf
  <1>4. ASSUME NEW o \in Ops, NEW u \in Users, NEW a \in Accounts, Claim(o, u, a) PROVE Good
    <2>1. claims'[c] \subseteq claims[c] \cup {KstDate(now)}
      BY <1>4 DEF Claim, TypeOK
    <2>2. BetsOf(c)' = BetsOf(c)
      BY <1>4 DEF Claim, BetsOf
    <2> QED
      BY <1>2, <2>1, <2>2
  <1>5. ASSUME NEW o \in Ops, NEW u \in Users, NEW a \in Accounts, NEW g \in Games,
               NEW p \in BetPredictions, NEW s \in Stakes, Place(o, u, a, g, p, s)
        PROVE  Good
    <2>1. claims'[c] = claims[c]
      BY <1>5 DEF Place
    <2>2. BetsOf(c)' \subseteq BetsOf(c) \cup {o}
      BY <1>5 DEF Place, BetsOf, TypeOK
    <2> QED
      BY <1>2, <2>1, <2>2
  <1>6. ASSUME NEW o \in Ops, NEW b \in Ops, NEW r \in Nat, Settle(o, b, r) PROVE Good
    <2>1. claims'[c] = claims[c]
      BY <1>6 DEF Settle
    <2>2. PICK x : x = NewSettlement(o, b, r)
      OBVIOUS
    <2>3. bet' = [bet EXCEPT ![b] = SettledRow(bet[b], x)] /\ bet[b] \in Bets /\ bet[b] # NoBet
      BY <1>6, <2>2, SettleBooks
    <2>4. SettledRow(bet[b], x).account = bet[b].account
      BY <2>3 DEF SettledRow, Bets
    <2>5. BetsOf(c)' \subseteq BetsOf(c)
      BY <2>3, <2>4 DEF BetsOf, TypeOK
    <2> QED
      BY <1>2, <2>1, <2>5
  <1>7. ASSUME NEW o \in Ops, NEW admin \in Administrators, NEW a \in Accounts,
               NEW v \in Versions, NEW d \in Adjustments, Adjust(o, admin, a, v, d)
        PROVE  Good
    BY <1>1, <1>7 DEF Adjust, BetsOf
  <1>8. ASSUME NEW S \in SUBSET Accounts, Purge(S) PROVE Good
    <2>1. claims'[c] \subseteq claims[c] /\ BetsOf(c)' \subseteq BetsOf(c)
      BY <1>8 DEF Purge, BetsOf
    <2> QED
      BY <1>2, <2>1
  <1> HIDE DEF Good
  <1>9. Good
    BY <1>3, <1>4, <1>5, <1>6, <1>7, <1>8, StepKinds
  <1> QED
    BY <1>9 DEF Good

\* What the invariants of the ledger need of one another.
Accountable == TypeOK /\ ClosedAccountsKeepNothing /\ OneEffect /\ FinitelyMany

\* It holds of every reachable state.
LEMMA InitAccountable == Init => Accountable
  <1> SUFFICES ASSUME Init PROVE FinitelyMany
    BY InitType, InitClosed, InitOneEffect DEF Accountable
  <1> QED
    BY FS_EmptySet DEF Init, FinitelyMany, BetsOf

\* It holds of every reachable state.
LEMMA StepAccountable == Accountable /\ [Next]_vars => Accountable'
  BY StepType, StepClosed, StepOneEffect, StepFinite DEF Accountable

\* Nothing was won or claimed at the start.
LEMMA InitConserved == Init => \A a \in Accounts : Conserved(a)
  <1> SUFFICES ASSUME Init, NEW a \in Accounts PROVE Conserved(a)
    OBVIOUS
  <1>1. Cardinality(claims[a]) = 0 /\ BetsOf(a) = {} /\ AdjustmentsOf(a) = {} /\ Worth(a) = 0
    BY FS_EmptySet DEF Init, BetsOf, AdjustmentsOf, Worth, NoCredit
  <1>2. Adjusted(a) = 0 /\ Won(a) = 0
    BY <1>1, SumFunctionEmpty DEF Adjusted, Won
  <1> QED
    BY <1>1, <1>2, RuleConstants DEF Conserved

\* Every step changes the worth of an account by what it claims, adjusts or wins.
LEMMA StepConserved ==
  Accountable /\ (\A a \in Accounts : Conserved(a)) /\ [Next]_vars
    => (\A a \in Accounts : Conserved(a)')
  <1> SUFFICES ASSUME Accountable, \A a \in Accounts : Conserved(a), [Next]_vars,
                      NEW c \in Accounts
               PROVE  Conserved(c)'
    OBVIOUS
  <1>1. /\ TypeOK /\ ClosedAccountsKeepNothing /\ OneEffect /\ FinitelyMany
        /\ TypeOK' /\ FinitelyMany'
    BY StepAccountable DEF Accountable
  <1>2. Conserved(c)
    OBVIOUS
  <1>3. /\ Cardinality(claims[c]) \in Nat
        /\ DailyCredit * Cardinality(claims[c]) \in Int
        /\ Adjusted(c) \in Int /\ Won(c) \in Int /\ Worth(c) \in Int
    BY <1>1, WorthType
  <1>4. ASSUME NEW o \in Ops, NEW a \in Accounts, NEW reason, NEW amount \in Int,
               Books(a, o, reason, amount)
        PROVE  /\ c # a => account'[c] = account[c] /\ ledger'[c] = ledger[c]
               /\ c = a => /\ Worth(c)' = Worth(c) + amount
                           /\ Adjusted(c)' = Adjusted(c)
                                + IF reason = "admin_adjustment" THEN amount ELSE 0
    <2>1. PICK e \in Entries : e.reason = reason /\ NetOf(e) = amount /\ Adds(a, e)
      BY <1>4 DEF Books
    <2>2. c # a => account'[c] = account[c] /\ ledger'[c] = ledger[c]
      BY <1>1, <2>1 DEF Adds, TypeOK
    <2>3. c = a => ledger'[c] = Append(ledger[c], e)
      BY <1>1, <2>1 DEF Adds, TypeOK
    <2>4. c = a => Worth(c)' = Worth(c) + amount
      BY <2>1 DEF Adds
    <2> QED
      BY <1>1, <2>1, <2>2, <2>3, <2>4, AdjustedAppend
  <1>5. ASSUME Quiet PROVE Conserved(c)'
    BY <1>2, <1>5, ConservedFrame DEF Quiet, BetsOf
  <1>6. ASSUME NEW o \in Ops, NEW u \in Users, NEW a \in Accounts, Claim(o, u, a)
        PROVE  Conserved(c)'
    <2>1. Books(a, o, "daily_claim", DailyCredit) /\ DailyCredit \in Nat
      BY <1>1, <1>6, ClaimBooks, RuleConstants
    <2>2. BetsOf(c)' = BetsOf(c) /\ Won(c)' = Won(c) /\ bet' = bet
      BY <1>6 DEF Claim, BetsOf, Won
    <2>3. CASE c # a
      <3>1. claims'[c] = claims[c]
        BY <1>1, <1>6, <2>3 DEF Claim, TypeOK
      <3> QED
        BY <1>2, <1>4, <2>1, <2>2, <2>3, <3>1, ConservedFrame
    <2>4. CASE c = a
      <3>1. claims'[c] = claims[c] \cup {KstDate(now)} /\ KstDate(now) \notin claims[c]
        BY <1>1, <1>6, <2>4 DEF Claim, TypeOK
      <3>2. IsFiniteSet(claims[c])
        BY <1>1 DEF FinitelyMany
      <3>3. Cardinality(claims'[c]) = Cardinality(claims[c]) + 1
        BY <3>1, <3>2, FS_AddElement
      <3>4. DailyCredit * (Cardinality(claims[c]) + 1)
              = DailyCredit * Cardinality(claims[c]) + DailyCredit
        BY <1>3, <2>1
      <3>5. Worth(c)' = Worth(c) + DailyCredit /\ Adjusted(c)' = Adjusted(c) + 0
        BY <1>4, <2>1, <2>4
      <3> QED
        BY <1>2, <1>3, <2>1, <2>2, <3>3, <3>4, <3>5 DEF Conserved
    <2> QED
      BY <2>3, <2>4
  <1>7. ASSUME NEW o \in Ops, NEW u \in Users, NEW a \in Accounts, NEW g \in Games,
               NEW p \in BetPredictions, NEW s \in Stakes, Place(o, u, a, g, p, s)
        PROVE  Conserved(c)'
    <2>1. Books(a, o, "bet_stake", -s) /\ s \in Nat
      BY <1>1, <1>7, PlaceBooks, RuleConstants DEF Stakes
    <2>2. bet[o] = NoBet
      BY <1>1, <1>7, FreshNamesNothing DEF Place, Consume
    <2>3. PICK row \in Bets : /\ row.account = a /\ row.stake = s /\ row.settlements = <<>>
                              /\ bet' = [bet EXCEPT ![o] = row]
      BY <1>1, <1>7, PlacedBet
    <2>4. bet'[o] = row /\ \A b \in Ops \ {o} : bet'[b] = bet[b]
      BY <1>1, <2>3 DEF TypeOK
    <2>6. claims' = claims
      BY <1>7 DEF Place
    <2>7. CASE c # a
      <3>1. BetsOf(c)' = BetsOf(c) /\ \A b \in BetsOf(c) : bet'[b] = bet[b]
        BY <2>2, <2>3, <2>4, <2>7 DEF BetsOf
      <3>2. account'[c] = account[c] /\ ledger'[c] = ledger[c]
        BY <1>4, <2>1, <2>7
      <3> QED
        BY <1>2, <2>6, <3>1, <3>2, ConservedFrame
    <2>8. CASE c = a
      <3>1. Won(c)' = Won(c) + WonBy(bet'[o])
        BY <1>1, <2>2, <2>3, <2>4, <2>8, WonExtend
      <3>2. WonBy(bet'[o]) = -s
        BY <2>1, <2>3, <2>4 DEF WonBy, LastReturn
      <3>3. Worth(c)' = Worth(c) + (-s) /\ Adjusted(c)' = Adjusted(c) + 0
        BY <1>4, <2>1, <2>8
      <3> QED
        BY <1>2, <1>3, <2>1, <2>6, <3>1, <3>2, <3>3 DEF Conserved
    <2> QED
      BY <2>7, <2>8
  <1>8. ASSUME NEW o \in Ops, NEW b \in Ops, NEW r \in Nat, Settle(o, b, r)
        PROVE  Conserved(c)'
    <2>1. PICK x : x = NewSettlement(o, b, r)
      OBVIOUS
    <2>2. PICK row, new : row = bet[b] /\ new = SettledRow(row, x)
      OBVIOUS
    <2>3. /\ row \in Bets /\ row # NoBet
          /\ x \in Settlements
          /\ x.applied = x.returned - LastReturn(row.settlements)
          /\ bet' = [bet EXCEPT ![b] = new]
          /\ \/ x.applied = 0 /\ UNCHANGED <<account, ledger>>
             \/ \E reason \in Reasons \ {"admin_adjustment"} :
                  Books(row.account, o, reason, x.applied)
      BY <1>1, <1>8, <2>1, <2>2, SettleBooks
    <2>4. /\ bet'[b] = new /\ \A d \in Ops \ {b} : bet'[d] = bet[d]
          /\ b \in BetsOf(row.account) /\ row.account \in Accounts
      BY <1>1, <2>2, <2>3 DEF TypeOK, Bets, BetsOf
    <2>5. /\ new.account = row.account /\ new.stake = row.stake
          /\ new.settlements = Append(row.settlements, x)
      BY <2>2, <2>3 DEF SettledRow, Bets
    <2>6. new \in Bets
      <3>1. Append(row.settlements, x) \in Seq(Settlements)
        BY <2>3 DEF Bets
      <3> QED
        BY <2>2, <2>3, <3>1 DEF SettledRow, Bets
    <2>7. claims' = claims
      BY <1>8 DEF Settle
    <2>8. CASE c # row.account
      <3>1. BetsOf(c)' = BetsOf(c) /\ \A d \in BetsOf(c) : bet'[d] = bet[d]
        BY <2>2, <2>4, <2>5, <2>8 DEF BetsOf
      <3>2. account'[c] = account[c] /\ ledger'[c] = ledger[c]
        BY <1>4, <2>3, <2>4, <2>8 DEF Settlements
      <3> QED
        BY <1>2, <2>7, <3>1, <3>2, ConservedFrame
    <2>9. CASE c = row.account
      <3>1. Won(c)' = Won(c) + (WonBy(new) - WonBy(row))
        BY <1>1, <2>2, <2>4, <2>5, <2>6, <2>9, WonChange
      <3>2. WonBy(new) - WonBy(row) = x.applied
        <4>1. row.settlements \in Seq(Settlements) /\ row.stake \in Int
          BY <2>3 DEF Bets, Stakes
        <4>2. LastReturn(new.settlements) = x.returned
          BY <2>3, <2>5, <4>1, Appended DEF LastReturn
        <4>3. x.returned \in Int /\ LastReturn(row.settlements) \in Int
          <5>1. LastReturn(row.settlements) \in Int
            BY <4>1, LastSettlementType
          <5> QED
            BY <2>3, <5>1 DEF Settlements
        <4> QED
          BY <2>3, <2>5, <4>1, <4>2, <4>3 DEF WonBy
      <3>3. Worth(c)' = Worth(c) + x.applied /\ Adjusted(c)' = Adjusted(c) + 0
        <4>1. CASE x.applied = 0 /\ UNCHANGED <<account, ledger>>
          <5>1. Worth(c)' = Worth(c) /\ Adjusted(c)' = Adjusted(c)
            BY <4>1 DEF Worth, Adjusted, AdjustmentsOf
          <5> QED
            BY <1>3, <4>1, <5>1
        <4>2. ASSUME NEW reason \in Reasons \ {"admin_adjustment"},
                     Books(row.account, o, reason, x.applied)
              PROVE  Worth(c)' = Worth(c) + x.applied /\ Adjusted(c)' = Adjusted(c) + 0
          <5>1. x.applied \in Int
            BY <2>3 DEF Settlements
          <5> QED
            BY <1>4, <2>4, <2>9, <4>2, <5>1
        <4> QED
          BY <2>3, <4>1, <4>2
      <3>4. x.applied \in Int
        BY <2>3 DEF Settlements
      <3> QED
        BY <1>2, <1>3, <2>7, <3>1, <3>2, <3>3, <3>4 DEF Conserved
    <2> QED
      BY <2>8, <2>9
  <1>9. ASSUME NEW o \in Ops, NEW admin \in Administrators, NEW a \in Accounts,
               NEW v \in Versions, NEW d \in Adjustments, Adjust(o, admin, a, v, d)
        PROVE  Conserved(c)'
    <2>1. Books(a, o, "admin_adjustment", d) /\ d \in Int
      BY <1>1, <1>9, AdjustBooks, LedgerConstants
    <2>2. UNCHANGED <<claims, bet>>
      BY <1>9 DEF Adjust
    <2>3. BetsOf(c)' = BetsOf(c) /\ Won(c)' = Won(c)
      BY <2>2 DEF BetsOf, Won
    <2>4. CASE c # a
      BY <1>2, <1>4, <2>1, <2>2, <2>3, <2>4, ConservedFrame
    <2>5. CASE c = a
      <3>1. Worth(c)' = Worth(c) + d /\ Adjusted(c)' = Adjusted(c) + d
        BY <1>4, <2>1, <2>5
      <3> QED
        BY <1>2, <1>3, <2>1, <2>2, <2>3, <3>1 DEF Conserved
    <2> QED
      BY <2>4, <2>5
  <1>10. ASSUME NEW S \in SUBSET Accounts, Purge(S) PROVE Conserved(c)'
    <2>1. CASE c \notin S
      <3>1. /\ account'[c] = account[c] /\ ledger'[c] = ledger[c] /\ claims'[c] = claims[c]
            /\ BetsOf(c)' = BetsOf(c) /\ \A b \in BetsOf(c) : bet'[b] = bet[b]
        BY <1>10, <2>1 DEF Purge, BetsOf
      <3> QED
        BY <1>2, <3>1, ConservedFrame
    <2>2. CASE c \in S
      <3>1. account'[c] = NoCredit /\ ledger'[c] = <<>> /\ claims'[c] = {} /\ BetsOf(c)' = {}
        BY <1>10, <2>2 DEF Purge, BetsOf
      <3>2. Worth(c)' = 0 /\ AdjustmentsOf(c)' = {} /\ Cardinality(claims'[c]) = 0
        BY <3>1, FS_EmptySet DEF Worth, NoCredit, AdjustmentsOf
      <3>3. Adjusted(c)' = 0 /\ Won(c)' = 0
        BY <3>1, <3>2, SumFunctionEmpty DEF Adjusted, Won
      <3> QED
        BY <3>2, <3>3, RuleConstants DEF Conserved
    <2> QED
      BY <2>1, <2>2
  <1> QED
    BY <1>1, <1>5, <1>6, <1>7, <1>8, <1>9, <1>10, StepKinds

\* The books balance: for any users, accounts, games and bounds, every stake and every
\* settlement is booked as it was decided, and an account is worth what it claimed, was
\* adjusted by and won.
THEOREM BooksBalanceTheorem == Spec => []BooksBalance
  <1> DEFINE IInv == /\ Accountable /\ SettlementChain /\ Booking
                     /\ \A a \in Accounts : Conserved(a)
  <1>1. Init => IInv
    BY InitAccountable, InitChain, InitBooking, InitConserved
  <1>2. IInv /\ [Next]_vars => IInv'
    BY StepAccountable, StepChain, StepBooking, StepConserved DEF Accountable
  <1>3. IInv => BooksBalance
    BY BookingIsBooked DEF Accountable, BooksBalance, Conservation, Conserved, Worth
  <1> QED
    BY <1>1, <1>2, <1>3, PTL DEF Spec

-----------------------------------------------------------------------------
\* The daily limit.

\* An account's bets of a day that were never void, and their principal.
Unvoided(a, day) == {x \in BetsOf(a) : bet[x].day = day /\ NeverVoid(x)}
Principal(a, day) == SumFunction([b \in Unvoided(a, day) |-> bet[b].stake])
LimitKept(a) == \A day : Principal(a, day) <= DailyStakeLimit

\* A day's bets are finitely many and their stakes natural numbers.
LEMMA PrincipalType ==
  ASSUME TypeOK, FinitelyMany, NEW a \in Accounts, NEW day
  PROVE  /\ IsFiniteSet(Unvoided(a, day))
         /\ \A b \in BetsOf(a) : bet[b] \in Bets /\ bet[b].stake \in Nat
         /\ Principal(a, day) \in Int
  <1>1. IsFiniteSet(Unvoided(a, day))
    <2>1. IsFiniteSet(BetsOf(a)) /\ Unvoided(a, day) \subseteq BetsOf(a)
      BY DEF FinitelyMany, Unvoided
    <2> QED
      BY <2>1, FS_Subset
  <1>2. \A b \in BetsOf(a) : bet[b] \in Bets /\ bet[b].stake \in Nat
    BY RuleConstants DEF BetsOf, TypeOK, Bets, Stakes
  <1>3. Principal(a, day) \in Int
    <2>1. PICK f : f = [b \in Unvoided(a, day) |-> bet[b].stake]
      OBVIOUS
    <2>2. DOMAIN f = Unvoided(a, day) /\ \A b \in DOMAIN f : f[b] \in Int
      BY <1>2, <2>1 DEF Unvoided
    <2> QED
      BY <1>1, <2>1, <2>2, SumFunctionType DEF Principal
  <1> QED
    BY <1>1, <1>2, <1>3

\* A bet that was never void does not stand as void.
LEMMA NeverVoidStatus ==
  ASSUME TypeOK, SettlementChain, NEW a \in Accounts, NEW b \in BetsOf(a), NeverVoid(b)
  PROVE  bet[b].status # "void"
  <1>1. bet[b] \in Bets /\ bet[b] # NoBet
    BY DEF TypeOK, BetsOf
  <1>2. bet[b].status = StatusOf(bet[b].settlements) /\ bet[b].settlements \in Seq(Settlements)
    BY <1>1, ChainByNeighbours DEF Chains, Chained, Bets, BetsOf
  <1>3. bet[b].settlements # <<>> => Len(bet[b].settlements) \in DOMAIN bet[b].settlements
    BY <1>2, LastOf
  <1> QED
    BY <1>2, <1>3 DEF StatusOf, NeverVoid

\* The principal the placement policy counts is no less than what was never void.
LEMMA PolicyCountsPrincipal ==
  ASSUME TypeOK, SettlementChain, FinitelyMany, NEW a \in Accounts, NEW day
  PROVE  DailyNetStake(a, day) \in Int /\ Principal(a, day) <= DailyNetStake(a, day)
  <1> DEFINE Counted == {x \in BetsOf(a) : bet[x].day = day /\ bet[x].status # "void"}
  <1>1. PICK f : f = [b \in Counted |-> bet[b].stake]
    OBVIOUS
  <1>2. PICK g : g = [b \in Unvoided(a, day) |-> bet[b].stake]
    OBVIOUS
  <1>3. SumFunction(f) = DailyNetStake(a, day) /\ SumFunction(g) = Principal(a, day)
    BY <1>1, <1>2 DEF DailyNetStake, Principal
  <1>4. Unvoided(a, day) \subseteq Counted
    BY NeverVoidStatus DEF Unvoided
  <1>5. IsFiniteSet(Counted)
    <2>1. IsFiniteSet(BetsOf(a)) /\ Counted \subseteq BetsOf(a)
      BY DEF FinitelyMany
    <2> QED
      BY <2>1, FS_Subset
  <1>6. DOMAIN f = Counted /\ \A b \in DOMAIN f : f[b] \in Nat /\ f[b] \in Int
    BY <1>1, PrincipalType
  <1>7. DOMAIN g \subseteq DOMAIN f /\ \A b \in DOMAIN g : g[b] = f[b]
    BY <1>1, <1>2, <1>4
  <1> HIDE DEF Counted
  <1>8. SumFunction(g) <= SumFunction(f)
    BY <1>5, <1>6, <1>7, SumFunctionFewer
  <1>9. SumFunction(f) \in Int
    BY <1>5, <1>6, SumFunctionType
  <1> QED
    BY <1>3, <1>8, <1>9

\* Bets that leave the count, or keep their stakes, leave the limit kept.
LEMMA LimitKeptFewer ==
  ASSUME TypeOK, FinitelyMany, NEW a \in Accounts, LimitKept(a),
         \A day : /\ Unvoided(a, day)' \subseteq Unvoided(a, day)
                  /\ \A b \in Unvoided(a, day)' : bet'[b].stake = bet[b].stake
  PROVE  LimitKept(a)'
  <1> SUFFICES ASSUME NEW day PROVE Principal(a, day)' <= DailyStakeLimit
    BY DEF LimitKept
  <1>1. PICK f : f = [b \in Unvoided(a, day) |-> bet[b].stake]
    OBVIOUS
  <1>2. PICK g : g = [b \in Unvoided(a, day)' |-> bet'[b].stake]
    OBVIOUS
  <1>3. SumFunction(f) = Principal(a, day) /\ SumFunction(g) = Principal(a, day)'
    BY <1>1, <1>2 DEF Principal
  <1>4. /\ IsFiniteSet(DOMAIN f) /\ \A b \in DOMAIN f : f[b] \in Nat
        /\ DOMAIN g \subseteq DOMAIN f /\ \A b \in DOMAIN g : g[b] = f[b] /\ g[b] \in Int
    <2>1. IsFiniteSet(Unvoided(a, day)) /\ \A b \in BetsOf(a) : bet[b].stake \in Nat
      BY PrincipalType
    <2>2. /\ Unvoided(a, day) \subseteq BetsOf(a)
          /\ Unvoided(a, day)' \subseteq Unvoided(a, day)
          /\ \A b \in Unvoided(a, day)' : bet'[b].stake = bet[b].stake
      BY DEF Unvoided
    <2> QED
      BY <1>1, <1>2, <2>1, <2>2
  <1>5. SumFunction(g) <= SumFunction(f)
    BY <1>4, SumFunctionFewer
  <1>6. SumFunction(f) \in Int /\ SumFunction(g) \in Int
    <2>1. IsFiniteSet(DOMAIN g) /\ \A b \in DOMAIN f : f[b] \in Int
      BY <1>4, FS_Subset
    <2> QED
      BY <1>4, <2>1, SumFunctionType
  <1>7. SumFunction(f) <= DailyStakeLimit /\ DailyStakeLimit \in Int
    BY <1>3, RuleConstants DEF LimitKept
  <1> QED
    BY <1>3, <1>5, <1>6, <1>7

\* A bet that is settled stays on its day with its stake, and was never void before if
\* it was never void after.
LEMMA SettleUnvoided ==
  ASSUME TypeOK, NEW o \in Ops, NEW b \in Ops, NEW r \in Nat, Settle(o, b, r),
         NEW a \in Accounts, NEW day
  PROVE  /\ Unvoided(a, day)' \subseteq Unvoided(a, day)
         /\ \A x \in Unvoided(a, day)' : bet'[x].stake = bet[x].stake
  <1>1. PICK x : x = NewSettlement(o, b, r)
    OBVIOUS
  <1>2. PICK row, new : row = bet[b] /\ new = SettledRow(row, x)
    OBVIOUS
  <1>3. row \in Bets /\ row # NoBet /\ x \in Settlements /\ bet' = [bet EXCEPT ![b] = new]
    BY <1>1, <1>2, SettleBooks
  <1>4. bet'[b] = new /\ \A y \in Ops \ {b} : bet'[y] = bet[y]
    BY <1>3 DEF TypeOK
  <1>5. /\ new.account = row.account /\ new.stake = row.stake /\ new.day = row.day
        /\ new.settlements = Append(row.settlements, x)
    BY <1>2, <1>3 DEF SettledRow, Bets
  <1>6. row.settlements \in Seq(Settlements)
    BY <1>3 DEF Bets
  <1>7. \A i \in DOMAIN row.settlements :
          i \in DOMAIN new.settlements /\ new.settlements[i] = row.settlements[i]
    BY <1>3, <1>5, <1>6, Appended
  <1> SUFFICES ASSUME NEW y \in Unvoided(a, day)'
               PROVE  y \in Unvoided(a, day) /\ bet'[y].stake = bet[y].stake
    OBVIOUS
  <1>8. CASE y = b
    BY <1>2, <1>3, <1>4, <1>5, <1>7, <1>8 DEF Unvoided, BetsOf, NeverVoid
  <1>9. CASE y # b
    <2>1. y \in Ops \ {b}
      BY <1>9 DEF Unvoided, BetsOf
    <2> QED
      BY <1>4, <2>1 DEF Unvoided, BetsOf, NeverVoid
  <1> QED
    BY <1>8, <1>9

\* There is nothing to limit at the start.
LEMMA InitLimitKept == Init => \A a \in Accounts : LimitKept(a)
  <1> SUFFICES ASSUME Init, NEW a \in Accounts, NEW day PROVE Principal(a, day) <= DailyStakeLimit
    BY DEF LimitKept
  <1>1. Unvoided(a, day) = {}
    BY DEF Init, Unvoided, BetsOf
  <1>2. Principal(a, day) = 0
    BY <1>1, SumFunctionEmpty DEF Principal
  <1> QED
    BY <1>2, RuleConstants

\* A bet is placed within the limit of its day, and a settlement can only make room.
LEMMA StepLimitKept ==
  Accountable /\ SettlementChain /\ (\A a \in Accounts : LimitKept(a)) /\ [Next]_vars
    => (\A a \in Accounts : LimitKept(a)')
  <1> SUFFICES ASSUME Accountable, SettlementChain, \A a \in Accounts : LimitKept(a),
                      [Next]_vars, NEW c \in Accounts
               PROVE  LimitKept(c)'
    OBVIOUS
  <1>1. /\ TypeOK /\ ClosedAccountsKeepNothing /\ OneEffect /\ FinitelyMany /\ LimitKept(c)
        /\ TypeOK' /\ FinitelyMany'
    BY StepAccountable DEF Accountable
  <1>2. ASSUME UNCHANGED bet PROVE LimitKept(c)'
    <2>1. \A day : /\ Unvoided(c, day)' \subseteq Unvoided(c, day)
                   /\ \A b \in Unvoided(c, day)' : bet'[b].stake = bet[b].stake
      BY <1>2 DEF Unvoided, BetsOf, NeverVoid
    <2> QED
      BY <1>1, <2>1, LimitKeptFewer
  <1>3. ASSUME Quiet \/ (\E o \in Ops, u \in Users, a \in Accounts : Claim(o, u, a))
               \/ (\E o \in Ops, admin \in Administrators, a \in Accounts, v \in Versions,
                      d \in Adjustments : Adjust(o, admin, a, v, d))
        PROVE  LimitKept(c)'
    BY <1>2, <1>3 DEF Quiet, Claim, Adjust
  <1>4. ASSUME NEW o \in Ops, NEW u \in Users, NEW a \in Accounts, NEW g \in Games,
               NEW p \in BetPredictions, NEW s \in Stakes, Place(o, u, a, g, p, s)
        PROVE  LimitKept(c)'
    <2>1. PICK row \in Bets : /\ row.account = a /\ row.stake = s /\ row.day = KstDate(now)
                              /\ row.settlements = <<>>
                              /\ bet' = [bet EXCEPT ![o] = row]
      BY <1>1, <1>4, PlacedBet
    <2>2. bet[o] = NoBet
      BY <1>1, <1>4, FreshNamesNothing DEF Place, Consume
    <2>3. bet'[o] = row /\ row # NoBet /\ \A b \in Ops \ {o} : bet'[b] = bet[b]
      BY <1>1, <2>1, NoBetAssumption DEF TypeOK
    <2>4. \A b \in Ops \ {o} : NeverVoid(b)' <=> NeverVoid(b)
      BY <2>3 DEF NeverVoid
    <2>5. ASSUME NEW day, c # a \/ day # KstDate(now)
          PROVE  /\ Unvoided(c, day)' \subseteq Unvoided(c, day)
                 /\ \A b \in Unvoided(c, day)' : bet'[b].stake = bet[b].stake
      BY <2>1, <2>2, <2>3, <2>4, <2>5 DEF Unvoided, BetsOf
    <2>6. CASE c # a
      BY <1>1, <2>5, <2>6, LimitKeptFewer
    <2>7. CASE c = a
      <3> SUFFICES ASSUME NEW day PROVE Principal(c, day)' <= DailyStakeLimit
        BY DEF LimitKept
      <3>1. PICK f : f = [b \in Unvoided(c, day) |-> bet[b].stake]
        OBVIOUS
      <3>2. PICK h : h = [b \in Unvoided(c, day)' |-> bet'[b].stake]
        OBVIOUS
      <3>3. SumFunction(f) = Principal(c, day) /\ SumFunction(h) = Principal(c, day)'
        BY <3>1, <3>2 DEF Principal
      <3>4. IsFiniteSet(DOMAIN f) /\ \A b \in DOMAIN f : f[b] \in Nat /\ f[b] \in Int
        <4>1. IsFiniteSet(Unvoided(c, day)) /\ \A b \in BetsOf(c) : bet[b].stake \in Nat
          BY <1>1, PrincipalType
        <4>2. Unvoided(c, day) \subseteq BetsOf(c)
          BY DEF Unvoided
        <4> QED
          BY <3>1, <4>1, <4>2
      <3>5. Principal(c, day) <= DailyStakeLimit /\ Principal(c, day) \in Int
        BY <1>1, PrincipalType DEF LimitKept
      <3>6. CASE day # KstDate(now)
        <4>1. DOMAIN h = DOMAIN f /\ \A b \in DOMAIN h : h[b] = f[b]
          BY <2>1, <2>2, <2>3, <2>4, <3>1, <3>2, <3>6 DEF Unvoided, BetsOf
        <4>2. h = f
          BY <3>1, <3>2, <4>1
        <4> QED
          BY <3>3, <3>5, <4>2
      <3>7. CASE day = KstDate(now)
        <4>1. DOMAIN h = DOMAIN f \cup {o} /\ o \notin DOMAIN f
          BY <2>1, <2>2, <2>3, <2>4, <2>7, <3>1, <3>2, <3>7 DEF Unvoided, BetsOf, NeverVoid
        <4>2. h[o] = s /\ \A b \in DOMAIN f : h[b] = f[b]
          BY <2>1, <2>3, <3>1, <3>2, <4>1 DEF Unvoided, BetsOf
        <4>3. s \in Int
          BY DEF Stakes
        <4>4. SumFunction(h) = SumFunction(f) + s
          <5>1. \A b \in DOMAIN h : h[b] \in Int
            BY <3>4, <4>1, <4>2, <4>3
          <5> QED
            BY <3>4, <4>1, <4>2, <5>1, SumFunctionExtend
        <4>5. DailyNetStake(c, day) + s <= DailyStakeLimit
          BY <1>4, <2>7, <3>7 DEF Place, PlacementAllowed, PlacementAccepted
        <4>6. DailyNetStake(c, day) \in Int /\ Principal(c, day) <= DailyNetStake(c, day)
          BY <1>1, PolicyCountsPrincipal
        <4> QED
          BY <3>3, <3>5, <4>3, <4>4, <4>5, <4>6, RuleConstants
      <3> QED
        BY <3>6, <3>7
    <2> QED
      BY <2>6, <2>7
  <1>5. ASSUME NEW o \in Ops, NEW b \in Ops, NEW r \in Nat, Settle(o, b, r)
        PROVE  LimitKept(c)'
    BY <1>1, <1>5, SettleUnvoided, LimitKeptFewer
  <1>6. ASSUME NEW S \in SUBSET Accounts, Purge(S) PROVE LimitKept(c)'
    <2>1. \A b \in Ops : bet'[b] # NoBet => bet'[b] = bet[b]
      BY <1>6 DEF Purge
    <2>2. \A day : /\ Unvoided(c, day)' \subseteq Unvoided(c, day)
                   /\ \A b \in Unvoided(c, day)' : bet'[b].stake = bet[b].stake
      BY <2>1 DEF Unvoided, BetsOf, NeverVoid
    <2> QED
      BY <1>1, <2>2, LimitKeptFewer
  <1> QED
    BY <1>1, <1>3, <1>4, <1>5, <1>6, StepKinds

\* No account ever stakes more in a day than the limit, counting every bet that was never
\* void, for any members, stakes, feeds and bounds.
THEOREM DailyLimitTheorem == Spec => []DailyLimitKept
  <1> DEFINE IInv == Accountable /\ SettlementChain /\ \A a \in Accounts : LimitKept(a)
  <1>1. Init => IInv
    BY InitAccountable, InitChain, InitLimitKept
  <1>2. IInv /\ [Next]_vars => IInv'
    BY StepAccountable, StepChain, StepLimitKept DEF Accountable
  <1>3. IInv => DailyLimitKept
    BY DEF DailyLimitKept, LimitKept, Principal, Unvoided
  <1> QED
    BY <1>1, <1>2, <1>3, PTL DEF Spec

-----------------------------------------------------------------------------
\* History is kept.

\* A sequence is a prefix of itself and of itself with one more element.
LEMMA Prefixed ==
  ASSUME NEW T, NEW s \in Seq(T)
  PROVE  /\ IsPrefix(s, s)
         /\ \A e \in T : IsPrefix(s, Append(s, e))
  <1>1. IsPrefix(s, s)
    BY DEF IsPrefix
  <1>2. ASSUME NEW e \in T PROVE IsPrefix(s, Append(s, e))
    <2>1. Len(s) <= Len(Append(s, e)) /\ SubSeq(Append(s, e), 1, Len(s)) = SubSeq(s, 1, Len(s))
      OBVIOUS
    <2> QED
      BY <2>1 DEF IsPrefix
  <1> QED
    BY <1>1, <1>2

\* HistoryKeptUntilRetention, for one account: its rows are extended ...
BetKept(b) ==
  /\ bet'[b] # NoBet
  /\ [bet'[b] EXCEPT !.status = "pending", !.settlements = <<>>] =
       [bet[b] EXCEPT !.status = "pending", !.settlements = <<>>]
  /\ IsPrefix(bet[b].settlements, bet'[b].settlements)

Extended(a) ==
  /\ IsPrefix(ledger[a], ledger'[a])
  /\ claims[a] \subseteq claims'[a]
  /\ \A b \in BetsOf(a) : BetKept(b)

\* ... or taken.
Taken(a) ==
  /\ enrollment[a].status = "departed"
  /\ enrollment'[a].status = "purged"
  /\ a \notin held
  /\ enrollment[a].departed + RetentionPeriod <= now
  /\ \A i \in DOMAIN ledger[a] : ledger[a][i].at + RetentionPeriod <= now
  /\ \A b \in BetsOf(a) : bet[b].settlements # <<>>

\* A bet that no step touches is kept.
LEMMA BetKeptSame ==
  ASSUME TypeOK, NEW a \in Accounts, NEW b \in BetsOf(a), bet'[b] = bet[b]
  PROVE  BetKept(b)
  <1>1. bet[b].settlements \in Seq(Settlements) /\ bet[b] # NoBet
    BY DEF TypeOK, BetsOf, Bets
  <1>2. IsPrefix(bet[b].settlements, bet[b].settlements)
    BY <1>1, Prefixed
  <1> QED
    BY <1>1, <1>2 DEF BetKept

\* The last activity of an account is no earlier than any entry or the departure.
LEMMA LastActivityBounds ==
  ASSUME TypeOK, NEW a \in Accounts
  PROVE  /\ LastActivity(a) \in Int
         /\ enrollment[a].departed <= LastActivity(a)
         /\ \A i \in DOMAIN ledger[a] : ledger[a][i].at <= LastActivity(a)
         /\ enrollment[a].departed \in Int
         /\ \A i \in DOMAIN ledger[a] : ledger[a][i].at \in Int
  <1> DEFINE S == {enrollment[a].departed} \cup {ledger[a][i].at : i \in DOMAIN ledger[a]}
  <1>1. enrollment[a].departed \in Int
    BY DEF TypeOK, Enrollments
  <1>2. ASSUME NEW i \in DOMAIN ledger[a] PROVE ledger[a][i].at \in Int
    <2>1. ledger[a] \in Seq(Entries)
      BY DEF TypeOK
    <2>2. ledger[a][i] \in Entries
      BY <2>1
    <2> QED
      BY <2>2 DEF Entries
  <1>3. S \in SUBSET Int /\ S # {}
    BY <1>1, <1>2
  <1>4. IsFiniteSet(S)
    <2>1. PICK f : f = [i \in DOMAIN ledger[a] |-> ledger[a][i].at]
      OBVIOUS
    <2>2. DOMAIN ledger[a] = 1..Len(ledger[a]) /\ Len(ledger[a]) \in Nat
      BY DEF TypeOK
    <2>3. IsFiniteSet(DOMAIN f)
      BY <2>1, <2>2, FS_Interval
    <2>4. IsFiniteSet({f[i] : i \in DOMAIN f})
      BY <2>1, <2>3, FinitelyManyValues
    <2>5. {f[i] : i \in DOMAIN f} = {ledger[a][i].at : i \in DOMAIN ledger[a]}
      BY <2>1
    <2> QED
      BY <2>4, <2>5, FS_AddElement
  <1>5. LastActivity(a) = Max(S)
    BY DEF LastActivity
  <1> HIDE DEF S
  <1>6. \E m \in S : \A x \in S : x <= m
    BY <1>3, <1>4, Greatest
  <1>7. \E m \in S : \A x \in S : m >= x
    BY <1>3, <1>6
  <1>8. Max(S) \in S /\ \A x \in S : Max(S) >= x
    BY <1>7 DEF Max
  <1>9. \A x \in S : x <= LastActivity(a)
    BY <1>3, <1>5, <1>8
  <1> QED
    BY <1>1, <1>2, <1>3, <1>5, <1>8, <1>9 DEF S

\* A step only adds to the history of an account, unless it purges an account whose
\* retention period has passed.
LEMMA HistoryStep ==
  Accountable /\ SettlementChain /\ [Next]_vars
    => \A a \in Accounts : Extended(a) \/ Taken(a)
  <1> SUFFICES ASSUME Accountable, SettlementChain, [Next]_vars, NEW c \in Accounts
               PROVE  Extended(c) \/ Taken(c)
    OBVIOUS
  <1> DEFINE Good == Extended(c) \/ Taken(c)
  <1>1. TypeOK /\ ClosedAccountsKeepNothing /\ OneEffect
    BY DEF Accountable
  <1>2. ledger[c] \in Seq(Entries)
    BY <1>1 DEF TypeOK
  <1>3. ASSUME NEW o, NEW a \in Accounts, NEW reason, NEW amount, Books(a, o, reason, amount)
        PROVE  IsPrefix(ledger[c], ledger'[c])
    <2>1. PICK e \in Entries : ledger' = [ledger EXCEPT ![a] = Append(@, e)]
      BY <1>3 DEF Books, Adds
    <2>2. ledger'[c] = ledger[c] \/ ledger'[c] = Append(ledger[c], e)
      BY <1>1, <2>1 DEF TypeOK
    <2> QED
      BY <1>2, <2>2, Prefixed
  <1>4. ledger'[c] = ledger[c] => IsPrefix(ledger[c], ledger'[c])
    BY <1>2, Prefixed
  <1>5. ASSUME Quiet PROVE Good
    BY <1>1, <1>4, <1>5, BetKeptSame DEF Quiet, Extended
  <1>6. ASSUME NEW o \in Ops, NEW u \in Users, NEW a \in Accounts, Claim(o, u, a) PROVE Good
    <2>1. IsPrefix(ledger[c], ledger'[c])
      BY <1>1, <1>3, <1>6, ClaimBooks
    <2>2. claims[c] \subseteq claims'[c] /\ bet' = bet
      BY <1>1, <1>6 DEF Claim, TypeOK
    <2> QED
      BY <1>1, <2>1, <2>2, BetKeptSame DEF Extended
  <1>7. ASSUME NEW o \in Ops, NEW u \in Users, NEW a \in Accounts, NEW g \in Games,
               NEW p \in BetPredictions, NEW s \in Stakes, Place(o, u, a, g, p, s)
        PROVE  Good
    <2>1. IsPrefix(ledger[c], ledger'[c])
      BY <1>1, <1>3, <1>7, PlaceBooks
    <2>2. claims[c] \subseteq claims'[c]
      BY <1>7 DEF Place
    <2>3. bet[o] = NoBet
      BY <1>1, <1>7, FreshNamesNothing DEF Place, Consume
    <2>4. \A b \in BetsOf(c) : bet'[b] = bet[b]
      BY <1>1, <1>7, <2>3 DEF Place, TypeOK, BetsOf
    <2> QED
      BY <1>1, <2>1, <2>2, <2>4, BetKeptSame DEF Extended
  <1>8. ASSUME NEW o \in Ops, NEW b \in Ops, NEW r \in Nat, Settle(o, b, r) PROVE Good
    <2>1. PICK x : x = NewSettlement(o, b, r)
      OBVIOUS
    <2>2. PICK row, new : row = bet[b] /\ new = SettledRow(row, x)
      OBVIOUS
    <2>3. /\ row \in Bets /\ x \in Settlements
          /\ bet' = [bet EXCEPT ![b] = new]
          /\ \/ UNCHANGED <<account, ledger>>
             \/ \E reason \in Reasons \ {"admin_adjustment"} :
                  Books(row.account, o, reason, x.applied)
      BY <1>1, <1>8, <2>1, <2>2, SettleBooks
    <2>4. row.account \in Accounts /\ row.settlements \in Seq(Settlements)
      BY <2>3 DEF Bets
    <2>5. IsPrefix(ledger[c], ledger'[c])
      BY <1>3, <1>4, <2>3, <2>4
    <2>6. claims[c] \subseteq claims'[c]
      BY <1>8 DEF Settle
    <2>7. bet'[b] = new /\ \A d \in Ops \ {b} : bet'[d] = bet[d]
      BY <1>1, <2>3 DEF TypeOK
    <2>8. BetKept(b)
      <3>1. /\ new.settlements = Append(row.settlements, x)
            /\ [new EXCEPT !.status = "pending", !.settlements = <<>>] =
                 [row EXCEPT !.status = "pending", !.settlements = <<>>]
        BY <2>2, <2>3 DEF SettledRow, Bets
      <3>2. new # NoBet
        <4>1. Append(row.settlements, x) \in Seq(Settlements)
          BY <2>3, <2>4
        <4>2. new \in Bets
          BY <2>2, <2>3, <4>1 DEF SettledRow, Bets
        <4> QED
          BY <4>2, NoBetAssumption
      <3>3. IsPrefix(row.settlements, Append(row.settlements, x))
        BY <2>3, <2>4, Prefixed
      <3> QED
        BY <2>2, <2>7, <3>1, <3>2, <3>3 DEF BetKept
    <2>9. \A d \in BetsOf(c) : d = b \/ bet'[d] = bet[d]
      BY <2>7 DEF BetsOf
    <2> QED
      BY <1>1, <2>5, <2>6, <2>8, <2>9, BetKeptSame DEF Extended
  <1>9. ASSUME NEW o \in Ops, NEW admin \in Administrators, NEW a \in Accounts,
               NEW v \in Versions, NEW d \in Adjustments, Adjust(o, admin, a, v, d)
        PROVE  Good
    <2>1. IsPrefix(ledger[c], ledger'[c])
      BY <1>1, <1>3, <1>9, AdjustBooks
    <2>2. claims[c] \subseteq claims'[c] /\ bet' = bet
      BY <1>9 DEF Adjust
    <2> QED
      BY <1>1, <2>1, <2>2, BetKeptSame DEF Extended
  <1>10. ASSUME NEW S \in SUBSET Accounts, Purge(S) PROVE Good
    <2>1. CASE c \notin S
      <3>1. ledger'[c] = ledger[c] /\ claims'[c] = claims[c]
              /\ \A b \in BetsOf(c) : bet'[b] = bet[b]
        BY <1>10, <2>1 DEF Purge, BetsOf
      <3> QED
        BY <1>1, <1>4, <3>1, BetKeptSame DEF Extended
    <2>2. CASE c \in S
      <3>1. Expired(c) /\ enrollment'[c] = [NoEnrollment EXCEPT !.status = "purged"]
        BY <1>10, <2>2 DEF Purge
      <3>2. enrollment'[c].status = "purged"
        BY <3>1 DEF NoEnrollment
      <3>3. LastActivity(c) <= now - RetentionPeriod /\ now \in Int /\ RetentionPeriod \in Int
        BY <1>1, <3>1, LedgerConstants DEF Expired, TypeOK
      <3>4. /\ enrollment[c].departed + RetentionPeriod <= now
            /\ \A i \in DOMAIN ledger[c] : ledger[c][i].at + RetentionPeriod <= now
        BY <1>1, <3>3, LastActivityBounds
      <3>5. \A b \in BetsOf(c) : bet[b].settlements # <<>>
        <4>1. \A b \in BetsOf(c) : bet[b].status = StatusOf(bet[b].settlements)
          BY <1>1, ChainByNeighbours DEF Chains, Chained, BetsOf
        <4> QED
          BY <3>1, <4>1 DEF Expired, StatusOf
      <3> QED
        BY <3>1, <3>2, <3>4, <3>5 DEF Taken, Expired
    <2> QED
      BY <2>1, <2>2
  <1> QED
    BY <1>1, <1>5, <1>6, <1>7, <1>8, <1>9, <1>10, StepKinds

\* Nothing recorded is changed or lost before its retention period has passed, for any
\* members, games, purges and bounds.
THEOREM HistoryKeptTheorem == Spec => HistoryKeptUntilRetention
  <1> DEFINE IInv == Accountable /\ SettlementChain
  <1>1. Init => IInv
    BY InitAccountable, InitChain
  <1>2. IInv /\ [Next]_vars => IInv'
    BY StepAccountable, StepChain DEF Accountable
  <1>3. IInv /\ [Next]_vars =>
          [\A a \in Accounts :
             \/ /\ IsPrefix(ledger[a], ledger'[a])
                /\ claims[a] \subseteq claims'[a]
                /\ \A b \in BetsOf(a) :
                     /\ bet'[b] # NoBet
                     /\ [bet'[b] EXCEPT !.status = "pending", !.settlements = <<>>] =
                          [bet[b] EXCEPT !.status = "pending", !.settlements = <<>>]
                     /\ IsPrefix(bet[b].settlements, bet'[b].settlements)
             \/ /\ enrollment[a].status = "departed"
                /\ enrollment'[a].status = "purged"
                /\ a \notin held
                /\ enrollment[a].departed + RetentionPeriod <= now
                /\ \A i \in DOMAIN ledger[a] : ledger[a][i].at + RetentionPeriod <= now
                /\ \A b \in BetsOf(a) : bet[b].settlements # <<>>]_vars
    BY HistoryStep DEF Extended, Taken, BetKept
  <1> QED
    BY <1>1, <1>2, <1>3, PTL DEF Spec, HistoryKeptUntilRetention

-----------------------------------------------------------------------------
\* The tables implement the credit contract.

\* What the contract sees of the tables.
OpenAccounts == {a \in Accounts : AccountExists(a)}
CreditOf == [a \in Accounts |-> [available |-> account[a].available, debt |-> account[a].debt]]
PositionOf(row) ==
  IF row = NoBet THEN NoBet
  ELSE [account  |-> row.account,
        stake    |-> row.stake,
        returned |-> IF row.settlements = <<>> THEN -1 ELSE LastReturn(row.settlements)]
PositionsOf == [o \in Ops |-> PositionOf(bet[o])]

\* A daily grant is received as the contract says.
LEMMA GrantIsReceived ==
  ASSUME NEW available \in Nat, NEW debt \in Nat
  PROVE  LET d == AllocateDailyCredit(debt)
             c == [available |-> available, debt |-> debt]
         IN  Contract!Receive(c, DailyCredit)
               = [available |-> available + d.available, debt |-> debt + d.debt]
  BY RuleConstants DEF AllocateDailyCredit, Smaller, Contract!Receive, Contract!Positive

\* A settlement is split as the contract says: a first refund goes to the balance, any
\* other difference moves the account.
LEMMA SettlementIsMoved ==
  ASSUME NEW available \in Nat, NEW debt \in Nat, NEW delta \in Int, NEW refund \in BOOLEAN
  PROVE  LET d == AllocateSettlementDelta(available, debt, delta, refund)
             c == [available |-> available, debt |-> debt]
             after == [available |-> available + d.available, debt |-> debt + d.debt]
         IN  /\ refund => after = [available |-> available + delta, debt |-> debt]
             /\ ~refund => after = Contract!Move(c, delta)
             /\ ~refund /\ delta >= 0 => after = Contract!Receive(c, delta)
             /\ Contract!Move(c, 0) = c /\ Contract!Receive(c, 0) = c
  BY DEF AllocateSettlementDelta, Smaller, Contract!Move, Contract!Receive, Contract!Recover,
         Contract!Positive

\* A step of an account's credit, in terms of what the contract sees.
LEMMA CreditStep ==
  ASSUME TypeOK, NEW a \in Accounts, NEW o, NEW reason, NEW delta, Post(a, o, reason, delta)
  PROVE  /\ CreditOf' = [CreditOf EXCEPT ![a] =
              [available |-> account[a].available + delta.available,
               debt |-> account[a].debt + delta.debt]]
         /\ CreditOf[a] = [available |-> account[a].available, debt |-> account[a].debt]
         /\ account[a].available \in Nat /\ account[a].debt \in Nat
  BY DEF Post, TypeOK, Credits, CreditOf

\* A bet's position is told from the absent one.
LEMMA PositionPresent ==
  ASSUME NEW row \in Bets
  PROVE  /\ PositionOf(row) # NoBet /\ row # NoBet
         /\ PositionOf(row).account = row.account
         /\ PositionOf(row).stake = row.stake
         /\ PositionOf(row).returned = -1 <=> row.settlements = <<>>
         /\ row.settlements # <<>> => PositionOf(row).returned = LastReturn(row.settlements)
  <1>1. row # NoBet
    BY NoBetAssumption
  <1>2. row.settlements \in Seq(Settlements) /\ row.account \in Accounts /\ row.stake \in Stakes
    BY DEF Bets
  <1>3. LastReturn(row.settlements) \in Nat
    BY <1>2, LastSettlementType
  <1>4. PositionOf(row) \in [account : Accounts, stake : Stakes, returned : Int]
    BY <1>1, <1>2, <1>3 DEF PositionOf
  <1> QED
    BY <1>1, <1>3, <1>4, NoBetAssumption DEF PositionOf

\* The contract starts with nothing.
LEMMA InitContract == Init => Contract!Init
  BY DEF Init, Contract!Init, Contract!Nothing, AccountExists, NoEnrollment, NoCredit

\* A claim is a grant for its day.
LEMMA ClaimGrants ==
  ASSUME TypeOK, NEW o \in Ops, NEW u \in Users, NEW a \in Accounts, Claim(o, u, a)
  PROVE  Contract!Next
  <1>1. PICK delta : delta = AllocateDailyCredit(account[a].debt)
    OBVIOUS
  <1>2. Post(a, o, "daily_claim", delta)
    BY <1>1 DEF Claim
  <1>3. /\ CreditOf' = [CreditOf EXCEPT ![a] =
             [available |-> account[a].available + delta.available,
              debt |-> account[a].debt + delta.debt]]
        /\ CreditOf[a] = [available |-> account[a].available, debt |-> account[a].debt]
        /\ account[a].available \in Nat /\ account[a].debt \in Nat
    BY <1>2, CreditStep
  <1>4. CreditOf' = [CreditOf EXCEPT ![a] = Contract!Receive(@, DailyCredit)]
    BY <1>1, <1>3, GrantIsReceived DEF CreditOf
  <1>5. OpenAccounts' = OpenAccounts /\ a \in OpenAccounts /\ PositionsOf' = PositionsOf
    BY DEF Claim, OpenAccounts, PositionsOf, AccountExists, EnrolledAs
  <1>6. PICK day : /\ claims' = [claims EXCEPT ![a] = @ \cup {day}]
                   /\ day \notin claims[a] /\ day \in claims'[a]
    BY DEF Claim, TypeOK
  <1>7. Contract!Grant(a, day)
    BY <1>4, <1>5, <1>6 DEF Contract!Grant, OpenAccounts, PositionsOf, PositionOf, CreditOf
  <1> QED
    <2>1. \E d \in claims'[a] : Contract!Grant(a, d)
      BY <1>6, <1>7
    <2>2. \E c \in Accounts : \E d \in claims'[c] : Contract!Grant(c, d)
      BY <2>1
    <2> QED
      BY <2>2, Zenon DEF Contract!Next

\* A bet is a stake out of credit its account has, without debt.
LEMMA PlaceStakes ==
  ASSUME TypeOK, OneEffect, NEW o \in Ops, NEW u \in Users, NEW a \in Accounts, NEW g \in Games,
         NEW p \in BetPredictions, NEW s \in Stakes, Place(o, u, a, g, p, s)
  PROVE  Contract!Next
  <1>1. PICK delta : delta = [available |-> -s, debt |-> 0]
    OBVIOUS
  <1>2. Post(a, o, "bet_stake", delta)
    BY <1>1 DEF Place
  <1>3. /\ CreditOf' = [CreditOf EXCEPT ![a] =
             [available |-> account[a].available + delta.available,
              debt |-> account[a].debt + delta.debt]]
        /\ CreditOf[a] = [available |-> account[a].available, debt |-> account[a].debt]
        /\ account[a].available \in Nat /\ account[a].debt \in Nat
    BY <1>2, CreditStep
  <1>4. s \in Nat /\ 0 < s
    BY RuleConstants DEF Stakes
  <1>5. account[a].debt = 0 /\ s <= account[a].available
    BY DEF Place, PlacementAllowed, PlacementAccepted
  <1>6. CreditOf' = [CreditOf EXCEPT ![a].available = @ - s]
    <2>1. /\ delta.available = -s /\ delta.debt = 0
          /\ account[a].available + delta.available = account[a].available - s
          /\ account[a].debt + delta.debt = account[a].debt
      BY <1>1, <1>3, <1>4
    <2> QED
      BY <1>3, <2>1 DEF CreditOf
  <1>7. s = CreditOf[a].available - CreditOf'[a].available
    BY <1>1, <1>3, <1>4 DEF CreditOf
  <1>8. PICK row \in Bets : /\ row.account = a /\ row.stake = s /\ row.settlements = <<>>
                            /\ bet' = [bet EXCEPT ![o] = row]
    BY PlacedBet
  <1>9. PositionsOf[o] = NoBet
    BY FreshNamesNothing DEF Place, Consume, PositionsOf, PositionOf
  <1>10. PositionsOf' = [PositionsOf EXCEPT ![o] =
                           [account |-> a, stake |-> s, returned |-> Contract!Unresolved]]
    BY <1>8, NoBetAssumption DEF PositionsOf, PositionOf, TypeOK, Contract!Unresolved
  <1>11. OpenAccounts' = OpenAccounts /\ a \in OpenAccounts /\ claims' = claims
    BY DEF Place, OpenAccounts, AccountExists, EnrolledAs
  <1> DEFINE StakeTaken(q, c, x) ==
        /\ c \in OpenAccounts /\ PositionsOf[q] = NoBet
        /\ CreditOf[c].debt = 0 /\ 0 < x /\ x <= CreditOf[c].available
        /\ PositionsOf' = [PositionsOf EXCEPT ![q] =
                              [account |-> c, stake |-> x, returned |-> Contract!Unresolved]]
        /\ CreditOf' = [CreditOf EXCEPT ![c].available = @ - x]
        /\ OpenAccounts' = OpenAccounts /\ claims' = claims
  <1>12. StakeTaken(o, a, s)
    BY <1>3, <1>4, <1>5, <1>6, <1>9, <1>10, <1>11 DEF CreditOf
  <1>13. StakeTaken(o, a, CreditOf[a].available - CreditOf'[a].available)
    BY <1>7, <1>12
  <1>14. \E q \in Ops, c \in Accounts :
           StakeTaken(q, c, CreditOf[c].available - CreditOf'[c].available)
    BY <1>13
  <1> QED
    BY <1>14, Zenon
       DEF Contract!Next, Contract!Stake, OpenAccounts, PositionsOf, PositionOf, CreditOf

\* A settlement resolves the bet, or corrects what it had been resolved to.
LEMMA SettleResolves ==
  ASSUME TypeOK, NEW o \in Ops, NEW b \in Ops, NEW r \in Nat, Settle(o, b, r)
  PROVE  Contract!Next
  <1>1. PICK x : x = NewSettlement(o, b, r)
    OBVIOUS
  <1>2. PICK row, new : row = bet[b] /\ new = SettledRow(row, x)
    OBVIOUS
  <1>3. /\ row \in Bets /\ row # NoBet
        /\ x \in Settlements
        /\ x.returned = ReturnOf(row.stake, x.result)
        /\ x.applied = x.returned - LastReturn(row.settlements)
        /\ bet' = [bet EXCEPT ![b] = new]
    BY <1>1, <1>2, SettleBooks
  <1>4. PICK a \in Accounts : a = row.account
    BY <1>3 DEF Bets
  <1>5. row.settlements \in Seq(Settlements) /\ row.stake \in Stakes /\ row.stake \in Nat
    BY <1>3, RuleConstants DEF Bets, Stakes
  <1>6. /\ new \in Bets /\ new.account = a /\ new.stake = row.stake
        /\ new.settlements # <<>> /\ LastReturn(new.settlements) = x.returned
    <2>1. Append(row.settlements, x) \in Seq(Settlements)
      BY <1>3, <1>5
    <2>2. /\ new \in Bets /\ new.account = a /\ new.stake = row.stake
          /\ new.settlements = Append(row.settlements, x)
      BY <1>2, <1>3, <1>4, <2>1 DEF SettledRow, Bets
    <2> QED
      BY <1>3, <1>5, <2>2, Appended DEF LastReturn
  <1>7. /\ x.returned \in Nat
        /\ x.returned = row.stake <=> x.result = "void"
        /\ x.returned \in {0, row.stake, 2 * row.stake, 3 * row.stake}
    <2>1. x.result \in Results
      BY <1>3 DEF Settlements
    <2> QED
      BY <1>3, <1>5, <2>1, ReturnType
  <1>8. LastReturn(row.settlements) \in Nat
    BY <1>5, LastSettlementType
  <1>9. x.applied \in Int
    BY <1>3, <1>7, <1>8
  <1> DEFINE first == row.settlements = <<>>
  <1>10. first => LastReturn(row.settlements) = 0
    BY DEF LastReturn
  <1>11. PICK refund \in BOOLEAN : refund <=> (first /\ x.result = "void")
    BY Zenon
  <1>12. PICK delta : delta = AllocateSettlementDelta(account[a].available, account[a].debt,
                                                      x.applied, refund)
    OBVIOUS
  <1>13. \/ x.applied = 0 /\ CreditOf' = CreditOf
         \/ x.applied # 0 /\ CreditOf' = [CreditOf EXCEPT ![a] =
               [available |-> account[a].available + delta.available,
                debt |-> account[a].debt + delta.debt]]
    <2>1. \/ x.applied = 0 /\ UNCHANGED <<account, ledger>>
          \/ x.applied # 0 /\ \E reason : Post(a, o, reason, delta)
      <3>1. x.applied = ReturnOf(row.stake, ResultOf(row.prediction, CurrentGame(row.game)))
                          - LastReturn(row.settlements)
              /\ x.result = ResultOf(row.prediction, CurrentGame(row.game))
        BY <1>1, <1>2 DEF NewSettlement
      <3>2. refund = (row.settlements = <<>> /\ x.result = "void")
        BY <1>11
      <3> QED
        BY <1>2, <1>4, <1>12, <3>1, <3>2 DEF Settle
    <2> QED
      BY <2>1, CreditStep DEF CreditOf
  <1>14. /\ CreditOf[a] = [available |-> account[a].available, debt |-> account[a].debt]
         /\ account[a].available \in Nat /\ account[a].debt \in Nat
    BY DEF CreditOf, TypeOK, Credits
  <1>15. CreditOf = [CreditOf EXCEPT ![a] = CreditOf[a]]
    BY DEF CreditOf
  <1>16. /\ first /\ x.result = "void"
              => CreditOf' = [CreditOf EXCEPT ![a].available = @ + x.returned]
         /\ first /\ x.result # "void"
              => CreditOf' = [CreditOf EXCEPT ![a] = Contract!Receive(@, x.returned)]
         /\ ~first => CreditOf' = [CreditOf EXCEPT ![a] =
                             Contract!Move(@, x.returned - LastReturn(row.settlements))]
    <2> DEFINE c == [available |-> account[a].available, debt |-> account[a].debt]
               after == [available |-> account[a].available + delta.available,
                         debt |-> account[a].debt + delta.debt]
    <2>1. /\ refund => after = [available |-> account[a].available + x.applied,
                                debt |-> account[a].debt]
          /\ ~refund => after = Contract!Move(c, x.applied)
          /\ ~refund /\ x.applied >= 0 => after = Contract!Receive(c, x.applied)
          /\ Contract!Move(c, 0) = c /\ Contract!Receive(c, 0) = c
      BY <1>9, <1>12, <1>14, SettlementIsMoved
    <2>2. first => x.applied = x.returned
      BY <1>3, <1>7, <1>10
    <2>3. CreditOf[a] = c
      BY <1>14
    <2> HIDE DEF c
    <2>4. CASE x.applied = 0
      <3>1. CreditOf' = [CreditOf EXCEPT ![a] = c]
        BY <1>13, <1>15, <2>3, <2>4
      <3>2. first => x.result # "void"
        <4>1. first => x.returned = 0
          BY <2>2, <2>4
        <4>2. row.stake # 0
          BY <1>5, RuleConstants DEF Stakes
        <4> QED
          BY <1>7, <4>1, <4>2
      <3>3. CreditOf' = [CreditOf EXCEPT ![a] = Contract!Receive(c, 0)]
              /\ CreditOf' = [CreditOf EXCEPT ![a] = Contract!Move(c, 0)]
        BY <2>1, <3>1
      <3> QED
        BY <1>3, <2>2, <2>3, <2>4, <3>2, <3>3
    <2>5. CASE x.applied # 0
      <3>1. CreditOf' = [CreditOf EXCEPT ![a] = after]
        BY <1>13, <2>5
      <3>2. CASE first /\ x.result = "void"
        <4>1. after = [available |-> account[a].available + x.returned, debt |-> account[a].debt]
          BY <1>11, <2>1, <2>2, <3>2
        <4> HIDE DEF after
        <4> QED
          BY <1>14, <3>1, <3>2, <4>1 DEF CreditOf
      <3>3. CASE first /\ x.result # "void"
        <4>1. after = Contract!Receive(c, x.returned)
          BY <1>7, <1>11, <2>1, <2>2, <3>3
        <4> QED
          BY <2>3, <3>1, <3>3, <4>1
      <3>4. CASE ~first
        <4>1. after = Contract!Move(c, x.returned - LastReturn(row.settlements))
          BY <1>3, <1>11, <2>1, <3>4
        <4> QED
          BY <2>3, <3>1, <3>4, <4>1
      <3> QED
        BY <3>2, <3>3, <3>4
    <2> QED
      BY <2>4, <2>5
  <1>17. /\ PositionsOf[b] = PositionOf(row) /\ PositionsOf[b] # NoBet
         /\ PositionsOf[b].account = a /\ PositionsOf[b].stake = row.stake
         /\ PositionsOf[b].returned = -1 <=> first
         /\ ~first => PositionsOf[b].returned = LastReturn(row.settlements)
    BY <1>2, <1>3, <1>4, PositionPresent DEF PositionsOf
  <1>18. PositionsOf' = [PositionsOf EXCEPT ![b].returned = x.returned]
    <2>1. PositionOf(new) = [PositionOf(row) EXCEPT !.returned = x.returned]
      BY <1>3, <1>4, <1>6, PositionPresent DEF PositionOf
    <2>2. PositionsOf' = [PositionsOf EXCEPT ![b] = PositionOf(new)]
      BY <1>3 DEF PositionsOf, TypeOK
    <2> QED
      BY <1>17, <2>1, <2>2
  <1>19. OpenAccounts' = OpenAccounts /\ claims' = claims
    BY DEF Settle, OpenAccounts, AccountExists
  <1>20. x.returned \in Contract!Returns(PositionsOf[b].stake)
    BY <1>7, <1>17 DEF Contract!Returns
  <1> USE DEF OpenAccounts, PositionsOf, PositionOf, CreditOf
  <1>21. CASE first
    <2>1. Contract!Resolve(b, x.returned)
      BY <1>7, <1>16, <1>17, <1>18, <1>19, <1>20, <1>21 DEF Contract!Resolve, Contract!Unresolved
    <2> QED
      BY <1>17, <1>20, <2>1 DEF Contract!Next
  <1>22. CASE ~first
    <2>1. Contract!Correct(b, x.returned)
      BY <1>16, <1>17, <1>18, <1>19, <1>20, <1>22 DEF Contract!Correct, Contract!Unresolved
    <2> QED
      BY <1>17, <1>20, <2>1 DEF Contract!Next
  <1> QED
    BY <1>21, <1>22

\* An adjustment sets a balance that is not negative.
LEMMA AdjustAdjusts ==
  ASSUME TypeOK, ClosedAccountsKeepNothing,
         NEW o \in Ops, NEW admin \in Administrators, NEW a \in Accounts,
         NEW v \in Versions, NEW d \in Adjustments, Adjust(o, admin, a, v, d)
  PROVE  Contract!Next
  <1>1. PICK delta : delta = [available |-> d, debt |-> 0]
    OBVIOUS
  <1>2. Post(a, o, "admin_adjustment", delta)
    BY <1>1 DEF Adjust
  <1>3. /\ CreditOf' = [CreditOf EXCEPT ![a] =
             [available |-> account[a].available + delta.available,
              debt |-> account[a].debt + delta.debt]]
        /\ CreditOf[a] = [available |-> account[a].available, debt |-> account[a].debt]
        /\ account[a].available \in Nat /\ account[a].debt \in Nat
    BY <1>2, CreditStep
  <1>4. d \in Int /\ account[a].available + d >= 0
    BY LedgerConstants DEF Adjust, AdjustmentAllowed
  <1>5. delta.available = d /\ account[a].debt + delta.debt = account[a].debt
    BY <1>1, <1>3
  <1>6. CreditOf'[a].available = account[a].available + d
    BY <1>3, <1>5 DEF CreditOf
  <1>7. CreditOf' = [CreditOf EXCEPT ![a].available = CreditOf'[a].available]
    BY <1>3, <1>5, <1>6 DEF CreditOf
  <1>8. OpenAccounts' = OpenAccounts /\ a \in OpenAccounts /\ claims' = claims
          /\ PositionsOf' = PositionsOf
    BY DEF Adjust, AdjustmentAllowed, OpenAccounts, AccountExists, PositionsOf
  <1>9. Contract!Adjust(a)
    BY <1>4, <1>6, <1>7, <1>8
       DEF Contract!Adjust, OpenAccounts, PositionsOf, PositionOf, CreditOf
  <1> QED
    BY <1>9, Zenon DEF Contract!Next

\* A purge closes accounts none of whose bets is open.
LEMMA PurgeCloses ==
  ASSUME TypeOK, SettlementChain, NEW S \in SUBSET Accounts, Purge(S)
  PROVE  Contract!Next
  <1>1. \A a \in S : Expired(a)
    BY DEF Purge
  <1>2. S \subseteq OpenAccounts
    BY <1>1 DEF Expired, OpenAccounts, AccountExists
  <1>3. \A b \in Ops : bet[b] # NoBet => bet[b] \in Bets
    BY DEF TypeOK
  <1>4. ASSUME NEW b \in Ops
        PROVE  /\ PositionsOf[b] # NoBet <=> bet[b] # NoBet
               /\ bet[b] # NoBet => PositionsOf[b].account = bet[b].account
    BY <1>3, PositionPresent DEF PositionsOf, PositionOf
  <1>5. ASSUME NEW b \in Ops, PositionsOf[b] # NoBet, PositionsOf[b].account \in S
        PROVE  PositionsOf[b].returned # -1
    <2>1. bet[b] \in Bets /\ bet[b] # NoBet /\ b \in BetsOf(bet[b].account)
      BY <1>3, <1>4, <1>5 DEF BetsOf
    <2>2. bet[b].status # "pending"
      BY <1>1, <1>4, <1>5, <2>1 DEF Expired
    <2>3. bet[b].status = StatusOf(bet[b].settlements)
      BY <2>1, ChainByNeighbours DEF Chains, Chained
    <2>4. bet[b].settlements # <<>>
      BY <2>2, <2>3 DEF StatusOf
    <2> QED
      BY <2>1, <2>4, PositionPresent DEF PositionsOf
  <1>6. OpenAccounts' = OpenAccounts \ S
    <2>1. \A a \in Accounts : enrollment'[a] = IF a \in S
            THEN [NoEnrollment EXCEPT !.status = "purged"] ELSE enrollment[a]
      BY DEF Purge
    <2>2. \A a \in S : enrollment'[a].status = "purged"
      BY <2>1 DEF NoEnrollment
    <2>3. \A a \in Accounts : AccountExists(a)' <=> AccountExists(a) /\ a \notin S
      BY <2>1, <2>2 DEF AccountExists
    <2> QED
      BY <2>3 DEF OpenAccounts
  <1>7. CreditOf' = [a \in Accounts |-> IF a \in S THEN Contract!Nothing ELSE CreditOf[a]]
    BY DEF Purge, CreditOf, Contract!Nothing, NoCredit
  <1>8. claims' = [a \in Accounts |-> IF a \in S THEN {} ELSE claims[a]]
    BY DEF Purge
  <1>9. PositionsOf' = [b \in Ops |->
                          IF PositionsOf[b] # NoBet /\ PositionsOf[b].account \in S
                          THEN NoBet ELSE PositionsOf[b]]
    <2>1. \A b \in Ops : bet'[b] = IF bet[b] # NoBet /\ bet[b].account \in S
                                   THEN NoBet ELSE bet[b]
      BY DEF Purge
    <2>2. \A b \in Ops : PositionOf(bet'[b]) =
            IF PositionsOf[b] # NoBet /\ PositionsOf[b].account \in S
            THEN NoBet ELSE PositionsOf[b]
      BY <1>4, <2>1 DEF PositionsOf, PositionOf
    <2> QED
      BY <2>2 DEF PositionsOf
  <1>10. Contract!Close(S)
    BY <1>2, <1>5, <1>6, <1>7, <1>8, <1>9
       DEF Contract!Close, Contract!Unresolved, OpenAccounts, PositionsOf, PositionOf, CreditOf
  <1> QED
    BY <1>10, Zenon DEF Contract!Next

\* Any other step opens an account or is none of the contract's business.
LEMMA QuietOpens ==
  ASSUME Quiet PROVE Contract!Next \/ UNCHANGED Contract!vars
  <1>1. /\ UNCHANGED <<claims, CreditOf, PositionsOf>>
        /\ \/ OpenAccounts' = OpenAccounts
           \/ \E c \in Accounts : c \notin OpenAccounts /\ OpenAccounts' = OpenAccounts \cup {c}
    BY DEF Quiet, CreditOf, PositionsOf, OpenAccounts
  <1>2. CASE OpenAccounts' = OpenAccounts
    BY <1>1, <1>2 DEF Contract!vars, OpenAccounts, PositionsOf, PositionOf, CreditOf
  <1>3. ASSUME NEW c \in Accounts, c \notin OpenAccounts, OpenAccounts' = OpenAccounts \cup {c}
        PROVE  Contract!Next
    <2>1. Contract!Open(c)
      BY <1>1, <1>3 DEF Contract!Open, OpenAccounts, PositionsOf, PositionOf, CreditOf
    <2> QED
      BY <2>1, Zenon DEF Contract!Next
  <1> QED
    BY <1>1, <1>2, <1>3

\* Every step is a step of the contract or leaves what it sees alone.
LEMMA StepContract ==
  Accountable /\ SettlementChain /\ [Next]_vars => [Contract!Next]_(Contract!vars)
  <1> SUFFICES ASSUME Accountable, SettlementChain, [Next]_vars
               PROVE  Contract!Next \/ UNCHANGED Contract!vars
    OBVIOUS
  <1>1. TypeOK /\ ClosedAccountsKeepNothing /\ OneEffect
    BY DEF Accountable
  <1>2. \/ Quiet
        \/ Contract!Next
    BY <1>1, StepKinds, ClaimGrants, PlaceStakes, SettleResolves, AdjustAdjusts, PurgeCloses
  <1> QED
    BY <1>2, QuietOpens

\* The betting tables implement the credit contract: whatever members, administrators,
\* the feed and retention do, accounts are granted, staked, resolved, corrected and
\* closed only as it says.
THEOREM ImplementsContractTheorem == Spec => ImplementsContract
  <1> DEFINE IInv == Accountable /\ SettlementChain
  <1>1. Init => IInv
    BY InitAccountable, InitChain
  <1>2. IInv /\ [Next]_vars => IInv'
    BY StepAccountable, StepChain DEF Accountable
  <1>3. IInv /\ [Next]_vars => [Contract!Next]_(Contract!vars)
    BY StepContract
  <1> QED
    BY <1>1, <1>2, <1>3, InitContract, PTL DEF Spec, ImplementsContract, Contract!Spec
=============================================================================
