------------------------------ MODULE KboRules ------------------------------
(***************************************************************************)
(* The pure rules of the KBO credit game: the KST calendar, the evidence   *)
(* and placement policy of a bet, what a settled bet returns, and how a    *)
(* credit or a recovery is split between the available balance and the     *)
(* correction debt.  Amounts count units of the betting step (1,000        *)
(* credits in production), instants count ticks.                           *)
(***************************************************************************)
EXTENDS Integers

CONSTANTS
  DailyCredit,      \* the credit one daily claim pays (50 units in production)
  DailyStakeLimit,  \* the principal a user may stake per KST day (50 units)
  MaxStake,         \* the largest stake of one bet (50 units; the smallest is 1)
  DayLength,        \* ticks per calendar day
  KstOffset,        \* ticks KST is ahead of the clock
  EvidenceMaxAge,   \* ticks after which a game's source data is stale
  Scores,           \* the <<home, away>> scores a game can end with
  NoScore           \* the absent score: not predicted, or the game is not final

ASSUME RuleConstants ==
  /\ DailyCredit \in Nat \ {0}
  /\ DailyStakeLimit \in Nat
  /\ MaxStake \in Nat \ {0}
  /\ DayLength \in Nat \ {0}
  /\ KstOffset \in Nat
  /\ EvidenceMaxAge \in Nat
  /\ Scores \subseteq Nat \X Nat
  /\ NoScore \notin Scores

Stakes == 1..MaxStake
Outcomes == {"home_win", "draw", "away_win"}
Results == {"lost", "outcome_hit", "score_hit", "void"}
VoidStatuses == {"postponed", "cancelled", "no_game"}
GameStatuses == VoidStatuses \cup
  {"scheduled", "suspended", "in_progress", "final_pending", "final", "unknown"}

\* What a user predicts: an outcome, and optionally the exact score.
Predictions == [outcome : Outcomes, score : Scores \cup {NoScore}]

\* One revision of a game as the projection stores it.
Revisions == [status  : GameStatuses,
              score   : Scores \cup {NoScore},
              start   : Int,   \* scheduled_start_at
              market  : Nat,   \* market_version
              updated : Int]   \* source_updated_at = collected_at

\* The calendar date in Seoul of an instant.
KstDate(t) == (t + KstOffset) \div DayLength

Smaller(x, y) == IF x < y THEN x ELSE y

-----------------------------------------------------------------------------
\* Placing a bet.

EvidenceFresh(now, rev) ==
  /\ rev.updated <= now
  /\ now - rev.updated <= EvidenceMaxAge

\* The policy evaluated for an active account on a known game, with the rights
\* gate open: every check has to pass.
PlacementAccepted(now, rev, available, debt, dailyNetStake, stake) ==
  /\ EvidenceFresh(now, rev)
  /\ rev.status = "scheduled"
  /\ now < rev.start
  /\ debt = 0
  /\ stake <= available
  /\ dailyNetStake + stake <= DailyStakeLimit

-----------------------------------------------------------------------------
\* Settling a bet.

OutcomeOf(score) ==
  IF score[1] > score[2] THEN "home_win"
  ELSE IF score[1] < score[2] THEN "away_win" ELSE "draw"

Terminal(rev) ==
  \/ rev.status \in VoidStatuses
  \/ rev.status = "final" /\ rev.score # NoScore

\* The result of a prediction under a terminal revision.
ResultOf(prediction, rev) ==
  IF rev.status \in VoidStatuses THEN "void"
  ELSE IF prediction.outcome # OutcomeOf(rev.score) THEN "lost"
  ELSE IF prediction.score = rev.score THEN "score_hit" ELSE "outcome_hit"

ReturnOf(stake, result) ==
  IF result = "lost" THEN 0
  ELSE IF result = "void" THEN stake
  ELSE IF result = "outcome_hit" THEN 2 * stake ELSE 3 * stake

-----------------------------------------------------------------------------
\* Splitting an amount between the available balance and the debt.

AllocateDailyCredit(debt) ==
  LET paid == Smaller(debt, DailyCredit)
  IN  [available |-> DailyCredit - paid, debt |-> -paid]

\* Mutants: a recovery overdraws the balance; forgives what the balance does not
\* cover; a prize leaves the debt.
AllocateSettlementDelta_Overdraws(available, debt, delta, voidRefund) ==
  [available |-> delta, debt |-> 0]
AllocateSettlementDelta_Forgives(available, debt, delta, voidRefund) ==
  IF delta > 0 THEN [available |-> delta, debt |-> 0]
  ELSE [available |-> -Smaller(-delta, available), debt |-> 0]
AllocateSettlementDelta_PastDebt(available, debt, delta, voidRefund) ==
  IF delta > 0 THEN [available |-> delta, debt |-> 0]
  ELSE LET recovered == Smaller(-delta, available)
       IN  [available |-> -recovered, debt |-> (-delta) - recovered]

\* A first void refund goes to the available balance alone; any other credit
\* pays the debt first, and a recovery takes what is available before it adds
\* to the debt.
AllocateSettlementDelta(available, debt, delta, voidRefund) ==
  IF voidRefund THEN [available |-> delta, debt |-> 0]
  ELSE IF delta > 0
       THEN LET paid == Smaller(delta, debt)
            IN  [available |-> delta - paid, debt |-> -paid]
       ELSE LET recovered == Smaller(-delta, available)
            IN  [available |-> -recovered, debt |-> (-delta) - recovered]
=============================================================================
