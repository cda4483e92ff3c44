--------------------------- MODULE CreditContract ---------------------------
(***************************************************************************)
(* What a credit account promises its owner, whatever tables and           *)
(* transactions keep it: one grant per calendar day, stakes paid out of    *)
(* credit one has and never while in debt, each stake resolved to nothing, *)
(* its principal or its prize, and corrections that take back or give only *)
(* the difference.  What cannot be taken back becomes a debt that grants,  *)
(* prizes and corrections pay off before they reach the owner.             *)
(***************************************************************************)
EXTENDS Integers

CONSTANTS Accounts, Positions, DailyCredit,
          NoPosition   \* the absent position

VARIABLES
  open,       \* the accounts that exist
  credit,     \* [available, debt] of each account
  granted,    \* the days each account was granted credit for
  position    \* the stakes ever taken: [account, stake, returned]

vars == <<open, credit, granted, position>>

Nothing == [available |-> 0, debt |-> 0]
Unresolved == -1   \* the return of a stake that is still at risk

\* Credit pays the debt first; what is taken comes from the balance first.
Positive(x) == IF x > 0 THEN x ELSE 0
Receive(c, x) == [available |-> c.available + Positive(x - c.debt),
                  debt      |-> Positive(c.debt - x)]
Recover(c, x) == [available |-> Positive(c.available - x),
                  debt      |-> c.debt + Positive(x - c.available)]
Move(c, x) == IF x >= 0 THEN Receive(c, x) ELSE Recover(c, -x)

Returns(stake) == {0, stake, 2 * stake, 3 * stake}

Init ==
  /\ open = {}
  /\ credit = [a \in Accounts |-> Nothing]
  /\ granted = [a \in Accounts |-> {}]
  /\ position = [p \in Positions |-> NoPosition]

Open(a) ==
  /\ a \notin open
  /\ open' = open \cup {a}
  /\ UNCHANGED <<credit, granted, position>>

Grant(a, day) ==
  /\ a \in open /\ day \notin granted[a]
  /\ granted' = [granted EXCEPT ![a] = @ \cup {day}]
  /\ credit' = [credit EXCEPT ![a] = Receive(@, DailyCredit)]
  /\ UNCHANGED <<open, position>>

Stake(p, a, x) ==
  /\ a \in open /\ position[p] = NoPosition
  /\ credit[a].debt = 0 /\ 0 < x /\ x <= credit[a].available
  /\ position' = [position EXCEPT ![p] =
                    [account |-> a, stake |-> x, returned |-> Unresolved]]
  /\ credit' = [credit EXCEPT ![a].available = @ - x]
  /\ UNCHANGED <<open, granted>>

\* The first resolution: the principal comes back whole, a prize pays the debt.
Resolve(p, r) ==
  /\ position[p] # NoPosition
  /\ position[p].returned = Unresolved /\ r \in Returns(position[p].stake)
  /\ position' = [position EXCEPT ![p].returned = r]
  /\ LET a == position[p].account
     IN  credit' = IF r = position[p].stake
                   THEN [credit EXCEPT ![a].available = @ + r]
                   ELSE [credit EXCEPT ![a] = Receive(@, r)]
  /\ UNCHANGED <<open, granted>>

Correct(p, r) ==
  /\ position[p] # NoPosition
  /\ position[p].returned # Unresolved /\ r \in Returns(position[p].stake)
  /\ position' = [position EXCEPT ![p].returned = r]
  /\ credit' = [credit EXCEPT ![position[p].account] =
                  Move(@, r - position[p].returned)]
  /\ UNCHANGED <<open, granted>>

\* Someone entitled to sets the balance; the debt is not theirs to change.
Adjust(a) ==
  /\ a \in open /\ credit'[a].available >= 0
  /\ credit' = [credit EXCEPT ![a].available = credit'[a].available]
  /\ UNCHANGED <<open, granted, position>>

\* Closing accounts forgets them, their debts included; no stake is at risk.
Close(S) ==
  /\ S \subseteq open
  /\ \A p \in Positions :
       position[p] # NoPosition /\ position[p].account \in S
         => position[p].returned # Unresolved
  /\ open' = open \ S
  /\ credit' = [a \in Accounts |-> IF a \in S THEN Nothing ELSE credit[a]]
  /\ granted' = [a \in Accounts |-> IF a \in S THEN {} ELSE granted[a]]
  /\ position' = [p \in Positions |->
                    IF position[p] # NoPosition /\ position[p].account \in S
                    THEN NoPosition ELSE position[p]]

\* Days and amounts are read off the step, which keeps them unbounded.
Next ==
  \/ \E a \in Accounts : Open(a) \/ Adjust(a) \/ \E day \in granted'[a] : Grant(a, day)
  \/ \E p \in Positions, a \in Accounts :
       Stake(p, a, credit[a].available - credit'[a].available)
  \/ \E p \in Positions : position[p] # NoPosition /\
       \E r \in Returns(position[p].stake) : Resolve(p, r) \/ Correct(p, r)
  \/ \E S \in SUBSET Accounts : Close(S)

Spec == Init /\ [][Next]_vars
=============================================================================
