------------------------- MODULE MCKboTransactions -------------------------
(***************************************************************************)
(* Small instances of KboTransactions for TLC: who makes which requests.   *)
(***************************************************************************)
EXTENDS KboTransactions

CONSTANTS a1, a2, a3, u1, u2, g1, g2, s1, s2, s3

HomeWin == <<1, 0>>
AwayWin == <<0, 1>>
MCScores == {HomeWin, AwayWin}
None == <<>>
Exact == [outcome |-> "home_win", score |-> HomeWin]

Final(score) == [status |-> "final", score |-> score]
Unplayed(status) == [status |-> status, score |-> None]
CancelFeed == {Unplayed("scheduled"), Unplayed("cancelled"), Final(HomeWin)}
VoidFeed == {Unplayed("scheduled"), Unplayed("postponed"), Final(HomeWin)}

\* Each request of a mix is delivered once, those of S twice.
Twice(mix, S) == [o \in DOMAIN mix |-> mix[o] @@ [times |-> IF o \in S THEN 2 ELSE 1]]
Once(mix) == Twice(mix, {})

Claim(u) == [kind |-> "claim", user |-> u]
Place(u, g, stake) == [kind |-> "place", user |-> u, game |-> g,
                       prediction |-> Exact, stake |-> stake]
Settle(b, revision) == [kind |-> "settle", bet |-> b, revision |-> revision]
Adjust(a, version, delta, admin) == [kind |-> "adjust", account |-> a,
                                     version |-> version, delta |-> delta, admin |-> admin]
Enroll(u) == [kind |-> "enroll", user |-> u]
Depart(u) == [kind |-> "depart", user |-> u]

\* u1 owns a1 from the start; a2 and a3 are ids of accounts not opened yet.
OneMember == [a \in Accounts |-> IF a = a1 THEN u1 ELSE Nobody]

\* Two claims of one user, and an administrator's recovery from the same account
\* that expects the version the first claim leaves.
CreditRequests == <<Claim(u1), Claim(u1), Adjust(a1, 2, -3, u2)>>

\* Two bets on the same game and one on another, against one balance and limit.
BetRequests == <<Place(u1, g1, 1), Place(u1, g1, 2), Place(u1, g2, 2)>>

\* A bet, its settlement on two revisions, and the stake of a second bet in between.
ResultRequests == <<Place(u1, g1, 1), Settle(1, 2), Settle(1, 3), Place(u1, g2, 1)>>

\* A bet, and its settlement on one revision by two requests.
RepeatedRequests == <<Place(u1, g1, 1), Settle(1, 2), Settle(1, 2)>>

\* Two enrolments of one user, their departure, a claim and an adjustment that
\* the user themself, as an administrator, asks for.
MemberRequests == <<Enroll(u2), Enroll(u2), Depart(u2), Claim(u2), Adjust(a2, 0, -1, u1)>>

\* A bet, its settlement and the departure of its owner, and another bet on the
\* game, which may have been cancelled and put back on.
RetryRequests == <<Place(u1, g1, 1), Settle(1, 2), Depart(u1), Place(u1, g1, 1)>>

\* A bet and a settlement, which lock account and game, an adjustment, which
\* takes its operation id first, and a claim.
LockRequests == <<Place(u1, g1, 1), Settle(1, 2), Adjust(a1, 2, 1, u2), Claim(u1)>>

\* A bet and a departure of the same member.
LeavingRequests == <<Place(u1, g1, 1), Depart(u1)>>

MoneyMixes == {Twice(CreditRequests, 1..3), Once(BetRequests), Once(MemberRequests)}
ResultMixes == {Once(ResultRequests), Twice(RepeatedRequests, {1, 2}),
                Twice(RetryRequests, {1}), Twice(RetryRequests, {2})}
LockMixes == {Once(LockRequests)}
LeavingMixes == {Once(LeavingRequests)}

RequestMixes == MoneyMixes \cup ResultMixes \cup LockMixes
RequestFeed == VoidFeed \cup CancelFeed \cup {Final(AwayWin)}

\* What the feed and the clock do beside each kind of mix.
InScope ==
  \/ /\ request \in MoneyMixes
     /\ (\E o \in DOMAIN request : request[o].kind = "place") \/ UNCHANGED revisions
     /\ MapThenSumSet(LAMBDA g : Len(revisions'[g]), Games) <= 3
     /\ \A g \in Games : revisions'[g] # revisions[g] =>
          [status |-> Current(g)'.status, score |-> Current(g)'.score] \in VoidFeed
  \/ /\ request \in ResultMixes /\ now' = 0
     /\ \A g \in Games : revisions'[g] # revisions[g] =>
          /\ \E o \in DOMAIN request : request[o].kind = "place" /\ request[o].game = g
          /\ [status |-> Current(g)'.status, score |-> Current(g)'.score] \in CancelFeed

  \/ /\ request \in LockMixes /\ now' = 0
     /\ MapThenSumSet(LAMBDA g : Len(revisions'[g]), Games) <= 3 /\ revisions'[g2] = revisions[g2]
     /\ \A g \in Games : revisions'[g] # revisions[g] => Current(g)'.status = "final"

\* Of two requests that are alike the first one is delivered first.
InOrder == \A o, p \in DOMAIN request :
  o < p /\ request[o] = request[p] /\ deliveries'[o] = 0 => deliveries'[p] = 0

\* Two connections are in use, and a third one where locks are mixed.
InUse == Cardinality({s \in Sessions : session'[s] # Idle}) <= IF request \in LockMixes THEN 3 ELSE 2

MCSpec == Init /\ [][Next /\ InScope /\ InUse /\ InOrder]_vars

\* The connections of the pool are interchangeable.
Pool == Permutations(Sessions)
=============================================================================
