---------------------------- MODULE MCKboLedger ----------------------------
(***************************************************************************)
(* Small instances of KboLedger for TLC.                                   *)
(***************************************************************************)
EXTENDS KboLedger

CONSTANTS
  Scopes    \* bounds of the behaviours that one run looks at, side by side

VARIABLE scope

ASSUME ScopesAssumption ==
  \A s \in Scopes : /\ s.users \subseteq Users /\ s.admins \subseteq Administrators
                    /\ s.accounts \subseteq Accounts /\ s.feed \subseteq Feed
                    /\ {s.ops, s.games, s.time, s.revisions, s.denied} \subseteq Nat
                    /\ {s.relisting, s.holds, s.retention} \subseteq BOOLEAN

\* Operation ids are interchangeable and Ops is an interval of integers: a
\* request takes the least unused id.
LeastFree ==
  {o \in Ops : /\ o <= scope.ops /\ operation[o] = "unused"
               /\ \A p \in Ops : p < o => operation[p] # "unused"}

Denials == Cardinality({p \in Ops : operation[p] = "denied"})

MCNext ==
  \/ Environment
  \/ \E o \in LeastFree :
       \/ MemberStep(o)
       \/ SettlementStep(o)
       \/ scope.admins # {} /\ AdministratorStep(o)
       \/ Denials < scope.denied /\ RefusedStep(o)
  \/ scope.retention /\ \E S \in SUBSET Accounts : Purge(S)

\* The steps that stay in scope; relisting lets a game become scheduled again.
InScope ==
  /\ now' <= scope.time
  /\ registered' \subseteq scope.users
  /\ \A a \in Accounts \ scope.accounts : enrollment'[a].status = "none"
  /\ held' # {} => scope.holds
  /\ Cardinality({g \in Games : revisions'[g] # <<>>}) <= scope.games
  /\ \A g \in Games : revisions'[g] # revisions[g] =>
       LET new == Last(revisions'[g])
       IN  /\ [status |-> new.status, score |-> new.score] \in scope.feed
           /\ new.start = scope.start
           /\ Len(revisions'[g]) <= scope.revisions
           /\ revisions[g] # <<>> /\ new.status = "scheduled" => scope.relisting

MCInit == Init /\ scope \in Scopes
MCSpec == MCInit /\ [][MCNext /\ InScope /\ UNCHANGED scope]_<<vars, scope>>

\* Games are interchangeable.
Fixtures == Permutations(Games)

MCAdjustments == {-4, 1}

HomeWin == <<1, 0>>
AwayWin == <<0, 1>>
MCScores == {HomeWin, AwayWin}
None == <<>>

Final(score) == [status |-> "final", score |-> score]
Unplayed(status) == [status |-> status, score |-> None]

\* Played, corrected either way and annulled; played, postponed and reopened.
CorrectionFeed == {Unplayed("scheduled"), Unplayed("cancelled"), Final(HomeWin), Final(AwayWin)}
MarketFeed == {Unplayed("scheduled"), Unplayed("postponed"), Final(HomeWin)}
LeavingFeed == {Unplayed("scheduled"), Final(HomeWin)}

Exact == [outcome |-> "home_win", score |-> HomeWin]
OnePrediction == {Exact}

CONSTANTS a1, a2, u1, u2

\* One member bets on two games that are played, corrected and annulled.
GamesScope ==
  [ops |-> 6, time |-> 1, start |-> 2, games |-> 2, revisions |-> 3, denied |-> 0,
   users |-> {u1}, admins |-> {}, accounts |-> {a1}, feed |-> CorrectionFeed,
   relisting |-> FALSE, holds |-> FALSE, retention |-> FALSE]

\* The same on one day, with more operations.
OneDayScope == [GamesScope EXCEPT !.ops = 7, !.time = 0]

\* Two members, one of them an administrator, come and go.
AccountsScope ==
  [ops |-> 5, time |-> 2, start |-> 1, games |-> 1, revisions |-> 2, denied |-> 0,
   users |-> {u1, u2}, admins |-> {u2}, accounts |-> {a1, a2}, feed |-> LeavingFeed,
   relisting |-> TRUE, holds |-> TRUE, retention |-> TRUE]

\* The same, with refused requests among fewer operations.
RefusalsScope == [AccountsScope EXCEPT !.ops = 4, !.denied = 1]

\* One member bets on a game that is postponed and put back on.
MarketsScope ==
  [ops |-> 5, time |-> 0, start |-> 2, games |-> 1, revisions |-> 4, denied |-> 0,
   users |-> {u1}, admins |-> {}, accounts |-> {a1}, feed |-> MarketFeed,
   relisting |-> TRUE, holds |-> FALSE, retention |-> FALSE]

LedgerScopes == {GamesScope, OneDayScope, AccountsScope, RefusalsScope}
PostponedScope == {MarketsScope}
LedgerFeed == CorrectionFeed \cup MarketFeed
=============================================================================
