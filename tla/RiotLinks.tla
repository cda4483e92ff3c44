------------------------------ MODULE RiotLinks ------------------------------
(***************************************************************************)
(* Links between members and Riot accounts.  Members ask for a link by the *)
(* name of an account and take links back; administrators page through     *)
(* what is pending, approve, reject and remove; a scheduler of the bot     *)
(* keeps the stored names current.  Riot may rename an account at any      *)
(* time.  A transaction is the steps between its locks; what it has not    *)
(* committed is in running.  Operation ids also name requests and links,   *)
(* and their order is the one both are listed in.                          *)
(***************************************************************************)
EXTENDS Integers, FiniteSets, FiniteSetsExt

CONSTANTS
  Users, Accounts, Names,
  Operations,    \* operation ids, issued in any order
  Nothing,
  BatchSize,     \* links of one run of the refresh
  PageSize,      \* pending requests of one page
  MaxRenames,    \* bound: renames of an account
  MaxRestarts,   \* bound: restarts of the bot
  MaxFailures    \* bound: answers that a run of the refresh does not get

\* The rows of the two tables.
Requested == [user : Users, name : Names, status : {"pending", "approved", "rejected"},
              link : Operations \cup {Nothing}]
Linked == [user : Users, account : Accounts, name : Names, read : Nat,
           primary : BOOLEAN, removed : BOOLEAN, version : Nat]

RiotConstants ==
  /\ Operations \subseteq Nat \ {0}
  /\ BatchSize \in Nat \ {0} /\ PageSize \in Nat \ {0}
  /\ MaxRenames \in Nat /\ MaxRestarts \in Nat /\ MaxFailures \in Nat
  /\ Nothing \notin Users \cup Accounts \cup Names \cup Nat \cup Requested \cup Linked

VARIABLES
  riotName,   \* at Riot: the name of each account, no two the same
  renames,    \* how often each was renamed
  request,    \* riot_account_link_request
  link,       \* riot_account_link
  running,    \* commands that await something
  begun,      \* the operation ids that were issued
  refresh,    \* the scheduler: cursor, rest of the batch, its last link, what Riot answered
  late,       \* updates of a stopped bot that PostgreSQL has yet to execute
  restarts, failures,
  page        \* what an administrator has been shown

riot == <<riotName, renames>>
tables == <<request, link>>
scheduler == <<refresh, late, restarts, failures>>
bot == <<running, begun, scheduler>>
riotVars == <<riot, tables, bot, page>>

-----------------------------------------------------------------------------
Idle(cursor) == [cursor |-> cursor, targets |-> {}, last |-> 0, answer |-> Nothing]
NoPage == [open |-> FALSE, cursor |-> 0, shown |-> {}, before |-> {}]

RiotInit ==
  /\ riotName \in {f \in [Accounts -> Names] : \A a, b \in Accounts : f[a] = f[b] => a = b}
  /\ renames = [a \in Accounts |-> 0]
  /\ request = [o \in Operations |-> Nothing] /\ link = [o \in Operations |-> Nothing]
  /\ running = [o \in Operations |-> Nothing] /\ begun = {}
  /\ refresh = Idle(0) /\ late = {} /\ restarts = 0 /\ failures = 0
  /\ page = NoPage

Active == {l \in Operations : link[l] # Nothing /\ ~link[l].removed}
LinksOf(u) == {l \in Active : link[l].user = u}
Pending == {q \in Operations : request[q] # Nothing /\ request[q].status = "pending"}
At(o, step) == running[o] # Nothing /\ running[o].step = step

\* An operation id is issued with the command: a second delivery of an id finds it claimed
\* and changes nothing.
Begins(o) == o \notin begun /\ begun' = begun \cup {o}
Goes(o, command) == running' = [running EXCEPT ![o] = command]
Ends(o) == Goes(o, Nothing)

\* The requests an approval has locked, until it ends.
Locked(q) == \E o \in Operations : (At(o, "index") \/ At(o, "commit")) /\ running[o].request = q

-----------------------------------------------------------------------------
\* Riot: the name is free, or the account has it and it goes to nobody else meanwhile.
Rename(a, n) ==
  /\ renames[a] < MaxRenames /\ \A b \in Accounts : riotName[b] # n
  /\ riotName' = [riotName EXCEPT ![a] = n]
  /\ renames' = [renames EXCEPT ![a] = @ + 1]
  /\ UNCHANGED <<tables, bot, page>>

-----------------------------------------------------------------------------
\* The commands of members.

\* requestLinkWithAudit: nothing is asked for that the member has by that name ...
RequestLink(o, u, n) ==
  /\ Begins(o)
  /\ IF \E l \in LinksOf(u) : link[l].name = n THEN Ends(o)
     ELSE Goes(o, [step |-> "request", user |-> u, name |-> n])
  /\ UNCHANGED <<riot, tables, scheduler, page>>

\* ... or has asked for and nobody has decided, or is about to.
InsertRequest(o) ==
  /\ At(o, "request")
  /\ LET same == {q \in Pending : request[q].user = running[o].user /\ request[q].name = running[o].name}
     IN  /\ \A q \in same : ~Locked(q)
         /\ request' = IF same # {} THEN request
              ELSE [request EXCEPT ![o] = [user |-> running[o].user, name |-> running[o].name,
                                           status |-> "pending", link |-> Nothing]]
  /\ Ends(o)
  /\ UNCHANGED <<riot, link, begun, scheduler, page>>

Removed(l) == [link EXCEPT ![l].removed = TRUE, ![l].primary = FALSE, ![l].version = @ + 1]

\* unlinkWithAudit: a member ends a link of theirs, in whatever version.
Unlink(o, u, l) ==
  /\ Begins(o) /\ Ends(o)
  /\ link' = IF l \in LinksOf(u) THEN Removed(l) ELSE link
  /\ UNCHANGED <<riot, request, scheduler, page>>

-----------------------------------------------------------------------------
\* The commands of administrators.

\* approve: a pending request is found.  (Pending, it is in its first version: expecting
\* another one is refused whatever happens meanwhile.)
FindPending(o, q) ==
  /\ Begins(o)
  /\ q \in Pending
  /\ Goes(o, [step |-> "resolve", request |-> q])
  /\ UNCHANGED <<riot, tables, scheduler, page>>

\* Riot names the account that has the name that was asked for, if any has.
Resolve(o) ==
  /\ At(o, "resolve")
  /\ LET bearers == {a \in Accounts : riotName[a] = request[running[o].request].name}
     IN  IF bearers = {} THEN Ends(o)
         ELSE \E a \in bearers :
                Goes(o, [step |-> "lock", request |-> running[o].request,
                         account |-> a, read |-> renames[a]])
  /\ UNCHANGED <<riot, tables, begun, scheduler, page>>

\* Mutant: what was found pending is approved without another look.
LockRequest_Trusting(o) ==
  /\ At(o, "lock") /\ ~Locked(running[o].request)
  /\ LET me == running[o]
     IN  Goes(o, [step |-> "index", request |-> me.request, account |-> me.account,
                  read |-> me.read, primary |-> LinksOf(request[me.request].user) = {}])
  /\ UNCHANGED <<riot, tables, begun, scheduler, page>>

\* The request is locked and has to be pending still; a link is primary if the member has
\* no other one when the insertion begins.
LockRequest(o) ==
  /\ At(o, "lock") /\ ~Locked(running[o].request)
  /\ LET me == running[o]
     IN  IF me.request \notin Pending THEN Ends(o)
         ELSE Goes(o, [step |-> "index", request |-> me.request, account |-> me.account,
                       read |-> me.read, primary |-> LinksOf(request[me.request].user) = {}])
  /\ UNCHANGED <<riot, tables, begun, scheduler, page>>

\* What two unique indexes have to keep apart.
Clash(account, user, primary, account2, user2, primary2) ==
  account = account2 \/ (user = user2 /\ primary /\ primary2)

\* The insertion waits for another one it would clash with, and gives up against a link
\* that is there: "on conflict do nothing".
InsertLink(o) ==
  /\ At(o, "index")
  /\ LET me   == running[o]
         user == request[me.request].user
     IN  /\ \A p \in Operations : At(p, "commit") =>
              ~Clash(me.account, user, me.primary, running[p].account,
                     request[running[p].request].user, running[p].primary)
         /\ IF \E l \in Active : Clash(me.account, user, me.primary,
                                       link[l].account, link[l].user, link[l].primary)
            THEN Ends(o) ELSE Goes(o, [me EXCEPT !.step = "commit"])
  /\ UNCHANGED <<riot, tables, begun, scheduler, page>>

\* The link and the decision commit together.
CommitApproval(o) ==
  /\ At(o, "commit")
  /\ LET me == running[o]
         q  == me.request
     IN  /\ link' = [link EXCEPT ![o] = [user |-> request[q].user, account |-> me.account,
              name |-> request[q].name, read |-> me.read, primary |-> me.primary,
              removed |-> FALSE, version |-> 0]]
         /\ request' = [request EXCEPT ![q].status = "approved", ![q].link = o]
  /\ Ends(o)
  /\ UNCHANGED <<riot, begun, scheduler, page>>

\* rejectRequestWithAudit
Reject(o, q) ==
  /\ Begins(o) /\ Ends(o)
  /\ request[q] # Nothing /\ ~Locked(q)
  /\ request' = IF q \in Pending THEN [request EXCEPT ![q].status = "rejected"] ELSE request
  /\ UNCHANGED <<riot, link, scheduler, page>>

\* The dashboard shows a link, and its administrator decides to remove it ...
ShowLink(o, l) ==
  /\ Begins(o) /\ l \in Active
  /\ Goes(o, [step |-> "remove", link |-> l, version |-> link[l].version, name |-> link[l].name])
  /\ UNCHANGED <<riot, tables, scheduler, page>>

\* ... removeLinkWithAudit: in the version that was shown.
RemoveLink(o) ==
  /\ At(o, "remove") /\ Ends(o)
  /\ LET l == running[o].link
     IN  link' = IF l \in Active /\ link[l].version = running[o].version THEN Removed(l) ELSE link
  /\ UNCHANGED <<riot, request, begun, scheduler, page>>

\* A command fails, its transaction with it.
Fail(o) ==
  /\ running[o] # Nothing /\ Ends(o)
  /\ UNCHANGED <<riot, tables, begun, scheduler, page>>

-----------------------------------------------------------------------------
\* listPendingPageWithResult, page by page.

First(ids, size) == {i \in ids : Cardinality({j \in ids : j < i}) < size}

\* Mutant: the next page starts where the last request of this one would have been.
NextPage_Ends(ids, shown) == IF ids \subseteq shown THEN 0 ELSE Max(shown) + 1

\* The cursor to the page that follows, or none.
NextPage(ids, shown) == IF ids \subseteq shown THEN 0 ELSE Max(shown)

ShowPage ==
  /\ LET cursor == page.cursor
         ids    == {q \in Pending : q > cursor}
         shown  == First(ids, PageSize)
     IN  IF cursor = 0
         THEN page' = [open |-> ids # {}, cursor |-> NextPage(ids, shown), shown |-> shown,
                       before |-> Pending]
         ELSE IF cursor \notin Pending THEN page' = NoPage
         ELSE page' = [page EXCEPT !.cursor = NextPage(ids, shown), !.shown = @ \cup shown]
  /\ UNCHANGED <<riot, tables, bot>>

-----------------------------------------------------------------------------
\* RiotIdentityRefreshScheduler, one run at a time.

Target(l) == [link |-> l, account |-> link[l].account, version |-> link[l].version]
Resting == refresh.targets = {} /\ refresh.last = 0

\* The next links in the order of their ids; past the last one it starts again.
ListTargets ==
  /\ Resting
  /\ LET rest  == {l \in Active : l > refresh.cursor}
         batch == First(rest, BatchSize)
     IN  refresh' = IF batch = {} THEN [refresh EXCEPT !.cursor = 0]
           ELSE [refresh EXCEPT !.targets = {Target(l) : l \in batch}, !.last = Max(batch)]
  /\ UNCHANGED <<riot, tables, running, begun, late, restarts, failures, page>>

\* The target in hand, the first one that is left.
Looking(t) == t \in refresh.targets /\ \A u \in refresh.targets : t.link <= u.link

Skips(t) == [refresh EXCEPT !.targets = @ \ {t}, !.answer = Nothing]

\* Riot answers the name of the account, or does not and the link keeps its name.
LookUp(t) ==
  /\ Looking(t) /\ refresh.answer = Nothing
  /\ refresh' = [refresh EXCEPT !.answer = [name |-> riotName[t.account], read |-> renames[t.account]]]
  /\ UNCHANGED <<riot, tables, running, begun, late, restarts, failures, page>>

LookUpFails(t) ==
  /\ Looking(t) /\ refresh.answer = Nothing
  /\ failures < MaxFailures /\ failures' = failures + 1
  /\ refresh' = Skips(t)
  /\ UNCHANGED <<riot, tables, running, begun, late, restarts, page>>

\* Mutant: the version is not compared.
Named_AnyVersion(target, answer) ==
  LET l == target.link IN
    IF l \in Active /\ link[l].name # answer.name
    THEN [link EXCEPT ![l].name = answer.name, ![l].read = answer.read, ![l].version = @ + 1]
    ELSE link

\* updateIdentity: the link is as it was listed, and its name differs.  (read, when that
\* was the account's name, is history.)
Named(target, answer) ==
  LET l == target.link IN
    IF l \in Active /\ link[l].version = target.version /\ link[l].name # answer.name
    THEN [link EXCEPT ![l].name = answer.name, ![l].read = answer.read, ![l].version = @ + 1]
    ELSE link

UpdateIdentity(t) ==
  /\ Looking(t) /\ refresh.answer # Nothing
  /\ link' = Named(t, refresh.answer)
  /\ refresh' = Skips(t)
  /\ UNCHANGED <<riot, request, running, begun, late, restarts, failures, page>>

\* The update fails: the run is over, and the next one lists the same links again.
UpdateFails(t) ==
  /\ Looking(t) /\ refresh.answer # Nothing
  /\ failures < MaxFailures /\ failures' = failures + 1
  /\ refresh' = Idle(refresh.cursor)
  /\ UNCHANGED <<riot, tables, running, begun, late, restarts, page>>

\* Mutant: only a full batch moves the cursor.
FinishRun_Same ==
  /\ refresh.targets = {} /\ refresh.last # 0
  /\ refresh' = Idle(refresh.cursor)
  /\ UNCHANGED <<riot, tables, running, begun, late, restarts, failures, page>>

FinishRun ==
  /\ refresh.targets = {} /\ refresh.last # 0
  /\ refresh' = Idle(refresh.last)
  /\ UNCHANGED <<riot, tables, running, begun, late, restarts, failures, page>>

-----------------------------------------------------------------------------
\* The bot stops and starts: commands and transactions are gone, the cursor is lost, and
\* the statement it has sent may be executed later or never.
Restart ==
  /\ restarts < MaxRestarts /\ restarts' = restarts + 1
  /\ running' = [o \in Operations |-> Nothing]
  /\ refresh' = Idle(0)
  /\ late' = late \cup {[target |-> t, answer |-> refresh.answer] :
                          t \in {u \in refresh.targets : Looking(u) /\ refresh.answer # Nothing}}
  /\ UNCHANGED <<riot, tables, begun, failures, page>>

LateUpdate ==
  /\ \E u \in late : link' = Named(u.target, u.answer) /\ late' = late \ {u}
  /\ UNCHANGED <<riot, request, running, begun, refresh, restarts, failures, page>>

-----------------------------------------------------------------------------
MemberCommand(o) ==
  \/ \E u \in Users : (\E n \in Names : RequestLink(o, u, n)) \/ (\E l \in Operations : Unlink(o, u, l))
  \/ InsertRequest(o)

AdministratorCommand(o) ==
  \/ \E q \in Operations : FindPending(o, q) \/ Reject(o, q)
  \/ Resolve(o) \/ LockRequest(o) \/ InsertLink(o) \/ CommitApproval(o)
  \/ (\E l \in Operations : ShowLink(o, l)) \/ RemoveLink(o)

Refresh ==
  \/ ListTargets \/ FinishRun
  \/ \E t \in refresh.targets : LookUp(t) \/ LookUpFails(t) \/ UpdateIdentity(t) \/ UpdateFails(t)

RiotNext ==
  \/ \E a \in Accounts, n \in Names : Rename(a, n)
  \/ \E o \in Operations : MemberCommand(o) \/ AdministratorCommand(o) \/ Fail(o)
  \/ ShowPage \/ Refresh \/ Restart \/ LateUpdate

\* The interval of the refresh comes around, and what a run awaits ends.
RiotFairness == WF_riotVars(Refresh)

RiotSpec == RiotInit /\ [][RiotNext]_riotVars /\ RiotFairness

-----------------------------------------------------------------------------
\* What approvals that run at once, fail half-way, and race each other and removals leave:
\* an account is linked to one member, a member has one primary link at most, and there is
\* a link exactly for what was approved, of the name and the member of the request.
LinksAreApproved ==
  /\ request \in [Operations -> Requested \cup {Nothing}]
  /\ link \in [Operations -> Linked \cup {Nothing}]
  /\ \A l, m \in Active : l # m =>
       ~Clash(link[l].account, link[l].user, link[l].primary,
              link[m].account, link[m].user, link[m].primary)
  /\ \A l \in Operations : link[l] # Nothing =>
       Cardinality({q \in Operations : request[q] # Nothing /\ request[q].link = l}) = 1
  /\ \A q \in Operations : request[q] # Nothing =>
       /\ (request[q].status = "approved") = (request[q].link # Nothing)
       /\ request[q].status = "approved" => link[request[q].link].user = request[q].user

\* Action property: a stored name is never replaced by one the account had before, however
\* late an update of a stopped bot is executed; and a link that an administrator removes is
\* removed under the name they were shown.
LinksChangeAsSeen ==
  [][/\ \A l \in Active : link'[l].read >= link[l].read
     /\ \A o \in Operations : At(o, "remove") /\ ~At(o, "remove")' =>
          LET l == running[o].link IN l \in Active /\ link'[l].removed => link[l].name = running[o].name]_riotVars

\* Once an administrator has paged to the end, they were shown every request that was
\* pending all the while.
PagesMissNothing ==
  page.open /\ page.cursor = 0 => page.before \cap Pending \subseteq page.shown

\* Liveness: the links whose accounts were renamed get their current names in the end,
\* whatever fails once and whichever links come and go meanwhile.
Stale(l) == l \in Active /\ link[l].name # riotName[link[l].account]
NamesCatchUp == []<>(\A l \in Operations : ~Stale(l))
=============================================================================
