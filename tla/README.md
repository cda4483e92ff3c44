# A verification project for the WAW Discord bot

The repository is a Discord bot and a web dashboard for one Discord server. Two
Node.js processes run on one host: the **bot** (gateway connection, slash
commands, game observation, KBO betting, all writes) and the **web** process
(OAuth login, dashboard, read-only projections). They share a PostgreSQL
database and talk over two Unix sockets: the web process asks the bot for a
member's current role, and sends it administrator commands.

This directory holds TLA+ models of the parts whose correctness depends on what
happens in between: transactions, retries, row locks, restarts, corrections.
Paths below are relative to the repository root, which is `src/` here; the
TypeScript sources are therefore under `src/src/`, the SQL under
`src/migrations/`.

## 1. Inventory

| Component | State it keeps | Operations | What is hard | Correct when |
|---|---|---|---|---|
| KBO betting rules (`kbo/bet-placement.ts`, `bet-return.ts`, `bet-settlement.ts`, `daily-credit-claim.ts`) | none | placement policy, return, allocation of credits and recoveries, KST dates | boundaries, order of debt and balance | a debt is last to grow and first to shrink; a return is 0, 1, 2 or 3 stakes |
| KBO credit ledger (six `postgres-kbo-*-store.ts`, migrations 0013-0019) | enrollment, account, ledger entries, claims, bets, settlements, operation ids, holds | register, enroll, claim, place, settle, adjust, depart, purge | corrections of results, postponed games, departures, retention, retried operations | the ledger explains the balance; an operation has one effect; accounts behave as a credit contract |
| KBO transactions (the same stores) | row locks, uncommitted operation ids, what each connection has read | the statements of each transaction | READ COMMITTED interleavings, lost answers, lock order | no lost update, answers agree with the tables, everything ends |
| KBO departure sync (`adapters/discord/kbo-departure-sync.ts`) | a promise queue | reconcile at start, depart on event | stale member list, lost events | members who left have no active account |
| Admin command IPC (`ipc/`, `web/admin-command-dashboard-ports.ts`) | connections, deadlines, `admin_command_result` | dispatch, connect, execute, answer, query a result | time-outs while the bot goes on, restarts, versions | what the dashboard reports is what happened |
| Game observation (`game/`, `postgres-game-observation-store.ts`) | voice evidence, polls, generations, incidents | observe, reconcile, poll, record, notify, correct, cancel | stale evidence, restarts, late answers | a violation needs current evidence of both sources, is recorded and notified once |
| Riot links (`riot/`, `postgres-riot-command-store.ts`) | requests, links, versions | request, approve, reject, remove, refresh identity | compare-and-set, duplicates | one owner per account, one decision per request |
| Gateway and lease (`gateway/`, `bot/discordjs-bot.ts`) | lease file, connection state, timers | acquire, connect, heartbeat, reconnect, stop | two bots, stale heartbeats, shutdown during a reconnect | one bot is connected at a time |
| Sessions (`auth/`, `http/session-boundary.ts`) | OAuth states, sessions, recent authentication | begin, callback, read, rotate, log out | replay, role changes, expiry | a session acts with a role its owner has now |
| Summary and quota (`summary/`, `postgres-summary-quota-store.ts`) | queue of interactions, reservations | read history, reserve, summarise, answer | redelivery, late commits, messages that come and go between pages | one summary per member and hour; a summary is of everything in its range |
| Monitor (`operations/`) | alert state file | observe, compare, post, write the file | a run that posted and did not write, one failing post | nothing is recorded untold, a critical alert does not stay untold, nothing is told twice in six hours |
| Migrations (`persistence/run-migration.ts`, `postgres-persistence.ts`) | tables, ledger of checksums, advisory lock | look up, lock, apply or adopt, record | two runners, checksum drift, a lost commit answer | each migration applied once, in order, under the files the ledger knows |
| Dashboard page (`web/app.tsx`, `web/api.ts`) | lists as loaded, marks, messages | load, decide, decide all, remove, adjust, save, correct | handlers that end in any order with stale lists, calls that fail after their effect | what it says was done was done; nothing stays marked |
| Dashboard server (`http/`) | request context | routes | see sessions and admin commands | mutating routes go through the admin commands |
| Backups, deployment, scripts | files | shell | - | not modelled |

The interactions: a slash command reaches a KBO store through
`interaction-handler.ts` -> `command-handler.ts` -> an executor, under the
operation id `discord:<interaction id>`; an administrator's adjustment reaches
`postgres-kbo-admin-credit-store.ts` through the dashboard, the admin command
socket and `admin-command-application.ts`; a member's departure comes from a
gateway event or from the start-up reconciliation; the retention purge runs once
a day from a timer of `bot/main.ts`. `PostgresKboSettlementStore.settle` and the
writers of `kbo_game` have no caller in the repository yet: the models take a
settlement request, and a new revision, as possible at any time.

## 2. Plan

Order of work, most important behaviour first. Modules marked * exist.

1. * `KboRules`, `CreditContract`, `KboLedger`: the ledger on its committed state
   and the contract it implements; `SumTheorems`: sums over finite sets;
   `KboLedgerProofs`: every property of run `ledger`, the refinement of the contract included.
2. * `KboTransactions`: the same stores statement by statement; `KboTransactionsProofs`:
   its safety properties, the refinement of the contract and that it never deadlocks.
3. * `AdminCommands`: dashboard port, socket, deadlines, bot and result table;
   `AdminCommandsProofs`: type invariant, results match effects, one effect per
   version, reports are true.
4. * `GoLiveEvidence`: voice events, reconciliations, the evidence in memory.
   * `GameObservation`: polls, store, incidents, announcements, restart;
   `GameObservationProofs`: types, verdicts stay, unlinked is unobserved, announced once.
5. * `RiotLinks`: requests, approvals, removals, pages and the identity refresh.
6. * `GatewayRuntime` (connection, reconciliation, departures, shut-down),
   `SingletonLease`, `Sessions`, `Summaries`, `Monitor`, `Migrations`,
   `DashboardPage`; `SessionsProofs`: types, one session per sign-in, what ended stays
   ended, rights are current; `OperationsProofs`: migrations apply once, the page is
   honest, alerts are told, owners of the lease; `BotProofs`: members called current, the silent bot, one
   summary per hour and a whole one, and the safety properties of `RiotLinks` and of `GoLiveEvidence`.
7. With these, every safety property and action property of a passing run is proved; of
   `tx_requests`, `SomeTransactionGoesOn` is ENABLED and `NoRing` is proved in its stead.
8. * Where a run is violated, what holds instead is proved too: how many own the lease,
   who is departed by mistake, which time-outs are misreported, whose accounts bets and
   claims are on, who holds a session that a rotation opened, and that a settlement
   stays the result of its revision (section 5, last part).

`AdminCommands` uses, for decisions on a target, only its version and whether it is
open; `KboLedger!Adjust` is the same adjustment with its amounts. `GameObservation`
takes the state of the stream that `GoLiveEvidence` may give at any instant, and the
correction of an incident that `AdminCommands` commits. The two halves of each pair
are checked apart: their product is out of TLC's reach, and each takes every
behaviour of the other.

## 3. Modules

### KboRules
Operators only. Amounts count betting steps of 1,000 credits (stakes, claims,
returns and limits are multiples of the step; an administrator's delta, which
need not be, is a number of steps as well). Instants are ticks; a day is
`DayLength` ticks and Seoul is `KstOffset` ticks ahead. `PlacementAccepted` is
the conjunction of the checks of `evaluateKboBetPlacement` for an active account
(which of several failing checks is reported is left out), `ResultOf` and
`ReturnOf` are `calculateSettlement`, `AllocateDailyCredit` and
`AllocateSettlementDelta` the functions of those names.

### CreditContract
The abstract specification: accounts that are opened and closed, a grant per day,
stakes, resolutions and corrections, adjustments. It knows neither games, markets
and operations nor ledgers and versions. `Move` says in two lines what the split of
an amount between balance and debt must be.

### KboLedger
One variable per table, one action per committed transaction:
`Enroll`, `Claim`, `Place`, `Settle`, `Adjust`, `Depart`, `Purge` commit effects,
`Refuse...` commit the denials (which consume the operation id; a refused
adjustment leaves its operation row as accepted, like the code), `Register` is the
upsert of the user row. A transaction that raises, or repeats an operation id,
changes no table and is a stuttering step. `GameRevised` is the data provider:
any allowed status and score at any time, a new market when a postponed game is
scheduled again in the future, as the ADR on the game lifecycle has it; the columns
of `kbo_game` are the last revision. `Hold` and `Release` are the database operator.
Bets, claims and settlements of an account live under the operation id that made
them, since `operation_id` is unique in each table.

### KboTransactions
`session[s]` is a pooled connection and what its transaction has read; `lock` maps
each row, and each inserted but uncommitted operation id, to its holder. The
statements are the program's, in its order: the enrollment is read by the
statement that waits for the account row and is not read again, because
`for update of account` locks the account alone and READ COMMITTED re-reads only
the row that was locked. Writes become visible at the commit, computed from what
was read. `Deliver` takes the instant of the request before the transaction
begins; `Abort` is a lost connection or a stopping bot; `CommitDone` may lose its
answer. The retention purge and audit rows take no part.

### AdminCommands
The operations of three programs in the order a command meets them. In the web
process: `Dispatch` (the ports of the dashboard: operation id, expected version),
`ClientReceives` and `ClientDeadline` (one exchange). In the bot's server: `Accept`,
`ServerDeadline`, `Respond`. In the bot's application: `Examine` (authorisation,
which asks Discord), `Lookup` (the result under the operation id), `FindPending` and
`Validate` (an approval asks Riot), `Commit` and `Fail` (the transaction of each
store: `Claim`, the `Decide...` of the kind of target, `Record`), `Duplicate` (an id
claimed in the meantime). The command does not know that its socket is gone, so
`execution` goes on whatever `connection` becomes. `OtherWriter` is everybody
else who changes such rows: a member who unlinks, a refreshed identity, a bet, a poll. The operation id of a request is the HTTP request id when that has eight
characters, otherwise random; the first kind starts again with the web process, so
`WebRestart` resets `served`. `operation_status` queries are left out: no command
leaves an id claimed without a result, so a query repeats `Lookup`.

### GoLiveEvidence
`queue` is the promise chain of `voice-observation-adapter.ts`: an event
runs when the ones before it have ended, a `reconcile` stays at the head as `joined`
until the shared reconciliation ends. `reconciliation` is `reconcileGuild`
between its three awaits: listing, reading by Discord (`ReadVoice`), and
the answer or its time-out (`ReconciliationEnds`), applied when no generation moved
(`untouched`). Instants are ages, so time has no bound. One tick is a minute:
freshness three, reconciliation two, interruption two, as in production.
`toggles` and `seen` are history: they number the states of the stream.

### GameObservation
`tick` is a scheduler tick that has listed the link and waits for its
reconciliation; `poll` is `poll()` between its awaits: asking Riot, recording,
announcing. `Record` is the whole transaction of the store with its refusals;
`Judged` is the `on conflict` clause on `game_incident`. `generation`,
`activeGame` and `pending` are lost by `Restart`, the tables are not.

### RiotLinks
`request` and `link` are the two tables; operation ids also name requests and links
and give the order both are listed in. An approval is the steps between its awaits:
`FindPending`, `Resolve` (Riot answers the account of the name), `LockRequest`,
`InsertLink` under the two unique indexes (`Clash`), `CommitApproval`; a rejection, a
removal and an unlink are single statements with their compare-and-set on the
version. `ShowPage` is the keyset page of pending requests. The identity refresh is
`ListTargets`, `LookUp`, `UpdateIdentity`, `FinishRun` with a cursor; the batch is the set of
its targets, of which the one with the least link is next (`Looking`); `Restart` loses all of it but an update that PostgreSQL has yet to execute (`late`).
`RiotAccountLinkService` and `RiotAdminExecutor`, which no program uses, are left out.

### GatewayRuntime
`events` and `handling` are the serial queue of the Discord adapter, `attempt` the
reconciliations (several at once, because an attempt that loses its race against the
deadline goes on unheard): `FetchMembers`, `RefreshLabels`, `ListActive`, `DepartGone`
for each enrolled member who was not seen, `Publish` or `Gives` up. `leaves` is the
queue of departure events, `asked` the enrolments that wait in the queue of commands.
The stop order of `bot-entrypoint.ts` is `BeginStop` to `Exit`. `basis` and `left` are
history. Heartbeats and the age of the state only feed the health report, and the bot
itself writes them by a timer (`bot/main.ts`): left out.

### SingletonLease
The lease file, one action per file-system call: create if absent, write the owner,
read, look whether the owner lives, remove, and claim once more.

### Sessions
`state`, `row` and `cache` are the tables `oauth_state`, `app_session` and
`role_cache`; `jar` holds the cookies of the browser; `request[r]` is a request between
its awaits. A sign-in is `Login`, `Callback`, `CheckState`, `Identify`,
`CommitCallback`; any other request is found (`FindSession`), touched, verified with the
bot (`AskBot`, `Verify`), perhaps rotated to a new tier, and acts. The tier is what the
bot's lookup answers, from its gateway cache; an "unauthorized" answer leaves the role
cache as it is. `Fails` is a step that raises, with a commit whose answer was lost.
CSRF tokens are taken as valid; `readCurrentRole` has no production caller.

### Summaries
The serial queue of interactions and the summary command: `ReadPage` newest first,
`CheckSize`, `FindReservation` and `WriteReservation` under the row of the member,
`Commit`, `Summarize`, `AppendAudit`, `Reply`. A message is an id with the instant it
was posted; a range ends when the command begins. A reservation stays spent when
summarising fails, and a redelivered interaction that has its reservation is
summarised again, as in the code.

### DashboardPage
`seen` is what the page shows of each thing, by version; `clicks[c]` is a handler of
`web/app.tsx` with the lists of the render it was made in (`shown`); `marked` is what
is being processed. A handler starts (`Decide`, `DecideAll`, `RemoveLink`, `Adjust`,
`Save`, `MutateIncident`, `LoadGames`), is served (`Serve`, where the answer may get
lost), handles its answer, loads lists again and shows them, each list falling back to
what that handler falls back to. `answer` is what came of the call and `read` whether all lists
were read: a mutation that failed leaves its form open under the version it had, and once the
incidents are read again it can be submitted at once. A handler that was never called is `Idle`.
`Remount` leaves earlier handlers behind.

### Monitor
`alerts` is the state file, `run` the run under way. `Observe` reads the host and the
file and computes the states to write and the notifications to post; `Deliver` posts
the next one, in the order of `Alerts`; `WriteStates` replaces the file by a rename. `Fails` ends a run anywhere. `told`
and `silence` are history.

### Migrations
`schema` is what was run, `ledger` the table `waw_schema_migration`, `release[m]` the
files of a migrator, of which a checksum is the text and its line ends. `LookUp` is
`applyPendingMigrations` before the lock, `Lock`, `Apply` and `Commit` the transaction
of `applyMigration`, `Legacy` the adoption of a database without a ledger. `Fail` may
leave the commit done.

### MC modules
`MCKboLedger` bounds a ledger by scopes, which are initial states; `MCKboTransactions`
lists mixes of requests and `MCAdminCommands` menus of commands in the same way.
`MCGameObservation` (games, names of links), `MCBot` (streams, links, connection, summaries) and
`MCSessions` (sessions, page, monitor, migrations) hold instances that share no state
and take one module per scope; a property of one says nothing of the other scopes,
where its variables do not change.

## 4. Runs

All runs use safety bounds on operations, time and revisions; deadlock checking is
off since a bounded system stops when its bounds are used up.

| Run | Question | Result |
|---|---|---|
| `ledger` | results, corrections and voids in every order, the daily limit with refunded and revived bets; leaving, returning, holds, adjustments, late settlements and purges; does all this implement the credit contract? | holds |
| `ledger_markets` | does a refunded bet stay refunded once its game reopened? | violated |
| `tx_requests` | claims and an adjustment of one account, bets of one account against the feed, enrolments and a departure of one user, settlements of several revisions, at once, redelivered and with lost answers; bets and claims on the requester's own account; three sessions in every lock order of the stores | holds |
| `tx_leaving` | is a bet only accepted from a member? | violated |
| `admin_commands` | two commands on one target, deadlines at both ends, failures, other writers, reused ids, a restart of either process: one effect per version, results and effects together, true reports, everybody answered, connections freed | holds |
| `admin_timeouts` | is a committed correction ever reported as unavailable when the dashboard's deadline passed? | violated |
| `observation` | polls, store failures, lost answers, decisions of an administrator, a restart, an unlink: one announcement, made in the end; verdicts stay. Links that come, go and are renamed: do their stored names catch up? | holds |
| `bot` | how old can the state of a stream be that a member is judged on? What do racing approvals leave, does paging miss a request, and do links change only as seen? Is everybody departed who was not seen, and is a stopping bot silent? One summary per hour, and a whole one? | holds |
| `departure` | does an enrolment end for leavers only? | violated |
| `lease` | does one process at a time own the lease? | violated |
| `sessions` | one session per sign-in, nothing that ended comes back, rights are current; the page says what happened and frees its marks; alerts are told; migrations are applied once | holds |
| `session_cookie` | does the browser get the session it was moved to? | violated |

**Bounds.** A grant is 2 steps and the largest stake 2, so that a balance can cover
none, one or several stakes, a recovery can exceed it, and a debt can be paid in
part. Two KST days and an offset of one tick make the date of an instant differ from
its day. Three or four revisions of a game are enough for a result, its correction, a
void and a result again; five operations are the shortest stories of a return after a
departure and of a settlement after a purge. Two games with corrections get six
operations on two days, and seven on one. Two sessions show every pairwise race of
statements; three are used where a cycle of waiting could need them. Each request
is delivered at most twice, since a third delivery finds the state of the second; of two
requests that are alike the first one is delivered first, which loses nothing but their names,
like the order of alike members and interactions in `bot`.
Two admin requests, one connection and one restart are enough for every pair of
races: a command that outlives its socket while the other one is served, a reused id,
an answer lost by a restart. Requests are numbered as they arrive, which loses no
behaviour. `FirstLongId` is 1 in the run, so that every HTTP request id is used as
operation id; a web process gives the same ids as the one before it. For
the streams of `bot`, a queue of two has an event behind a reconciliation, and
two changes of a stream that was off at first let an event, a reading and a lost event disagree. In
`observation` a ranked game is followed by an unranked one, time reaches the end of
the grace period and the interruption, and polls above `MaxGeneration` share its
number, which can only make the store refuse more.

Links: two accounts, three names and four operation ids let two requests of one member
and two for one account race, and a renamed account take a name another one had; a
batch and a page of one put a cursor between every two rows. Connection: one member, who is
in the server or enrolled at first and may join, enrol, leave and come back, two attempts for each "ready", two connects: an
attempt that goes on unheard meets the next one. Summaries: two interactions of one
member delivered twice with a restart, or one interaction against four messages and pages
of two. Sessions: two requests at once, three session ids (a sign-in and its rotations, or
two sign-ins), lives of one to three ticks in the order of the real ones, so that each
can be over while the next longer one is not. In an instant there are two sign-ins with
one change of roles or one with two; over time there is one of each, and time begins to pass
with the sign-in, before which there is no session. Page: two handlers of
any kind and a third one that submits the form of an incident, which is a second try when one
of them loaded the incidents and the other submitted it before; one thing of each kind and two requests, of which one can be approved, and either a
change by others or a page that is built again. Monitor: one alert that needs two runs and
one that needs one; a reminder after two ticks. Migrations: two migrators, two versions, two
texts with two kinds of line ends, and one accepted historical checksum. The lease: three
processes.

**Fairness.** Nothing is assumed of requests, of the feed, of members, of the
gateway or of failures. That transactions end is checked as safety:
`SomeTransactionGoesOn` says that one that has begun can always go on, and each has
finitely many statements.
* `admin_commands`: only that timers fire. Both deadlines are timers of their own
  process (`setTimeout` in `admin-command-ipc.ts`); the bot may never accept a
  connection and a command may hang for ever.
* `observation`: the interval timer begins ticks and a poll ends its question to Riot
  by `deadline` (weak); of the transactions and of the announcements that are tried
  again and again one succeeds (strong). Without the strong part Discord could refuse
  for ever. For links: the interval of the refresh comes around and what a run awaits
  ends (weak); of the answers and updates of a run at most `MaxFailures` in a row fail.
  `MCGameObservation` states the same fairness of each module within its scope.

**Disagreements found.** The violated runs state what an ADR, a plan
or a test says and the code does not do: a void bet is revived by the replacement game, and a
departure between the snapshot and the lock is not seen. PROJECT.json quotes the
lines. Corrections and cancellations are not among the mutations for which a time-out
means "outcome unknown", so the dashboard reports a committed one as
unavailable. A request that rotates the session to a new tier is answered without the
new cookies, and the browser's next one is unauthenticated. A member who joins and enrols
after a reconciliation fetched the members is departed by it. Two bots that judge the same
lease file stale can both own the lease. Visible in the models without a run of
its own: the limit of connections does not bound the commands that run, because a command
outlives the socket its deadline destroyed. Two more of the ADR on
the credit ledger are visible in the models and have no run of their own:
the daily claim is unique per account and not per user, so a member who leaves,
returns and enrols again can claim twice on one day (`KboLedger`: `Enroll` gives a
new account, `claims` is by account); and the start of the game is compared with an
instant taken before the row locks were waited for (`KboTransactions`: `Deliver` takes
`at`, `PlanBet` compares it).

`ReportsAreTrue` says of a success that the change is committed only for a request
whose operation id no other one had (`Fresh`): a reused HTTP request id is answered
with the stored result of the earlier command, whatever was asked for now.
In `GameObservation` a restarted bot numbers its polls from one while
`game_observation` keeps the numbers of the running game, so the store refuses its
first polls as duplicates; no property forbids it.
Two known behaviours of `GoLiveEvidence` and `GameObservation`: Discord may post an
announcement whose answer is lost, and the next poll posts it again; and a stream which ends while the gateway is lost is
`active`, then `unknown`, then `inactive`: the interruption allowance never starts.
`RiotLinks`: removing the primary link leaves a member with links of which none is
primary; the loser of two concurrent approvals is refused as `puuid_conflict`; an update
that fails ends the batch of the refresh until the next run. `GatewayRuntime`: a failing
label refresh aborts an attempt before it departs anybody; attempts that timed out go on
after the lease is freed. `Monitor`: a run that posted a recovery and did not write its file
leaves a critical alert that recurs untold until its six-hour reminder, and a warning
untold; `AlertsAreTold` states that exactly. One notification that cannot be posted keeps the later
ones of every run from being posted. `DashboardPage`: a saved setting is
reported as not saved when the audit log could not be read after it; a batch that ends
takes the marks of other handlers away and, when all were rejected, shows the links as of
its click. None of these contradicts a document of the repository, and no property forbids them.

## 5. Proofs

`KboLedgerProofs` proves of `KboLedger!Spec`, for every value of the constants that
satisfies the named assumptions:

* `LedgerTypeOK`: `TypeOK`. The part that is not routine is that balances and debts
  stay natural numbers: it rests on lemmas about the two allocation functions.
* `ClosedAccountsTheorem`: an account that is not open has no rows. Inductive
  together with `TypeOK`, since only an open account is written, and a purge clears
  every table of the accounts it closes.
* `LedgerExplainsBalanceTheorem`: the ledger chain. Inductive together with the two
  above: an account opens with an empty ledger because a closed one keeps nothing.
* `OneEffectTheorem`: inductive with the two first. It speaks of `Names(a, o)`, a row of
  `a` naming `o`, in place of the set of an account's operations; a row is only
  written under an operation that is unused, and a purge frees the ids of the rows it
  deletes and of no other.
* `SettlementChainTheorem`, `BetsAreBookedTheorem`: revisions only grow, so a settlement
  stays the result of its revision; the settlement that is appended to a chain is the
  one whose difference is posted.
* `BooksBalanceTheorem`: with them, conservation. Each step changes one summand of an
  account's worth and its balance by the same amount, or changes none of
  the account's rows; a purge leaves nothing on either side.
* `DailyLimitTheorem`: the bets the limit counts, those that were never void, only become
  fewer, but when a bet is placed; and what the placement counts, the bets whose status
  is not void, contains them. That status is the last settlement's, by `SettlementChain`.
* `HistoryKeptTheorem`: an action property, from `Accountable` and `SettlementChain`: a bet
  without settlements is one that is still pending, and a purge takes no account with one.
* `ImplementsContractTheorem`: the refinement. The initial states map to an initial state of
  `CreditContract`, and every step to `Open`, `Grant`, `Adjust`, `Stake`, `Resolve`, `Correct`, `Close` or a
  stutter. The invariants it needs are those above: a purged account has nothing, a bet
  that is pending has no settlement, the difference of a settlement is what its bet
  has returned less what it returned before.

The inductive invariant they share is `Accountable`: `TypeOK`, `ClosedAccountsKeepNothing`,
`OneEffect` and `FinitelyMany`; no bound on bets or claims is assumed, but an account
has finitely many at any time, which the sums need. `NoBetAssumption` says that `NoBet` is
neither a bet nor a position of the contract.

`SumTheorems` proves what `SumFunction` of the community module `Functions` does when a
summand is added, left out or changed. The library's induction theorems cannot be
instantiated by the installed provers, so induction over a finite set goes by the
least cardinality of a counterexample: `WFMin` over the natural numbers, which takes a set
and not a predicate. `KboLedger` therefore writes its sums with `SumFunction`.

`KboTransactionsProofs` proves of `KboTransactions!Spec`, for any number of connections,
users, accounts and games, any requests that are `WellFormed`, and any bounds on
deliveries, revisions and days:

* `TransactionsTypeOK`: `TypeOK`, part of the invariant `Serial`. `Good` says of every session
  which locks it has at each of its statements, what it has read and what it has
  decided; all of it is still true of the committed tables, because of what `Respects` says of
  the steps of every other session: they write a row only under its lock. It is the proof that
  the row locks are enough, and where: the open accounts of a user under the
  lock of the user, the bets and claims of an account under the row of the account, the
  revisions of a game under its row. `FindAccount` and `FindOwner` read without a lock, and
  `Found` keeps only what stays true: the account is open, a bet stays on its account and game.
* `TransactionsLoseNoUpdate`: inductive with `Serial`. `Accounted` writes the balance and the
  version of an account as sums over its rows; each commit adds a row and its amount, since the
  balance it writes was computed from the one in the table.
* `TransactionsHappenOnce`: from `Serial` and `Rows`, which ties each row to an
  accepted operation of its kind; the commit that would repeat one finds its operation used,
  or its day, market or revision taken, in the tables it has locked.
* `CommitsFollowTheRules`: an action property, from `Decided` at the step that commits, and from
  `FoundTheirs`: the account a bet or a claim was found on belongs to the user who asked, or to
  nobody any more. An account can be left, but is never handed on (`AccountsAreNotHandedOn`), which
  is why the enrolment need not be locked for that.
* `TransactionsKeepContract`: the refinement. A commit is the step `Open`, `Grant`, `Adjust`,
  `Stake`, `Resolve` or `Correct` of `CreditContract`, every other statement a stutter: the
  interleaved transactions take effect one by one, at their commits.
* `TransactionsAnswerTruly`: inductive with `Serial`. A step answers only what the rows say
  after it (`SaysSo`), and no later step takes a row of an operation or adds one to an
  operation that was decided (`RowsKept`).
* `TransactionsNeverDeadlock`: `NoRing`, of the transactions that have begun one does not wait
  for a lock, and only such transactions have locks. `Locks` names the statements
  at which a session may hold each kind of lock. Account rows are taken before game rows and
  both before operation ids, but an adjustment takes its operation id first: nobody holds that
  id and waits for it, so it still ends.

The assumptions: `TransactionConstants` gives the requests their fields, and a member
one account of the initial ones; `NoBetAssumption` says that `NoBet` is no bet. `SomeTransactionGoesOn`
itself, that one of the begun transactions can take a step, is written with ENABLED and is
model-checked; it says more than `NoRing` in that a free account id is there for an
enrolment, which depends on the size of `Accounts`.

`AdminCommandsProofs` proves of `AdminCommands!Spec`, for any numbers of requests,
targets, connections and restarts:

* `AdminTypeOK`: `TypeOK`, inductive with `ComesFirst` (nothing exists anywhere of a
  request that has not come yet) and `ClaimsAreThere` (a command
  that found its id claimed finds a result).
* `AdminResultsMatchEffects`, `AdminOneEffectPerVersion`: inductive with
  `EffectsAreBehind`: every effect was decided on a version the target has left, so
  a command that passes the comparison under the row lock decides on a new one.
* `AdminReportsAreTrue`: inductive with `AnswersAreFounded` (each answer on its way or
  in the hands of the bot is backed by a stored result or by a command that changed
  nothing), `SuccessesHaveAuthors` and `EffectsHaveRequests`. The invariant has to
  speak of every place an answer can wait in, because the socket, the bot and
  the web process fail separately.

`GameObservationProofs` proves of `GameObservation!Spec`, for any games and bounds:

* `ObservationTypeOK`: `TypeOK`, which contains that a violation still to be announced
  has a remembered game; it is inductive by itself.
* `ObservationVerdictsStay` and `ObservationUnlinked`: action properties, from
  `IncidentStep`, which names the three things a step may do to an incident.
* `ObservationAnnouncedOnce`: inductive with `TypeOK`. Games in violation never become
  fewer, by the lemmas behind `VerdictsStay`, and the step that owes an
  announcement adds one.

`SessionsProofs` proves of `Sessions!Spec`, for any numbers of requests, sign-ins,
sessions, any lifetimes of `SessionAssumption` and without a bound on the clock:

* `SessionTypeOK` and `SessionOnePerSignIn`: inductive together with `Fits` and
  `Signed`. `Fits` says of each step of a request which rows it has read: they are
  still there when it acts, because no statement deletes one. `Signed` says that the
  state of every session's sign-in is consumed: a second callback finds it used, so the
  session it would open has no sibling, and a rotation ends the one whose place
  its new session takes.
* `SessionsStayEnded`: an action property. `Keeps`, proved with every step, leaves
  ended rows and instants of sign-ins alone; `Signed` ties the absolute end of a
  session to its sign-in through rotations; and only the touch takes a request on
  (`OnlyTouchGoesOn`).
* `SessionRightsAreCurrent`: inductive with `RightsInv`. `Founded` follows the answer
  of the bot from the question to the route, through the cache and through a
  rotation, while roles change at any instant.

`OperationsProofs` holds, beside `LeaseTheorem`, the theorems of three of the modules that `MCSessions`
instantiates for run `sessions`, each of the specification of its module, for any values of its constants under
`OperationConstants`:

* `MigrationsTheorem` (`Database!MigrationSpec`): the invariant adds to the property that whoever
  applies a migration holds the lock and what it found still holds (`Applies`), and that a migrator
  has seen every version before its own in the ledger, in a form its files are accepted
  for (`Knows`): this is why the look without a lock is enough for the order.
* `PageIsHonestTheorem` (`Page!PageSpec`): inductive with `PageInv`. While a handler may call the server
  again it knows every change it has made (`KnowsChanges`), so a conflict means that it changed
  nothing; an answer that was lost ends it. A message is of a handler that calls no more
  (`MessageHolds`); that a setting is saved it says only after a call that succeeded and a log that was read. Whatever is marked, or shown as loading, is so for a handler of this page that is
  under way (`MarksHold`): a handler takes away its own marks at least (`FreesOwn`), and one of an
  earlier page marks nothing.
* `AlertsAreToldTheorem` (`Host!MonitorSpec`): an action property, from `MonitorInv`. A run holds what
  follows from the file and from what it saw, and what it no longer has to post was posted just
  now (`RunFollows`); the file's time since a notification is never shorter than that of who reads
  them (`FileIsNoNewer`), because it is reset after the post and only if the run ends well.

`BotProofs` holds the theorems of the modules that `MCBot` instantiates for run `bot`. They share
no state, so each theorem is of the specification of one of them, for any value of its constants:

* `StoppedBotTheorem` (`Gateway!GatewaySpec`): inductive with `Silent`. Once the runtime has
  stopped, what is in hand belongs to an earlier generation, and nothing is asked for any more.
* `CurrentMeansDepartedTheorem`: inductive with `Enrolled` and `Attempted`. Enrolments are counted, so
  "the enrolment of that time" is a number; an attempt that has listed the enrolled members
  departs those it has not seen (`Departed`), and an enrolment it departed does not come
  back: a member who enrols again has a later one.
* `SummaryIsWholeTheorem` (`Summary!SummarySpec`): inductive with `Reads`. `Chronicle` says that messages
  have the order of their ids in time, and `Complete` that a reader has all of its range from the
  oldest message it has seen on. A page has with a message every newer one (`PageIsUpward`), and a page
  that is not full is all there is (`ShortPageIsAll`).
* `OneSummaryPerHourTheorem`: inductive with `Reads`, `Booked` and `InHand`. A row that has yet to be
  written, by the bot or by a commit of a bot that has stopped, may be written at any time
  (`Lands`): a member has one of them at most, because of the lock of the member's row, so no
  reservation comes between its decision and it.

* `LinksAreApprovedTheorem` (`Riot!RiotSpec`): inductive with `Approved`. `Issued` says what a
  command in hand still finds: no link has its operation id, and the request it has locked is
  pending, because it is locked for nobody else. `Tied` makes the link of a request and
  the request of a link one-to-one, `Apart` keeps the links that are there, and those that an
  approval is about to commit, from clashing: this is what the two unique indexes give.
* `PagesMissNothingTheorem`: inductive with `Approved` and `Leafed`. A request that was decided is
  never pending again (`RequestsAreDecided`), so what is pending now and was at the first page
  was pending all the while; and a page leaves out nothing below its cursor (`NextPageFollows`).
* `LinksChangeAsSeenTheorem`: an action property of run `bot`, from `Approved` and `Tracked`. A link changes
  only into a later version (`Moved`), so one that still has the version it was listed in has the
  name it had then, which Riot's answer, read later, cannot precede; this holds for the
  target in hand and for the updates of stopped bots (`Answered`), and likewise for
  the link an administrator was shown (`Fit`).

* `EvidenceIsRecentTheorem` (`Spec` of `GoLiveEvidence`): inductive with `Recalled`. The clock moves once while
  a reconciliation runs, and only while the head of the queue waits for it, so an event at
  position `i` is at most `MaxQueue - i` ticks late, one more when the clock has moved for the
  reconciliation that is under way (`Lag`); what a reconciliation has read is of this tick or the last.
* `LateReconciliationLosesTheorem`: an action property, from `Recalled`: a reconciliation nobody has
  touched read the stream no earlier than anything that was heard before (`Heeded`).

`SummaryConstants` says that `None` is no reservation, `RiotConstants` that `Nothing` is no row, and
`EvidenceConstants` that `Nothing` is no evidence and that the bound on the queue lets an event wait for another.

**What holds where a run is violated.** Each of the violated properties is stated by the
repository; these theorems bound how far the code is from it.

* `LeaseTheorem` (`Lease!LeaseSpec`, for run `lease`): two bots can own the lease, but each removal of a
  stale file leaves one owner more at most, and what was judged stale names a dead process. The invariant
  `LeaseInv` counts: whoever holds the lease without its file (`Orphaned`) lost it to a removal (`Removals`).
  Without a removal there is one owner. `LeaseConstants`: finitely many processes ever claim
  the lease, and `Nothing` is not a file.
* `OnlyNewcomersTheorem` (`Gateway!GatewaySpec`, for `departure`): an action property, from `Enrolled`,
  `Attempted` and `LeaversKnown`. Whoever is departed without having left since they enrolled either
  was announced as a leaver before, or was not in the server when the attempt fetched the members and has
  enrolled since.
* `OnlyIncidentsTheorem` (`AdminCommands!Spec`, for `admin_timeouts`): of the requests whose deadline passed, a
  committed one is reported as unavailable only if it corrects or cancels an incident. It needs
  that an effect is what its request asked for (`EffectsAreAsked`) and that a passed
  deadline is told by kind (`DeadlinesAreTold`).
* `RetriesAreSafeTheorem`: whatever was reported, an administrator may ask again: of two requests
  for one version of a target at most one has an effect, and if one is told of a success of its own
  the other has none. From `OneEffectPerVersion` and `ReportsAreTrue`.
* `CommitsFollowTheRules` (for `tx_leaving`): a bet is accepted on an account of the user who asked, or on
  one that user has left; a departure is all that can be missed.
* `MovedSessionsNobodyHolds` (`Sessions!Spec`, for `session_cookie`): a session that is held by the browser or by
  a request is over once its sign-in has another one (`Superseded`). The session a rotation
  opened, whose cookie the routes do not send, is with nobody: the lost cookie costs another
  sign-in and leaves no second session in use. A rotation opens a session only in place of the one that
  is alive, and only the first session of a sign-in is sent.
* `SettlementChainTheorem` (for `ledger_markets`): a refunded bet may be revived, but every settlement remains the result
  of the revision it names, and the differences posted add up to what the bet has returned.

`GameRevised` publishes any content of any `Feed` in the proofs. Liveness and
ENABLED are out of the prover's reach: `EveryRequestAnswered`, `ConnectionsAreFreed`,
`ViolationsGetAnnounced`, `NamesCatchUp` and `SomeTransactionGoesOn` are checked by TLC.

## 6. Not modelled

Reads and rankings, formatting, audit rows (but where an answer depends on them), the
parsing of frames, forms and commands, credentials, the manifest of backups, deployment
scripts and the components marked "not modelled" in PROJECT.json: they keep no state of
their own or are shell. Of the modelled parts: guild ids (the bot serves one), the text of
denials, the schema's upper bounds on amounts (64-bit, far beyond what 50 units a day
can reach), the order of a purge's batch, the pages of the command log and the way back
through pages of incidents, the page of a member who is no administrator (it offers less),
and heartbeats. A process that dies between creating the lease file and writing its owner
leaves a file that is never stale: `SingletonLease` has it, and no property speaks of it, since
nothing in the repository promises that a later bot starts.
