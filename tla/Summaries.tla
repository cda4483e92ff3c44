----------------------------- MODULE Summaries ------------------------------
(***************************************************************************)
(* Summaries of a conversation, a member's one per hour.  The bot handles  *)
(* one command at a time: it reads the channel page by page, newest first, *)
(* reserves the member's hour in a transaction, has the messages           *)
(* summarised by another service, records the outcome and answers.  Any of *)
(* this may fail; the bot may restart and leave a commit under way; Discord*)
(* may deliver an interaction again.                                       *)
(***************************************************************************)
EXTENDS Integers, Sequences, FiniteSets, FiniteSetsExt

CONSTANTS
  Interactions,
  Asker,          \* the member of each interaction
  Spans,          \* how far back a summary may go
  Ids,            \* ids of messages, in the order they are posted: an interval from 1
  PageLimit,      \* messages of one page (100)
  Capacity,       \* messages that fit into one summary (a number of bytes)
  Hour,
  None,
  MaxTime,        \* bound: the clock
  MaxDeliveries,  \* bound: deliveries of an interaction
  MaxRestarts,    \* bound: restarts of the bot
  MaxDeletions    \* bound: messages that are deleted

SummaryConstants ==
  /\ Spans \subseteq Nat \ {0} /\ PageLimit \in Nat \ {0} /\ Hour \in Nat \ {0}
  /\ \A n \in {Capacity, MaxTime, MaxDeliveries, MaxRestarts, MaxDeletions} : n \in Nat
  /\ IsFiniteSet(Ids) /\ Ids = 1..Cardinality(Ids)
  /\ None \notin Nat \cup [decision : {"reserved", "cooldown"}, at : Nat]

VARIABLES
  now,
  posted,       \* when each message was posted, or None
  channel,      \* the messages that are there
  inbox,        \* interactions to handle, in order
  deliveries,   \* of each interaction
  command,      \* the one in hand
  unsettled,    \* reservations whose commit a stopped bot had sent
  reservation,  \* summary_quota_reservation
  audited,      \* the outcome that audit_event keeps of each interaction
  provided,     \* what the service was given
  answered,     \* interactions that got an answer
  stops         \* how often the bot has stopped

conversation == <<posted, channel>>
outside == <<inbox, deliveries>>
quota == <<unsettled, reservation>>
outcomes == <<audited, provided, answered>>
summaryVars == <<now, conversation, outside, command, quota, outcomes, stops>>

SummaryInit ==
  /\ now = Hour /\ stops = 0
  /\ \E n \in {0} \cup Ids : /\ channel = {i \in Ids : i <= n}
                             /\ posted \in [Ids -> 0..(Hour - 1) \cup {None}]
                             /\ \A i \in Ids : (posted[i] = None) = (i > n)
                             /\ \A i, j \in channel : i < j => posted[i] <= posted[j]
  /\ inbox = <<>> /\ deliveries = [i \in Interactions |-> 0] /\ command = None
  /\ unsettled = {} /\ reservation = [i \in Interactions |-> None]
  /\ audited = [i \in Interactions |-> None] /\ provided = {} /\ answered = {}

-----------------------------------------------------------------------------
Tick ==
  /\ now < MaxTime /\ now' = now + 1
  /\ UNCHANGED <<conversation, outside, command, quota, outcomes, stops>>

Post(i) ==
  /\ posted[i] = None /\ \A j \in Ids : j < i => posted[j] # None
  /\ posted' = [posted EXCEPT ![i] = now] /\ channel' = channel \cup {i}
  /\ UNCHANGED <<now, outside, command, quota, outcomes, stops>>

Deleted == {i \in Ids : posted[i] # None} \ channel

Delete(i) ==
  /\ i \in channel /\ Cardinality(Deleted) < MaxDeletions
  /\ channel' = channel \ {i}
  /\ UNCHANGED <<now, posted, outside, command, quota, outcomes, stops>>

\* attachDiscordCommandListener: a command waits for those before it.
Deliver(i) ==
  /\ deliveries[i] < MaxDeliveries
  /\ deliveries' = [deliveries EXCEPT ![i] = @ + 1] /\ inbox' = Append(inbox, i)
  /\ UNCHANGED <<now, conversation, command, quota, outcomes, stops>>

-----------------------------------------------------------------------------
At(step) == command # None /\ command.step = step
Moves(to) == command' = to /\ UNCHANGED <<now, conversation, outside, stops>>
Decides(outcome) == Moves([step |-> "audit", id |-> command.id, outcome |-> outcome])
Me == Asker[command.id]

InRange(i, from, to) == posted[i] >= from /\ posted[i] < to

\* The answer is deferred, and the range ends now.
Begin ==
  /\ command = None /\ inbox # <<>> /\ inbox' = Tail(inbox)
  /\ \E span \in Spans :
       command' = [step |-> "read", id |-> Head(inbox), from |-> now - span, to |-> now,
                   before |-> 0, collected |-> {},
                   there |-> {i \in channel : InRange(i, now - span, now)}]
  /\ UNCHANGED <<now, conversation, deliveries, quota, outcomes, stops>>

\* ... or deferring it fails, and with it the command.
NotDeferred ==
  /\ command = None /\ inbox # <<>> /\ inbox' = Tail(inbox)
  /\ UNCHANGED <<now, conversation, deliveries, command, quota, outcomes, stops>>

Newest(ids) == {i \in ids : Cardinality({j \in ids : j > i}) < PageLimit}

\* Mutant: the last message of a page ends it when it is in the range.
Last_Early(page, from) == Cardinality(page) < PageLimit \/ posted[Min(page)] <= from

\* A page is the last one if it is not full or reaches back beyond the range.
Last(page, from) == Cardinality(page) < PageLimit \/ posted[Min(page)] < from

\* collectCompleteConversation, one page.
ReadPage ==
  /\ At("read")
  /\ LET page == Newest({i \in channel : command.before = 0 \/ i < command.before})
         collected == command.collected \cup {i \in page : InRange(i, command.from, command.to)}
     IN  Moves(IF Last(page, command.from)
               THEN [step |-> "check", id |-> command.id, collected |-> collected,
                     from |-> command.from, to |-> command.to, there |-> command.there \cap channel]
               ELSE [command EXCEPT !.before = Min(page), !.collected = collected])
  /\ UNCHANGED <<quota, outcomes>>

\* Discord does not give a page: no summary of a part.
ReadFails ==
  /\ At("read") /\ Decides("failure")
  /\ UNCHANGED <<quota, outcomes>>

\* Nothing to summarise, or too much, costs no reservation.
CheckSize ==
  /\ At("check")
  /\ IF command.collected = {} \/ Cardinality(command.collected) > Capacity THEN Decides("failure")
     ELSE Moves([step |-> "reserve", id |-> command.id,
                 call |-> [id |-> command.id, messages |-> command.collected, from |-> command.from,
                           to |-> command.to, there |-> command.there]])
  /\ UNCHANGED <<quota, outcomes>>

-----------------------------------------------------------------------------
\* PostgresSummaryQuotaStore.reserve

\* What the decision means: a duplicate of what was reserved is summarised again.
Meant(decision, call) ==
  IF decision = "reserved" THEN [step |-> "summarize", id |-> call.id, call |-> call]
  ELSE [step |-> "audit", id |-> call.id, outcome |-> "denied"]

\* The time is taken and the transaction begins: was the operation decided before?
FindReservation ==
  /\ At("reserve")
  /\ Moves(IF reservation[command.id] # None
           THEN Meant(reservation[command.id].decision, command.call)
           ELSE [step |-> "lock", id |-> command.id, call |-> command.call, at |-> now])
  /\ UNCHANGED <<quota, outcomes>>

\* Mutant: the row of the member is read without a lock.
RowFree_Always(user) == TRUE

\* The row of the member: nobody who wrote or locked it has yet to commit.
RowFree(user) == \A r \in unsettled : Asker[r.id] # user

Reserved(user) == {i \in Interactions : reservation[i] # None /\ reservation[i].decision = "reserved"
                                        /\ Asker[i] = user}

\* With the row locked the latest reservation is read, and the decision written.
WriteReservation ==
  /\ At("lock") /\ RowFree(Me)
  /\ LET cooling == Reserved(Me) # {} /\
           command.at < Max({reservation[i].at : i \in Reserved(Me)}) + Hour
     IN  IF reservation[command.id] # None THEN Decides("failure")
         ELSE Moves([step |-> "commit", id |-> command.id, call |-> command.call,
                     row |-> [decision |-> IF cooling THEN "cooldown" ELSE "reserved", at |-> command.at]])
  /\ UNCHANGED <<quota, outcomes>>

Commit ==
  /\ At("commit")
  /\ reservation' = [reservation EXCEPT ![command.id] = command.row]
  /\ Moves(Meant(command.row.decision, command.call))
  /\ UNCHANGED <<unsettled, outcomes>>

\* The transaction fails, or only its answer is lost.
ReserveFails ==
  /\ At("reserve") \/ At("lock") \/ At("commit")
  /\ Decides("failure")
  /\ \/ UNCHANGED reservation
     \/ At("commit") /\ reservation' = [reservation EXCEPT ![command.id] = command.row]
  /\ UNCHANGED <<unsettled, outcomes>>

-----------------------------------------------------------------------------
\* The service gets the messages, and gives a summary or none.
Summarize ==
  /\ At("summarize")
  /\ provided' = provided \cup {command.call}
  /\ Decides("success") \/ Decides("failure")
  /\ UNCHANGED <<quota, audited, answered>>

\* The first outcome of an interaction is the one that is kept.  (The same statement
\* writes the row of the member.)
AppendAudit ==
  /\ At("audit") /\ RowFree(Me)
  /\ audited' = [audited EXCEPT ![command.id] = IF @ = None THEN command.outcome ELSE @]
  /\ Moves([step |-> "reply", id |-> command.id])
  /\ UNCHANGED <<quota, provided, answered>>

Reply ==
  /\ At("reply")
  /\ answered' = answered \cup {command.id} /\ Moves(None)
  /\ UNCHANGED <<quota, audited, provided>>

\* Neither an outcome that cannot be recorded nor an answer that cannot be sent is tried again.
GiveUp ==
  /\ At("audit") \/ At("reply")
  /\ Moves(None)
  /\ UNCHANGED <<quota, outcomes>>

\* The bot stops and starts.  A commit that it has sent is executed later, or never.
Restart ==
  /\ stops < MaxRestarts /\ stops' = stops + 1
  /\ inbox' = <<>> /\ command' = None
  /\ unsettled' = IF At("commit") THEN unsettled \cup {[id |-> command.id, row |-> command.row]}
                  ELSE unsettled
  /\ UNCHANGED <<now, conversation, deliveries, reservation, outcomes>>

Settle ==
  /\ \E r \in unsettled :
       /\ unsettled' = unsettled \ {r}
       /\ reservation' = [reservation EXCEPT ![r.id] = r.row] \/ UNCHANGED reservation
  /\ UNCHANGED <<now, conversation, outside, command, outcomes, stops>>

-----------------------------------------------------------------------------
SummaryNext ==
  \/ Tick \/ (\E i \in Ids : Post(i) \/ Delete(i)) \/ (\E i \in Interactions : Deliver(i))
  \/ Begin \/ NotDeferred \/ ReadPage \/ ReadFails \/ CheckSize
  \/ FindReservation \/ WriteReservation \/ Commit \/ ReserveFails
  \/ Summarize \/ AppendAudit \/ Reply \/ GiveUp \/ Restart \/ Settle

SummarySpec == SummaryInit /\ [][SummaryNext]_summaryVars

-----------------------------------------------------------------------------
\* A member has the messages of one interaction per hour sent away, however often it is
\* delivered, wherever the bot stops and whenever its commit is executed; and nothing is
\* sent away that was not reserved first.
OneSummaryPerHour ==
  /\ \A u \in {Asker[i] : i \in Interactions} : \A i, j \in Reserved(u) :
       i # j => reservation[i].at >= reservation[j].at + Hour \/ reservation[j].at >= reservation[i].at + Hour
  /\ \A call \in provided : call.id \in Reserved(Asker[call.id])

\* A summary is of all that was said in its range and stayed, and of nothing else: not of
\* some pages, whatever is posted and deleted while they are read.
SummaryIsWhole ==
  \A call \in provided :
    /\ call.there \subseteq call.messages
    /\ \A i \in call.messages : InRange(i, call.from, call.to)
=============================================================================
