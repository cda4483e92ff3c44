------------------------------ MODULE Sessions ------------------------------
(***************************************************************************)
(* The sign-in of one Discord member to the dashboard and the requests of  *)
(* their browser.  The browser keeps cookies, PostgreSQL keeps OAuth       *)
(* states, sessions and the role cache, and the bot answers what tier the  *)
(* member has.  A request is handled in steps with an await between them,  *)
(* and several requests are handled at once; every step that awaits may    *)
(* fail.  Instants are ticks of the clock.                                 *)
(***************************************************************************)
EXTENDS Integers, FiniteSets

CONSTANTS
  Requests,      \* HTTP requests handled at once
  States,        \* OAuth states, random and never issued twice
  Sids,          \* session ids, random and never generated twice
  Nothing,
  StateLife,     \* ten minutes
  CacheLife,     \* five minutes
  RecentLife,    \* fifteen minutes
  IdleLife,      \* a day
  AbsoluteLife,  \* seven days
  MaxTime,       \* bound: ticks of the clock
  MaxChanges     \* bound: changes of the member's roles

SessionConstants ==
  /\ States \subseteq Nat \ {0} /\ Sids \subseteq Nat \ {0}
  /\ Nothing \notin Nat
  /\ {StateLife, CacheLife, RecentLife, IdleLife, AbsoluteLife} \subseteq Nat \ {0}
  /\ CacheLife <= RecentLife /\ RecentLife <= IdleLife /\ IdleLife <= AbsoluteLife
  /\ MaxTime \in Nat /\ MaxChanges \in Nat

ASSUME SessionAssumption == SessionConstants

Tiers == {"operator", "administrator"}
BotAnswers == Tiers \cup {"unauthorized", "unavailable"}

VARIABLES
  now,
  tier,       \* what the bot answers: a tier or "unauthorized"
  changes,
  lastHeld,   \* history: when the bot last knew the member under a tier
  jar,        \* the browser's cookies: session and OAuth state
  state,      \* oauth_state
  row,        \* app_session
  cache,      \* role_cache
  request     \* what is being handled

tables == <<state, row, cache>>
world == <<now, tier, changes, lastHeld>>
vars == <<world, jar, tables, request>>

-----------------------------------------------------------------------------
Issued == {st \in States : state[st] # Nothing}
Created == {s \in Sids : row[s] # Nothing}
NextOf(ids, used) == CHOOSE i \in ids \ used : TRUE

Earlier(x, y) == IF x <= y THEN x ELSE y

\* Unrevoked, and neither expired at an instant.
Active(s, at) == ~row[s].revoked /\ at < row[s].idle /\ at < row[s].absolute

Usable(st, at) == state[st] # Nothing /\ ~state[st].used /\ at < state[st].expires

Free(r) == request[r] = Nothing
At(r, step) == request[r] # Nothing /\ request[r].step = step

\* A request that has just arrived: later it carries the instant its clock was read,
\* the tier in its session, the tier it was told and by whom, and the session it was
\* given.  (seen is history: the bot knew the member as an administrator meanwhile.)
Handled(kind, step, sid, st) ==
  [kind |-> kind, step |-> step, sid |-> sid, state |-> st, at |-> now,
   snapshot |-> Nothing, answer |-> Nothing, cached |-> FALSE, new |-> Nothing,
   seen |-> tier = "administrator"]

Goes(r, step) == request' = [request EXCEPT ![r].step = step]

\* A reply that sets cookies, or should: "reply" is the one to a rotated session.
Answer(step, sid, st, new) == [step |-> step, sid |-> sid, state |-> st, new |-> new]
Answers(r, step, new) ==
  request' = [request EXCEPT ![r] = Answer(step, @.sid, @.state, new)]
ExpiresState(r) == Answers(r, "expire_state", Nothing)

\* A reply without cookies, an error or not: the request is over.
Ends(r) == request' = [request EXCEPT ![r] = Nothing]

Init ==
  /\ now = 0 /\ tier \in Tiers /\ changes = 0
  /\ lastHeld = [t \in Tiers |-> IF t = tier THEN 0 ELSE Nothing]
  /\ jar = [session |-> Nothing, state |-> Nothing]
  /\ state = [st \in States |-> Nothing] /\ row = [s \in Sids |-> Nothing]
  /\ cache = Nothing
  /\ request = [r \in Requests |-> Nothing]

-----------------------------------------------------------------------------
\* The world.

Replying == {"reply", "set_state", "expire_state", "set_session", "clear_session"}

\* Requests are shorter than a tick, but may span one.
TimePasses ==
  /\ now < MaxTime /\ now' = now + 1
  /\ lastHeld' = [t \in Tiers |-> IF t = tier THEN now + 1 ELSE lastHeld[t]]
  /\ UNCHANGED <<tier, changes, jar, tables, request>>

\* The member gains or loses roles, leaves or returns.
TierChanges ==
  /\ changes < MaxChanges /\ changes' = changes + 1
  /\ tier' \in (Tiers \cup {"unauthorized"}) \ {tier}
  /\ lastHeld' = [t \in Tiers |-> IF t = tier' THEN now ELSE lastHeld[t]]
  /\ request' = [r \in Requests |->
       IF Free(r) THEN Nothing
       ELSE IF request[r].step \in Replying THEN request[r]
       ELSE [request[r] EXCEPT !.seen = @ \/ tier' = "administrator"]]
  /\ UNCHANGED <<now, jar, tables>>

\* A request arrives with the cookies of the browser; its clock is read.
Arrives(r, kind, step, st) ==
  /\ Free(r)
  /\ request' = [request EXCEPT ![r] = Handled(kind, step, jar.session, st)]

\* Whatever a step awaits fails or times out: the request has no further effect, and a
\* sign-in drops its state cookie.
Fails(r) ==
  /\ request[r] # Nothing
  /\ request[r].step \notin Replying
  /\ IF request[r].step \in {"check", "identify", "commit"} THEN ExpiresState(r) ELSE Ends(r)
  /\ UNCHANGED <<world, jar, tables>>

-----------------------------------------------------------------------------
\* Signing in.

\* login: a fresh state is stored and sent to the browser with the redirect.
Login(r) ==
  /\ Free(r) /\ States \ Issued # {}
  /\ LET st == NextOf(States, Issued)
     IN  /\ state' = [state EXCEPT ![st] = [expires |-> now + StateLife, used |-> FALSE]]
         /\ request' = [request EXCEPT ![r] = Answer("set_state", Nothing, st, Nothing)]
  /\ UNCHANGED <<world, jar, row, cache>>

\* Discord sends the browser back with the state of one of its sign-ins; the state
\* has to be the one in the cookie.
Callback(r) ==
  /\ \E st \in Issued :
       IF jar.state = st THEN Arrives(r, "callback", "check", st)
       ELSE Free(r) /\ request' = [request EXCEPT
                         ![r] = Answer("expire_state", jar.session, st, Nothing)]
  /\ UNCHANGED <<world, jar, tables>>

CheckState(r) ==
  /\ At(r, "check")
  /\ IF Usable(request[r].state, request[r].at) THEN Goes(r, "identify") ELSE ExpiresState(r)
  /\ UNCHANGED <<world, jar, tables>>

\* Discord names the member, and the bot their tier.
Identify(r) ==
  /\ At(r, "identify")
  /\ IF tier \in Tiers
     THEN request' = [request EXCEPT ![r].step = "commit", ![r].answer = tier]
     ELSE ExpiresState(r)
  /\ UNCHANGED <<world, jar, tables>>

\* Mutant: the state is not consumed in the transaction that signs in.
Consumable_Read(st, at) == state[st] # Nothing /\ at < state[st].expires

\* What the transaction that signs in looks for again.
Consumable(st, at) == Usable(st, at)

\* (login and since are history: the sign-in a session belongs to, and its instant.)
NewSession(t, at, absolute, oauth, login, since) ==
  [tier |-> t, idle |-> Earlier(at + IdleLife, absolute), absolute |-> absolute,
   oauth |-> oauth, revoked |-> FALSE, login |-> login, since |-> since]

\* The sessions once one of them, if there is such a one, is revoked.
WithoutSession(s) ==
  [x \in Sids |-> IF x = s /\ row[x] # Nothing THEN [row[x] EXCEPT !.revoked = TRUE] ELSE row[x]]

\* One transaction consumes the state, ends the session that the browser had, opens the
\* new one and remembers the tier; the cookies are released once it has committed,
\* unless the answer to the commit is lost.
CommitCallback(r) ==
  /\ At(r, "commit") /\ Sids \ Created # {}
  /\ LET me == request[r]
         s  == NextOf(Sids, Created)
     IN  IF ~Consumable(me.state, me.at) THEN ExpiresState(r) /\ UNCHANGED tables
         ELSE /\ state' = [state EXCEPT ![me.state].used = TRUE]
              /\ row' = [WithoutSession(me.sid) EXCEPT
                   ![s] = NewSession(me.answer, me.at, me.at + AbsoluteLife, me.at, me.state, me.at)]
              /\ cache' = [tier |-> me.answer, at |-> me.at]
              /\ \/ Answers(r, "set_session", s)
                 \/ ExpiresState(r)
  /\ UNCHANGED <<world, jar>>

-----------------------------------------------------------------------------
\* Requests with a session.

\* Without a session cookie nothing is asked of the tables.
Asks(r, kind) ==
  /\ jar.session # Nothing
  /\ Arrives(r, kind, "find", Nothing)
  /\ UNCHANGED <<world, jar, tables>>

\* What the routes ask for: to read, to change settings or see what is pending, to
\* decide, correct or remove something, which is of high risk, or to sign out.
AsksToRead(r) == Asks(r, "read")
AsksToChange(r) == Asks(r, "change")
AsksToDecide(r) == Asks(r, "high_risk")
AsksToLeave(r) == Asks(r, "logout")

\* The session is read, and has to be active.
FindSession(r) ==
  /\ At(r, "find")
  /\ IF Active(request[r].sid, request[r].at)
     THEN request' = [request EXCEPT ![r].step = "touch", ![r].snapshot = row[request[r].sid].tier]
     ELSE Ends(r)
  /\ UNCHANGED <<world, jar, tables>>

\* Mutant: the update looks at the expiry alone.
Touchable_Revoked(s, at) == at < row[s].idle /\ at < row[s].absolute

Touchable(s, at) == Active(s, at)

\* It is touched in a later statement, if it still is; then the clock is read again.
TouchSession(r) ==
  /\ At(r, "touch")
  /\ LET me == request[r] IN
       IF Touchable(me.sid, me.at)
       THEN /\ row' = [row EXCEPT ![me.sid].idle =
                         Earlier(me.at + IdleLife, row[me.sid].absolute)]
            /\ request' = [request EXCEPT ![r].at = now,
                 ![r].step = IF me.kind = "logout" THEN "revoke" ELSE "ask"]
       ELSE Ends(r) /\ UNCHANGED row
  /\ UNCHANGED <<world, jar, state, cache>>

\* Logout revokes the session, unless that was done meanwhile.
RevokeSession(r) ==
  /\ At(r, "revoke")
  /\ IF row[request[r].sid].revoked THEN Ends(r) ELSE Answers(r, "clear_session", Nothing)
  /\ row' = WithoutSession(request[r].sid)
  /\ UNCHANGED <<world, jar, state, cache>>

\* The bot answers, or does not in time.
AskBot(r) ==
  /\ At(r, "ask")
  /\ \E answer \in {tier, "unavailable"} :
       request' = [request EXCEPT ![r].step = "verify", ![r].answer = answer]
  /\ UNCHANGED <<world, jar, tables>>

Recent(then, at, life) == then <= at /\ at - then <= life

\* Mutant: a remembered tier is as good as the bot's for every request.
MayUseCache_Always(kind) == kind # "logout"

\* Only a read makes do with a remembered tier.
MayUseCache(kind) == kind = "read"

\* The answer is remembered, and judged: a change needs the bot's answer, and one of
\* high risk a recent sign-in.  A tier that differs from the session's moves the browser
\* to another session.
Verify(r) ==
  /\ At(r, "verify")
  /\ LET me     == request[r]
         old    == row[me.sid]
         stale  == me.kind = "high_risk" /\ ~Recent(old.oauth, me.at, RecentLife)
         known  == cache # Nothing /\ Recent(cache.at, me.at, CacheLife)
     IN  IF me.answer \in Tiers
         THEN /\ cache' = [tier |-> me.answer, at |-> me.at]
              /\ IF stale THEN Ends(r)
                 ELSE Goes(r, IF me.answer # me.snapshot THEN "rotate" ELSE "act")
         ELSE /\ UNCHANGED cache
              /\ IF me.answer = "unavailable" /\ MayUseCache(me.kind) /\ known
                 THEN request' = [request EXCEPT
                        ![r].step = "act", ![r].answer = cache.tier, ![r].cached = TRUE]
                 ELSE Ends(r)
  /\ UNCHANGED <<world, jar, state, row>>

\* It has to be there to be revoked.
Rotatable(s) == ~row[s].revoked

\* Mutant: the request goes on with the new session before it is stored.
Rotate_Early(r) ==
  /\ At(r, "rotate") /\ Sids \ Created # {}
  /\ request' = [request EXCEPT ![r].step = "act", ![r].new = NextOf(Sids, Created)]
  /\ UNCHANGED <<world, jar, tables>>

\* One transaction revokes the session and opens another one with the new tier, which
\* ends when the old one would have; the request goes on unless the answer to the
\* commit is lost.
Rotate(r) ==
  /\ At(r, "rotate") /\ Sids \ Created # {}
  /\ LET me  == request[r]
         old == row[me.sid]
         s   == NextOf(Sids, Created)
     IN  IF ~Rotatable(me.sid) THEN Ends(r) /\ UNCHANGED row
         ELSE /\ row' = [WithoutSession(me.sid) EXCEPT
                   ![s] = NewSession(me.answer, me.at, old.absolute, old.oauth,
                                     old.login, old.since)]
              /\ \/ request' = [request EXCEPT ![r].step = "act", ![r].new = s]
                 \/ Ends(r)
  /\ UNCHANGED <<world, jar, state, cache>>

\* The route does what it is for; changes are for administrators.
Act(r) ==
  /\ At(r, "act")
  /\ IF request[r].new = Nothing THEN Ends(r) ELSE Answers(r, "reply", request[r].new)
  /\ UNCHANGED <<world, jar, tables>>

-----------------------------------------------------------------------------
\* Replies.

\* The routes answer without the cookies of the session that was rotated in.
Replies(r) ==
  /\ At(r, "reply") /\ Ends(r)
  /\ UNCHANGED <<world, jar, tables>>

\* The reply to a login, a sign-in or a logout sets cookies, if it gets there.
Receives(r) ==
  /\ \/ At(r, "set_state") /\ jar' \in {jar, [jar EXCEPT !.state = request[r].state]}
     \/ At(r, "expire_state") /\ jar' \in {jar, [jar EXCEPT !.state = Nothing]}
     \/ At(r, "set_session") /\ jar' \in {jar, [session |-> request[r].new, state |-> Nothing]}
     \/ At(r, "clear_session") /\ jar' \in {jar, [jar EXCEPT !.session = Nothing]}
  /\ Ends(r)
  /\ UNCHANGED <<world, tables>>

-----------------------------------------------------------------------------
Next ==
  \/ TimePasses \/ TierChanges
  \/ \E r \in Requests :
       \/ Login(r) \/ Callback(r) \/ CheckState(r) \/ Identify(r) \/ CommitCallback(r)
       \/ AsksToRead(r) \/ AsksToChange(r) \/ AsksToDecide(r) \/ AsksToLeave(r)
       \/ FindSession(r) \/ TouchSession(r) \/ RevokeSession(r)
       \/ AskBot(r) \/ Verify(r) \/ Rotate(r) \/ Act(r)
       \/ Fails(r) \/ Replies(r) \/ Receives(r)

Spec == Init /\ [][Next]_vars

-----------------------------------------------------------------------------
Rows == [tier : Tiers, idle : Nat, absolute : Nat, oauth : Nat, revoked : BOOLEAN,
         login : States, since : Nat]
Steps == {"check", "identify", "commit", "find", "touch", "revoke", "ask", "verify", "rotate", "act"}
Working ==
  [kind : {"callback", "read", "change", "high_risk", "logout"}, step : Steps,
   sid : Sids \cup {Nothing}, state : States \cup {Nothing}, at : Nat,
   snapshot : Tiers \cup {Nothing}, answer : BotAnswers \cup {Nothing},
   cached : BOOLEAN, new : Sids \cup {Nothing}, seen : BOOLEAN]
Answering ==
  [step : Replying, sid : Sids \cup {Nothing}, state : States \cup {Nothing},
   new : Sids \cup {Nothing}]
Handling == Working \cup Answering

\* Nothing is not a record.
ASSUME NothingAssumption ==
  Nothing \notin Rows /\ Nothing \notin [expires : Nat, used : BOOLEAN] /\ Nothing \notin Handling

\* Types; a cookie, in the browser or in a reply, names a committed row: nothing that is
\* released to a browser was rolled back.
TypeOK ==
  /\ now \in Nat /\ tier \in Tiers \cup {"unauthorized"} /\ changes \in Nat
  /\ lastHeld \in [Tiers -> Nat \cup {Nothing}]
  /\ jar \in [session : Created \cup {Nothing}, state : Issued \cup {Nothing}]
  /\ state \in [States -> [expires : Nat, used : BOOLEAN] \cup {Nothing}]
  /\ row \in [Sids -> Rows \cup {Nothing}]
  /\ cache \in [tier : Tiers, at : Nat] \cup {Nothing}
  /\ request \in [Requests -> Handling \cup {Nothing}]
  /\ \A r \in Requests : ~Free(r) => {request[r].sid, request[r].new} \subseteq Created \cup {Nothing}

\* One sign-in, one session: however often its callback is sent, and however many
\* requests of the browser move it to another tier at once, at most one session that
\* goes back to an OAuth state is not revoked.
OneSessionPerSignIn ==
  \A s, t \in Created :
    row[s].login = row[t].login /\ ~row[s].revoked /\ ~row[t].revoked => s = t

\* Action property: what ended does not come back.  A revoked session is never touched
\* again; and no request, however many rotations later, gets past the look at the
\* session more than seven days after the sign-in its session goes back to.
EndedSignInsStayEnded ==
  [][/\ \A s \in Created : row[s].revoked => row'[s] = row[s]
     /\ \A r \in Requests : At(r, "touch") /\ (At(r, "ask") \/ At(r, "revoke"))' =>
          request[r].at < row[request[r].sid].since + AbsoluteLife]_vars

\* Who acts has the right to.  A change is made only if the bot knew the member as an
\* administrator while the request ran; one of high risk within the recent time of the
\* sign-in; and what is read on a remembered tier, the bot confirmed that recently.
RightsAreCurrent ==
  \A r \in Requests : At(r, "act") =>
    LET me == request[r]
    IN  /\ me.kind # "read" /\ me.answer = "administrator" => me.seen
        /\ me.kind = "high_risk" => me.at <= row[me.sid].since + RecentLife
        /\ me.cached => lastHeld[me.answer] # Nothing /\ lastHeld[me.answer] + CacheLife >= me.at

\* Action property, after the test "rotates the session when the current privilege tier
\* changes": a browser whose request was moved to another session holds that session when
\* it has the reply, unless it signed in or out in the meantime.  The routes of the
\* dashboard answer without the cookies.
RotationReachesBrowser ==
  [][\A r \in Requests :
       At(r, "reply") /\ request[r].new # Nothing /\ Free(r)' /\ jar.session = request[r].sid
         => jar'.session = request[r].new]_vars
=============================================================================
