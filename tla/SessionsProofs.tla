--------------------------- MODULE SessionsProofs ---------------------------
(***************************************************************************)
(* The sessions of the dashboard, for any number of requests, sign-ins and *)
(* sessions, and any lifetimes.  Fits says what a request knows at each of *)
(* its steps: what it once read of the tables is still there, since rows   *)
(* are never deleted while a request runs.  Signed says what a session owes*)
(* to its sign-in, Founded what a request holds on to of what the bot has  *)
(* said, and the last section where the session that a rotation opens is.  *)
(***************************************************************************)
EXTENDS Sessions, TLAPS

\* A request, where it is: the rows that it names are there.
Fits(q) ==
  q # Nothing =>
    /\ q \in Handling /\ {q.sid, q.new} \subseteq Created \cup {Nothing}
    /\ q.step \in {"check", "identify", "commit", "set_state"} => q.state \in Issued
    /\ q.step \in {"find", "touch", "revoke", "ask", "verify", "rotate", "act"} => q.sid \in Created
    /\ q.step \in {"commit", "rotate"} => q.answer \in Tiers

RequestsFit ==
  /\ request \in [Requests -> Handling \cup {Nothing}]
  /\ \A r \in Requests : Fits(request[r])

\* What everything else has its type for.
TablesOK ==
  /\ now \in Nat /\ tier \in Tiers \cup {"unauthorized"} /\ changes \in Nat
  /\ lastHeld \in [Tiers -> Nat \cup {Nothing}]
  /\ jar \in [session : Created \cup {Nothing}, state : Issued \cup {Nothing}]
  /\ state \in [States -> [expires : Nat, used : BOOLEAN] \cup {Nothing}]
  /\ row \in [Sids -> Rows \cup {Nothing}]
  /\ cache \in [tier : Tiers, at : Nat] \cup {Nothing}

\* A session goes back to a state that is consumed, and ends seven days after it.
Signed ==
  \A s \in Created : /\ row[s].login \in Issued /\ state[row[s].login].used
                     /\ row[s].absolute = row[s].since + AbsoluteLife
                     /\ row[s].oauth = row[s].since

SessionInv == TablesOK /\ RequestsFit /\ Signed /\ OneSessionPerSignIn

-----------------------------------------------------------------------------
\* Every type is there.
LEMMA InvType == SessionInv => TypeOK
  BY DEF SessionInv, TablesOK, RequestsFit, Fits, TypeOK, Free

\* A session that has ended stays as it is, and every session stays with its sign-in.
Keeps == \A s \in Created : row'[s].since = row[s].since /\ (row[s].revoked => row'[s] = row[s])

\* The tables only grow.
Grow == Created \subseteq Created' /\ Issued \subseteq Issued'

\* What fits goes on to.
LEMMA FitsStays ==
  ASSUME Grow, NEW CONSTANT q, Fits(q)
  PROVE  Fits(q)'
  BY DEF Grow, Fits, Handling

\* A step of one request.
LEMMA RequestStep ==
  ASSUME RequestsFit, Grow, NEW r \in Requests, NEW CONSTANT q,
         request' = [request EXCEPT ![r] = q], Fits(q)'
  PROVE  RequestsFit'
<1>1. q \in Handling \cup {Nothing}
  BY DEF Fits, Handling
<1>2. request' \in [Requests -> Handling \cup {Nothing}]
  BY <1>1 DEF RequestsFit
<1>3. ASSUME NEW k \in Requests PROVE Fits(request[k])'
  <2>1. CASE k = r
    <3>1. request'[k] = q
      BY <2>1 DEF RequestsFit
    <3> QED BY <3>1 DEF Fits
  <2>2. CASE k # r
    <3>1. PICK p : p = request[k]
      OBVIOUS
    <3>2. request'[k] = p /\ Fits(p)
      BY <2>2, <3>1 DEF RequestsFit, Fits
    <3>3. Fits(p)'
      BY <3>2, FitsStays
    <3> QED BY <3>2, <3>3 DEF Fits
  <2> QED BY <2>1, <2>2
<1> QED BY <1>2, <1>3 DEF RequestsFit, Handling

\* A step that leaves the tables alone.
LEMMA OnlyRequests ==
  ASSUME SessionInv, UNCHANGED <<world, jar, tables>>, RequestsFit'
  PROVE  SessionInv'
<1>1. /\ now' = now /\ tier' = tier /\ changes' = changes /\ lastHeld' = lastHeld /\ jar' = jar
      /\ state' = state /\ row' = row /\ cache' = cache /\ Created' = Created /\ Issued' = Issued
  BY DEF world, tables, Created, Issued
<1>2. TablesOK'
  BY <1>1 DEF SessionInv, TablesOK
<1>3. Signed' /\ OneSessionPerSignIn'
  BY <1>1 DEF SessionInv, Signed, OneSessionPerSignIn
<1> QED BY <1>2, <1>3 DEF SessionInv

\* A step that touches or ends sessions: none is born, none loses what it owes to its
\* sign-in, and none that has ended is alive again.
LEMMA SessionsStay ==
  ASSUME TablesOK, Signed, OneSessionPerSignIn, UNCHANGED state,
         row' \in [Sids -> Rows \cup {Nothing}],
         \A s \in Sids :
           /\ row'[s] = Nothing <=> row[s] = Nothing
           /\ row[s] # Nothing => /\ row'[s].login = row[s].login /\ row'[s].since = row[s].since
                                  /\ row'[s].absolute = row[s].absolute /\ row'[s].oauth = row[s].oauth
                                  /\ row[s].revoked => row'[s].revoked
  PROVE  Created' = Created /\ Issued' = Issued /\ Signed' /\ OneSessionPerSignIn'
<1>1. Created' = Created /\ Issued' = Issued
  BY DEF Created, Issued
<1>2. \A s \in Created : s \in Sids /\ row[s] # Nothing
  BY DEF Created
<1>3. Signed'
  BY <1>1, <1>2 DEF Signed
<1>4. OneSessionPerSignIn'
  BY <1>1, <1>2 DEF OneSessionPerSignIn
<1> QED BY <1>1, <1>3, <1>4

-----------------------------------------------------------------------------
\* A request that is not yet answered has all its fields.
LEMMA WorkingAt ==
  ASSUME RequestsFit, NEW r \in Requests, NEW step \in Steps, At(r, step)
  PROVE  request[r] \in Working /\ request[r].step = step /\ request[r] # Nothing /\ Fits(request[r])
<1>1. request[r] # Nothing /\ request[r].step = step /\ Fits(request[r])
  BY DEF At, RequestsFit
<1>2. request[r] \in Handling
  BY <1>1 DEF Fits
<1>3. step \notin Replying
  BY DEF Steps, Replying
<1> QED BY <1>1, <1>2, <1>3 DEF Handling, Answering

\* A request that is over, or answered without cookies, is no longer there.
LEMMA EndsStep ==
  ASSUME RequestsFit, Grow, NEW r \in Requests, Ends(r)
  PROVE  RequestsFit'
<1>1. Fits(Nothing)'
  BY DEF Fits
<1> QED BY <1>1, RequestStep DEF Ends

\* An answer keeps the names of its request.
LEMMA AnswersStep ==
  ASSUME RequestsFit, Grow, NEW r \in Requests, request[r] # Nothing,
         NEW step \in Replying \ {"set_state"}, NEW CONSTANT new, new \in Created' \cup {Nothing},
         Answers(r, step, new)
  PROVE  RequestsFit'
<1>1. PICK q : q = Answer(step, request[r].sid, request[r].state, new)
  OBVIOUS
<1>2. request' = [request EXCEPT ![r] = q]
  BY <1>1 DEF Answers, RequestsFit
<1>3. Fits(request[r])
  BY DEF RequestsFit
<1>4. request[r].sid \in Created \cup {Nothing} /\ request[r].state \in States \cup {Nothing}
  BY <1>3 DEF Fits, Handling, Working, Answering
<1>5. new \in Sids \cup {Nothing} /\ request[r].sid \in Created' \cup {Nothing} /\ request[r].sid \in Sids \cup {Nothing}
  BY <1>4 DEF Grow, Created
<1>6. q.step = step /\ q.sid = request[r].sid /\ q.new = new /\ q \in Answering
  BY <1>1, <1>4, <1>5 DEF Answer, Answering
<1>7. Fits(q)'
  BY <1>5, <1>6 DEF Fits, Handling, Answering, Replying
<1> QED BY <1>2, <1>7, RequestStep

\* Leaving the tables alone is a way to grow.
LEMMA SameTablesGrow ==
  ASSUME UNCHANGED <<state, row>> PROVE Grow /\ Created' = Created /\ Issued' = Issued
  BY DEF Grow, Created, Issued

\* The answer without a session, to a sign-in that does not go on.
LEMMA ExpiresStep ==
  ASSUME RequestsFit, Grow, NEW r \in Requests, request[r] # Nothing, ExpiresState(r)
  PROVE  RequestsFit'
<1>1. "expire_state" \in Replying \ {"set_state"}
  BY DEF Replying
<1> QED BY <1>1, AnswersStep DEF ExpiresState

\* A new request has what its kind and the cookies give it.
LEMMA ArrivesStep ==
  ASSUME SessionInv, Grow, NEW r \in Requests,
         NEW kind \in {"callback", "read", "change", "high_risk", "logout"}, NEW step \in {"check", "find"},
         NEW st \in Issued \cup {Nothing}, Arrives(r, kind, step, st),
         step = "check" => st \in Issued, step = "find" => jar.session # Nothing
  PROVE  RequestsFit'
<1>1. PICK q : q = Handled(kind, step, jar.session, st)
  OBVIOUS
<1>2. request' = [request EXCEPT ![r] = q]
  BY <1>1 DEF Arrives
<1>3. now \in Nat /\ jar.session \in Created \cup {Nothing} /\ jar.session \in Sids \cup {Nothing}
      /\ st \in States \cup {Nothing} /\ step \in Steps
  BY DEF SessionInv, TablesOK, Created, Issued, Steps
<1>4. q \in Working
  BY <1>1, <1>3 DEF Working, Handled
<1>5. q.sid = jar.session /\ q.new = Nothing /\ q.step = step /\ q.state = st
  BY <1>1 DEF Handled
<1>6. Fits(q)
  BY <1>3, <1>4, <1>5 DEF Fits, Handling
<1>7. Fits(q)'
  BY <1>6, FitsStays
<1> QED BY <1>2, <1>7, RequestStep DEF SessionInv

\* A request goes on, with more in its record.
LEMMA GoesOn ==
  ASSUME RequestsFit, Grow, NEW r \in Requests, NEW CONSTANT q, q \in Working,
         request' = [request EXCEPT ![r] = q], request[r] # Nothing,
         q.sid = request[r].sid, q.state = request[r].state, q.new \in Created' \cup {Nothing},
         q.step \in {"check", "identify", "commit"} => request[r].step \in {"check", "identify", "commit"},
         q.step \in {"find", "touch", "revoke", "ask", "verify", "rotate", "act"} =>
           request[r].step \in {"find", "touch", "revoke", "ask", "verify", "rotate", "act"},
         q.step \in {"commit", "rotate"} => q.answer \in Tiers
  PROVE  RequestsFit'
<1>1. Fits(request[r])
  BY DEF RequestsFit
<1>2. q.step \in Steps
  BY DEF Working
<1>3. q.sid \in Created' \cup {Nothing}
  BY <1>1 DEF Fits, Grow
<1>4. q.step \in {"check", "identify", "commit"} => q.state \in Issued'
  BY <1>1 DEF Fits, Grow
<1>5. q.step \in {"find", "touch", "revoke", "ask", "verify", "rotate", "act"} => q.sid \in Created'
  BY <1>1 DEF Fits, Grow
<1>6. Fits(q)'
  BY <1>2, <1>3, <1>4, <1>5 DEF Fits, Handling, Steps, Replying
<1> QED BY <1>6, RequestStep

-----------------------------------------------------------------------------
\* The first state has no rows and no requests.
LEMMA SessionInitInv == Init => SessionInv
<1> SUFFICES ASSUME Init PROVE SessionInv
  OBVIOUS
<1>1. Created = {} /\ Issued = {}
  BY DEF Init, Created, Issued
<1>2. lastHeld \in [Tiers -> Nat \cup {Nothing}]
  BY DEF Init
<1>3. TablesOK
  BY <1>2 DEF Init, TablesOK
<1>4. RequestsFit
  BY DEF Init, RequestsFit, Fits
<1> QED BY <1>1, <1>3, <1>4 DEF SessionInv, Signed, OneSessionPerSignIn

\* Time passes, and roles change: requests see it, or not.
LEMMA TimeStep ==
  ASSUME SessionInv, TimePasses
  PROVE  SessionInv'
<1>1. /\ tier' = tier /\ changes' = changes /\ jar' = jar /\ cache' = cache /\ request' = request
      /\ state' = state /\ row' = row /\ Created' = Created /\ Issued' = Issued
  BY DEF TimePasses, tables, Created, Issued
<1>2. now' \in Nat /\ lastHeld' \in [Tiers -> Nat \cup {Nothing}]
  BY DEF TimePasses, SessionInv, TablesOK
<1>3. TablesOK'
  BY <1>1, <1>2 DEF SessionInv, TablesOK
<1>4. RequestsFit'
  BY <1>1 DEF SessionInv, RequestsFit, Fits, Handling
<1> QED BY <1>1, <1>3, <1>4 DEF SessionInv, Signed, OneSessionPerSignIn

\* A change of roles leaves every request where it is.
LEMMA TierStep ==
  ASSUME SessionInv, TierChanges
  PROVE  SessionInv'
<1>1. /\ now' = now /\ jar' = jar /\ cache' = cache
      /\ state' = state /\ row' = row /\ Created' = Created /\ Issued' = Issued
  BY DEF TierChanges, tables, Created, Issued
<1>2. tier' \in Tiers \cup {"unauthorized"} /\ changes' \in Nat /\ lastHeld' \in [Tiers -> Nat \cup {Nothing}]
  BY DEF TierChanges, SessionInv, TablesOK
<1>3. TablesOK'
  BY <1>1, <1>2 DEF SessionInv, TablesOK
<1>4. ASSUME NEW r \in Requests
      PROVE  request'[r] \in Handling \cup {Nothing} /\ Fits(request[r])'
  <2>1. PICK q : q = request[r]
    OBVIOUS
  <2>2. Fits(q) /\ q \in Handling \cup {Nothing}
    BY <2>1 DEF SessionInv, RequestsFit, Fits
  <2>3. CASE q = Nothing \/ q.step \in Replying
    <3>1. request'[r] = q
      BY <2>1, <2>3 DEF TierChanges, Free
    <3> QED BY <1>1, <2>2, <3>1 DEF Fits, Handling
  <2>4. CASE q # Nothing /\ q.step \notin Replying
    <3>1. request'[r] = [q EXCEPT !.seen = @ \/ tier' = "administrator"]
      BY <2>1, <2>4 DEF TierChanges, Free
    <3>2. q \in Working
      BY <2>2, <2>4 DEF Fits, Handling, Answering
    <3>3. request'[r] \in Working /\ request'[r].sid = q.sid /\ request'[r].new = q.new
          /\ request'[r].state = q.state /\ request'[r].step = q.step /\ request'[r].answer = q.answer
      BY <3>1, <3>2 DEF Working
    <3> QED BY <1>1, <2>2, <2>4, <3>3 DEF Fits, Handling
  <2> QED BY <2>3, <2>4
<1>5. RequestsFit'
  BY <1>4 DEF RequestsFit, TierChanges, Handling
<1> QED BY <1>1, <1>3, <1>5 DEF SessionInv, Signed, OneSessionPerSignIn

\* Where nothing is written to the tables, only the request has to be looked at.
LEMMA UnchangedTables ==
  ASSUME UNCHANGED <<world, jar, tables>> PROVE Grow
  BY SameTablesGrow DEF tables

\* A step that awaits fails.
LEMMA FailsStep ==
  ASSUME SessionInv, NEW r \in Requests, Fails(r)
  PROVE  SessionInv'
<1>1. UNCHANGED <<world, jar, tables>> /\ Grow
  BY UnchangedTables DEF Fails
<1>2. RequestsFit'
  BY <1>1, EndsStep, ExpiresStep DEF Fails, SessionInv
<1> QED BY <1>1, <1>2, OnlyRequests

\* A callback with the state of the cookie, or another.
LEMMA CallbackStep ==
  ASSUME SessionInv, NEW r \in Requests, Callback(r)
  PROVE  SessionInv'
<1>1. UNCHANGED <<world, jar, tables>> /\ Grow
  BY UnchangedTables DEF Callback
<1>2. PICK st \in Issued :
        IF jar.state = st THEN Arrives(r, "callback", "check", st)
        ELSE Free(r) /\ request' = [request EXCEPT ![r] = Answer("expire_state", jar.session, st, Nothing)]
  BY DEF Callback
<1>3. CASE jar.state = st
  <2>1. Arrives(r, "callback", "check", st)
    BY <1>2, <1>3
  <2>2. RequestsFit'
    BY <1>1, <2>1, ArrivesStep
  <2> QED BY <1>1, <2>2, OnlyRequests
<1>4. CASE jar.state # st
  <2>1. PICK q : q = Answer("expire_state", jar.session, st, Nothing)
    OBVIOUS
  <2>2. request' = [request EXCEPT ![r] = q]
    BY <1>2, <1>4, <2>1
  <2>3. jar.session \in Created \cup {Nothing} /\ st \in States /\ jar.session \in Sids \cup {Nothing}
    BY DEF SessionInv, TablesOK, Created, Issued
  <2>4. q \in Answering /\ q.sid = jar.session /\ q.new = Nothing /\ q.step = "expire_state"
    BY <2>1, <2>3 DEF Answer, Answering, Replying
  <2>5. Fits(q)
    BY <2>3, <2>4 DEF Fits, Handling
  <2>6. RequestsFit'
    BY <1>1, <2>2, <2>5, FitsStays, RequestStep DEF SessionInv
  <2> QED BY <1>1, <2>6, OnlyRequests
<1> QED BY <1>3, <1>4

\* The state is looked at, and then Discord and the bot are asked.
LEMMA CheckStateStep ==
  ASSUME SessionInv, NEW r \in Requests, CheckState(r)
  PROVE  SessionInv'
<1>1. UNCHANGED <<world, jar, tables>> /\ Grow /\ RequestsFit
  BY UnchangedTables DEF CheckState, SessionInv
<1>2. request[r] \in Working /\ request[r].step = "check" /\ request[r] # Nothing /\ Fits(request[r])
  BY <1>1, WorkingAt DEF CheckState, Steps
<1>3. CASE Goes(r, "identify")
  <2>1. PICK q : q = [request[r] EXCEPT !.step = "identify"]
    OBVIOUS
  <2>2. request' = [request EXCEPT ![r] = q]
    BY <1>3, <2>1 DEF Goes
  <2>3. q \in Working /\ q.step = "identify" /\ q.sid = request[r].sid /\ q.state = request[r].state
        /\ q.new = request[r].new
    BY <1>2, <2>1 DEF Working, Steps
  <2>4. q.new \in Created' \cup {Nothing}
    BY <1>1, <1>2, <2>3 DEF Fits, Grow
  <2>5. RequestsFit'
    BY <1>1, <1>2, <2>2, <2>3, <2>4, GoesOn
  <2> QED BY <1>1, <2>5, OnlyRequests
<1>4. CASE ExpiresState(r)
  BY <1>1, <1>2, <1>4, ExpiresStep, OnlyRequests
<1> QED BY <1>3, <1>4 DEF CheckState

\* The bot names the tier, and the request goes on with it to the commit.
LEMMA IdentifyStep ==
  ASSUME SessionInv, NEW r \in Requests, Identify(r)
  PROVE  SessionInv'
<1>1. UNCHANGED <<world, jar, tables>> /\ Grow /\ RequestsFit
  BY UnchangedTables DEF Identify, SessionInv
<1>2. request[r] \in Working /\ request[r].step = "identify" /\ request[r] # Nothing /\ Fits(request[r])
  BY <1>1, WorkingAt DEF Identify, Steps
<1>3. CASE tier \in Tiers
  <2>1. PICK q : q = [request[r] EXCEPT !.step = "commit", !.answer = tier]
    OBVIOUS
  <2>2. request' = [request EXCEPT ![r] = q]
    BY <1>3, <2>1, <1>1 DEF Identify, RequestsFit
  <2>3. q \in Working /\ q.step = "commit" /\ q.sid = request[r].sid /\ q.state = request[r].state
        /\ q.new = request[r].new /\ q.answer \in Tiers
    BY <1>2, <1>3, <2>1 DEF Working, Steps, BotAnswers
  <2>4. q.new \in Created' \cup {Nothing}
    BY <1>1, <1>2, <2>3 DEF Fits, Grow
  <2>5. RequestsFit'
    BY <1>1, <1>2, <2>2, <2>3, <2>4, GoesOn
  <2> QED BY <1>1, <2>5, OnlyRequests
<1>4. CASE tier \notin Tiers
  BY <1>1, <1>2, <1>4, ExpiresStep, OnlyRequests DEF Identify
<1> QED BY <1>3, <1>4

\* A request with a session cookie.
LEMMA AsksStep ==
  ASSUME SessionInv, NEW r \in Requests, NEW kind \in {"read", "change", "high_risk", "logout"}, Asks(r, kind)
  PROVE  SessionInv'
<1>1. UNCHANGED <<world, jar, tables>> /\ Grow
  BY UnchangedTables DEF Asks
<1>2. RequestsFit'
  BY <1>1, ArrivesStep DEF Asks
<1> QED BY <1>1, <1>2, OnlyRequests

-----------------------------------------------------------------------------
\* Only the one session is ended, and keeps the rest.
LEMMA WithoutSessionRows ==
  ASSUME TablesOK, NEW CONSTANT x
  PROVE  /\ WithoutSession(x) \in [Sids -> Rows \cup {Nothing}]
         /\ \A s \in Sids :
              LET w == WithoutSession(x)[s]
              IN  /\ w = Nothing <=> row[s] = Nothing
                  /\ row[s] # Nothing => /\ w.login = row[s].login /\ w.since = row[s].since
                                         /\ w.absolute = row[s].absolute /\ w.oauth = row[s].oauth
                                         /\ row[s].revoked => w.revoked
                                         /\ s = x => w.revoked
                                         /\ s # x => w = row[s]
                  /\ row[s] # Nothing /\ row[s].revoked => w = row[s]
<1>1. \A s \in Sids : row[s] \in Rows \cup {Nothing}
  BY DEF TablesOK
<1>2. ASSUME NEW s \in Sids, row[s] # Nothing, s = x
      PROVE  /\ WithoutSession(x)[s] \in Rows /\ WithoutSession(x)[s].revoked
             /\ WithoutSession(x)[s].login = row[s].login /\ WithoutSession(x)[s].since = row[s].since
             /\ WithoutSession(x)[s].absolute = row[s].absolute
             /\ WithoutSession(x)[s].oauth = row[s].oauth
             /\ row[s].revoked => WithoutSession(x)[s] = row[s]
  <2>1. WithoutSession(x)[s] = [row[s] EXCEPT !.revoked = TRUE] /\ row[s] \in Rows
    BY <1>1, <1>2 DEF WithoutSession
  <2> QED BY <2>1 DEF Rows
<1>3. ASSUME NEW s \in Sids, row[s] = Nothing \/ s # x
      PROVE  WithoutSession(x)[s] = row[s]
  BY <1>3 DEF WithoutSession
<1>4. Nothing \notin Rows
  BY NothingAssumption
<1>5. WithoutSession(x) = [s \in Sids |-> WithoutSession(x)[s]]
  BY DEF WithoutSession
<1>6. \A s \in Sids : WithoutSession(x)[s] \in Rows \cup {Nothing}
  BY <1>1, <1>2, <1>3
<1>7. WithoutSession(x) \in [Sids -> Rows \cup {Nothing}]
  BY <1>5, <1>6
<1> QED BY <1>2, <1>3, <1>4, <1>7

\* A session is opened while another one is ended: it is the only one of its sign-in that
\* is alive if there was none but the one that is ended.
LEMMA SessionOpens ==
  ASSUME TablesOK, Signed, OneSessionPerSignIn, NEW CONSTANT x, NEW s \in Sids \ Created, NEW CONSTANT n,
         n \in Rows, row' = [WithoutSession(x) EXCEPT ![s] = n],
         Issued \subseteq Issued', \A st \in Issued : state[st].used => state'[st].used,
         n.login \in Issued', state'[n.login].used, n.absolute = n.since + AbsoluteLife, n.oauth = n.since,
         ~n.revoked, \A t \in Created \ {x} : row[t].login = n.login => row[t].revoked
  PROVE  /\ row' \in [Sids -> Rows \cup {Nothing}] /\ Created' = Created \cup {s} /\ row'[s] = n
         /\ Keeps /\ Signed' /\ OneSessionPerSignIn'
<1>0. Nothing \notin Rows /\ n # Nothing
  BY NothingAssumption
<1>1. row' \in [Sids -> Rows \cup {Nothing}] /\ row'[s] = n
      /\ \A t \in Sids \ {s} : row'[t] = WithoutSession(x)[t]
  BY WithoutSessionRows
<1>2. \A t \in Sids : t \in Created <=> row[t] # Nothing
  BY DEF Created
<1>3. \A t \in Sids \ {s} : row'[t] # Nothing <=> row[t] # Nothing
  BY <1>1, WithoutSessionRows
<1>4. Created' = {t \in Sids : row'[t] # Nothing} /\ Created = {t \in Sids : row[t] # Nothing}
  BY DEF Created
<1>5. Created' = Created \cup {s}
  BY <1>0, <1>1, <1>3, <1>4
<1>6. ASSUME NEW t \in Created
      PROVE  /\ row'[t].login = row[t].login /\ row'[t].since = row[t].since
             /\ row'[t].absolute = row[t].absolute /\ row'[t].oauth = row[t].oauth
             /\ row[t].revoked => row'[t] = row[t]
             /\ ~row'[t].revoked => ~row[t].revoked /\ t # x
  <2>1. t \in Sids \ {s} /\ row[t] # Nothing
    BY <1>4
  <2> QED BY <2>1, <1>1, WithoutSessionRows
<1>7. Signed'
  <2> SUFFICES ASSUME NEW t \in Created'
               PROVE  /\ row'[t].login \in Issued' /\ state'[row'[t].login].used
                      /\ row'[t].absolute = row'[t].since + AbsoluteLife /\ row'[t].oauth = row'[t].since
    BY DEF Signed
  <2>1. CASE t = s
    BY <1>1, <2>1
  <2>2. CASE t # s
    <3>1. t \in Created
      BY <1>5, <2>2
    <3> QED BY <1>6, <3>1 DEF Signed
  <2> QED BY <2>1, <2>2
<1>8. OneSessionPerSignIn'
  <2> SUFFICES ASSUME NEW t \in Created', NEW u \in Created', row'[t].login = row'[u].login,
                      ~row'[t].revoked, ~row'[u].revoked
               PROVE  t = u
    BY DEF OneSessionPerSignIn
  <2>1. CASE t = s /\ u # s
    BY <1>1, <1>5, <1>6, <2>1
  <2>2. CASE u = s /\ t # s
    BY <1>1, <1>5, <1>6, <2>2
  <2>3. CASE t # s /\ u # s
    <3>1. t \in Created /\ u \in Created
      BY <1>5, <2>3
    <3> QED BY <1>6, <3>1 DEF OneSessionPerSignIn
  <2> QED BY <2>1, <2>2, <2>3
<1> QED BY <1>1, <1>5, <1>6, <1>7, <1>8 DEF Keeps

\* An id that was not used before.
LEMMA NextIsFree ==
  ASSUME NEW ids, NEW used, ids \ used # {} PROVE NextOf(ids, used) \in ids \ used
  BY DEF NextOf

\* Lifetimes are natural numbers.
LEMMA NewSessionRow ==
  ASSUME NEW t \in Tiers, NEW at \in Nat, NEW absolute \in Nat, NEW oauth \in Nat, NEW login \in States,
         NEW since \in Nat
  PROVE  /\ NewSession(t, at, absolute, oauth, login, since) \in Rows
         /\ NewSession(t, at, absolute, oauth, login, since).login = login
         /\ NewSession(t, at, absolute, oauth, login, since).since = since
         /\ NewSession(t, at, absolute, oauth, login, since).oauth = oauth
         /\ NewSession(t, at, absolute, oauth, login, since).absolute = absolute
         /\ ~NewSession(t, at, absolute, oauth, login, since).revoked
<1>1. Earlier(at + IdleLife, absolute) \in Nat
  BY SessionAssumption DEF SessionConstants, Earlier
<1> QED BY <1>1 DEF NewSession, Rows

-----------------------------------------------------------------------------
\* A fresh state is stored.
LEMMA LoginStep ==
  ASSUME SessionInv, NEW r \in Requests, Login(r)
  PROVE  SessionInv'
<1>1. PICK st \in States \ Issued : st = NextOf(States, Issued)
  BY NextIsFree DEF Login
<1>2. /\ state' = [state EXCEPT ![st] = [expires |-> now + StateLife, used |-> FALSE]]
      /\ request' = [request EXCEPT ![r] = Answer("set_state", Nothing, st, Nothing)]
      /\ UNCHANGED <<world, jar, row, cache>>
  BY <1>1 DEF Login
<1>3. [expires |-> now + StateLife, used |-> FALSE] \in [expires : Nat, used : BOOLEAN]
  BY SessionAssumption DEF SessionConstants, SessionInv, TablesOK
<1>4. /\ state' \in [States -> [expires : Nat, used : BOOLEAN] \cup {Nothing}]
      /\ state'[st] # Nothing /\ \A u \in States \ {st} : state'[u] = state[u]
  BY <1>2, <1>3, NothingAssumption DEF SessionInv, TablesOK
<1>5. Created' = Created /\ Issued \subseteq Issued' /\ st \in Issued' /\ Grow
  BY <1>1, <1>2, <1>4 DEF Created, Issued, Grow
<1>6. /\ now' = now /\ tier' = tier /\ changes' = changes /\ lastHeld' = lastHeld /\ jar' = jar
      /\ row' = row /\ cache' = cache
  BY <1>2 DEF world
<1>7. TablesOK'
  BY <1>4, <1>5, <1>6 DEF SessionInv, TablesOK
<1>8. Signed' /\ OneSessionPerSignIn'
  <2>1. \A u \in Issued : state'[u] = state[u] /\ u \in Issued'
    BY <1>1, <1>4, <1>5 DEF Issued
  <2> QED BY <1>5, <1>6, <2>1 DEF SessionInv, Signed, OneSessionPerSignIn
<1>9. RequestsFit'
  <2>1. PICK q : q = Answer("set_state", Nothing, st, Nothing)
    OBVIOUS
  <2>2. q \in Answering /\ q.sid = Nothing /\ q.new = Nothing /\ q.step = "set_state" /\ q.state = st
    BY <2>1 DEF Answer, Answering, Replying
  <2>3. Fits(q)'
    BY <1>5, <2>2 DEF Fits, Handling
  <2>4. request' = [request EXCEPT ![r] = q]
    BY <1>2, <2>1
  <2> QED BY <1>5, <2>3, <2>4, RequestStep DEF SessionInv
<1> QED BY <1>7, <1>8, <1>9 DEF SessionInv

\* The session is read.
LEMMA FindSessionStep ==
  ASSUME SessionInv, NEW r \in Requests, FindSession(r)
  PROVE  SessionInv'
<1>1. UNCHANGED <<world, jar, tables>> /\ Grow /\ RequestsFit
  BY UnchangedTables DEF FindSession, SessionInv
<1>2. request[r] \in Working /\ request[r].step = "find" /\ request[r] # Nothing /\ Fits(request[r])
  BY <1>1, WorkingAt DEF FindSession, Steps
<1>3. CASE Active(request[r].sid, request[r].at)
  <2>1. PICK q : q = [request[r] EXCEPT !.step = "touch", !.snapshot = row[request[r].sid].tier]
    OBVIOUS
  <2>2. request' = [request EXCEPT ![r] = q]
    BY <1>3, <2>1, <1>1 DEF FindSession, RequestsFit
  <2>3. row[request[r].sid].tier \in Tiers
    <3>1. request[r].sid \in Created
      BY <1>2 DEF Fits
    <3>2. row[request[r].sid] \in Rows
      BY <3>1 DEF SessionInv, TablesOK, Created
    <3> QED BY <3>2 DEF Rows
  <2>4. q \in Working /\ q.step = "touch" /\ q.sid = request[r].sid /\ q.state = request[r].state
        /\ q.new = request[r].new
    BY <1>2, <2>1, <2>3 DEF Working, Steps
  <2>5. q.new \in Created' \cup {Nothing}
    BY <1>1, <1>2, <2>4 DEF Fits, Grow
  <2>6. RequestsFit'
    BY <1>1, <1>2, <2>2, <2>4, <2>5, GoesOn
  <2> QED BY <1>1, <2>6, OnlyRequests
<1>4. CASE ~Active(request[r].sid, request[r].at)
  BY <1>1, <1>4, EndsStep, OnlyRequests DEF FindSession
<1> QED BY <1>3, <1>4

\* The bot is asked.
LEMMA AskBotStep ==
  ASSUME SessionInv, NEW r \in Requests, AskBot(r)
  PROVE  SessionInv'
<1>1. UNCHANGED <<world, jar, tables>> /\ Grow /\ RequestsFit
  BY UnchangedTables DEF AskBot, SessionInv
<1>2. request[r] \in Working /\ request[r].step = "ask" /\ request[r] # Nothing /\ Fits(request[r])
  BY <1>1, WorkingAt DEF AskBot, Steps
<1>3. PICK answer \in {tier, "unavailable"} :
        request' = [request EXCEPT ![r].step = "verify", ![r].answer = answer]
  BY DEF AskBot
<1>4. answer \in BotAnswers
  BY DEF BotAnswers, SessionInv, TablesOK
<1>5. PICK q : q = [request[r] EXCEPT !.step = "verify", !.answer = answer]
  OBVIOUS
<1>6. request' = [request EXCEPT ![r] = q]
  BY <1>1, <1>3, <1>5 DEF RequestsFit
<1>7. q \in Working /\ q.step = "verify" /\ q.sid = request[r].sid /\ q.state = request[r].state
      /\ q.new = request[r].new
  BY <1>2, <1>4, <1>5 DEF Working, Steps
<1>8. q.new \in Created' \cup {Nothing}
  BY <1>1, <1>2, <1>7 DEF Fits, Grow
<1>9. RequestsFit'
  BY <1>1, <1>2, <1>6, <1>7, <1>8, GoesOn
<1> QED BY <1>1, <1>9, OnlyRequests

\* The route does what it is for.
LEMMA ActStep ==
  ASSUME SessionInv, NEW r \in Requests, Act(r)
  PROVE  SessionInv'
<1>1. UNCHANGED <<world, jar, tables>> /\ Grow /\ RequestsFit
  BY UnchangedTables DEF Act, SessionInv
<1>2. request[r] # Nothing /\ Fits(request[r])
  BY <1>1 DEF Act, At, RequestsFit
<1>3. PICK new : new = request[r].new
  OBVIOUS
<1>4. new \in Created' \cup {Nothing} /\ "reply" \in Replying \ {"set_state"}
  BY <1>1, <1>2, <1>3 DEF Fits, Grow, Replying
<1>5. Ends(r) \/ Answers(r, "reply", new)
  BY <1>3 DEF Act
<1>6. RequestsFit'
  BY <1>1, <1>2, <1>4, <1>5, EndsStep, AnswersStep
<1> QED BY <1>1, <1>6, OnlyRequests

\* The end of a request that answers without cookies.
LEMMA RepliesStep ==
  ASSUME SessionInv, NEW r \in Requests, Replies(r)
  PROVE  SessionInv'
<1>1. UNCHANGED <<world, jar, tables>> /\ Grow /\ RequestsFit
  BY UnchangedTables DEF Replies, SessionInv
<1> QED BY <1>1, EndsStep, OnlyRequests DEF Replies

\* Cookies name rows that are there.
LEMMA ReceivesStep ==
  ASSUME SessionInv, NEW r \in Requests, Receives(r)
  PROVE  SessionInv'
<1>1. /\ now' = now /\ tier' = tier /\ changes' = changes /\ lastHeld' = lastHeld
      /\ state' = state /\ row' = row /\ cache' = cache /\ Created' = Created /\ Issued' = Issued
  BY DEF Receives, world, tables, Created, Issued
<1>2. Fits(request[r]) /\ request[r] # Nothing
  BY DEF SessionInv, RequestsFit, Receives, At
<1>3. jar \in [session : Created \cup {Nothing}, state : Issued \cup {Nothing}]
  BY DEF SessionInv, TablesOK
<1>4. jar' \in [session : Created \cup {Nothing}, state : Issued \cup {Nothing}]
  <2>1. CASE At(r, "set_state") /\ jar' \in {jar, [jar EXCEPT !.state = request[r].state]}
    <3>1. request[r].state \in Issued
      BY <1>2, <2>1 DEF Fits, At
    <3> QED BY <1>3, <2>1, <3>1
  <2>2. CASE jar' \in {jar, [jar EXCEPT !.state = Nothing]}
    BY <1>3, <2>2
  <2>3. CASE jar' \in {jar, [session |-> request[r].new, state |-> Nothing]}
    <3>1. request[r].new \in Created \cup {Nothing}
      BY <1>2 DEF Fits
    <3> QED BY <1>3, <2>3, <3>1
  <2>4. CASE jar' \in {jar, [jar EXCEPT !.session = Nothing]}
    BY <1>3, <2>4
  <2> QED BY <2>1, <2>2, <2>3, <2>4 DEF Receives
<1>5. TablesOK'
  BY <1>1, <1>4 DEF SessionInv, TablesOK
<1>6. RequestsFit'
  <2>1. Grow
    BY <1>1 DEF Grow
  <2> QED BY <2>1, EndsStep DEF SessionInv, Receives
<1> QED BY <1>1, <1>5, <1>6 DEF SessionInv, Signed, OneSessionPerSignIn

\* The answer is remembered and judged.
LEMMA VerifyStep ==
  ASSUME SessionInv, NEW r \in Requests, Verify(r)
  PROVE  SessionInv'
<1>1. /\ now' = now /\ tier' = tier /\ changes' = changes /\ lastHeld' = lastHeld /\ jar' = jar
      /\ state' = state /\ row' = row /\ Created' = Created /\ Issued' = Issued
  BY DEF Verify, world, Created, Issued
<1>2. Grow /\ RequestsFit
  BY <1>1 DEF Grow, SessionInv
<1>3. request[r] \in Working /\ request[r].step = "verify" /\ request[r] # Nothing /\ Fits(request[r])
  BY <1>2, WorkingAt DEF Verify, Steps
<1>4. cache' \in [tier : Tiers, at : Nat] \cup {Nothing}
  <2>1. request[r].answer \in Tiers => [tier |-> request[r].answer, at |-> request[r].at] \in [tier : Tiers, at : Nat]
    BY <1>3 DEF Working
  <2> QED BY <2>1 DEF Verify, SessionInv, TablesOK
<1>5. TablesOK'
  BY <1>1, <1>4 DEF SessionInv, TablesOK
<1>6. CASE Ends(r)
  BY <1>1, <1>2, <1>5, <1>6, EndsStep DEF SessionInv, Signed, OneSessionPerSignIn
<1>7. ASSUME NEW step \in {"rotate", "act"}, Goes(r, step), request[r].answer \in Tiers PROVE SessionInv'
  <2>1. PICK q : q = [request[r] EXCEPT !.step = step]
    OBVIOUS
  <2>2. request' = [request EXCEPT ![r] = q]
    BY <1>7, <2>1 DEF Goes
  <2>3. q \in Working /\ q.step = step /\ q.sid = request[r].sid /\ q.state = request[r].state
        /\ q.new = request[r].new /\ q.answer = request[r].answer
    BY <1>3, <2>1 DEF Working, Steps
  <2>4. q.new \in Created' \cup {Nothing}
    BY <1>2, <1>3, <2>3 DEF Fits, Grow
  <2>5. RequestsFit'
    BY <1>2, <1>3, <1>7, <2>2, <2>3, <2>4, GoesOn
  <2> QED BY <1>1, <1>5, <2>5 DEF SessionInv, Signed, OneSessionPerSignIn
<1>8. ASSUME cache # Nothing,
             request' = [request EXCEPT ![r].step = "act", ![r].answer = cache.tier, ![r].cached = TRUE]
      PROVE  SessionInv'
  <2>1. PICK q : q = [request[r] EXCEPT !.step = "act", !.answer = cache.tier, !.cached = TRUE]
    OBVIOUS
  <2>2. request' = [request EXCEPT ![r] = q]
    BY <1>2, <1>8, <2>1 DEF RequestsFit
  <2>3. cache.tier \in Tiers
    BY <1>8 DEF SessionInv, TablesOK
  <2>4. q \in Working /\ q.step = "act" /\ q.sid = request[r].sid /\ q.state = request[r].state
        /\ q.new = request[r].new
    BY <1>3, <2>1, <2>3 DEF Working, Steps, BotAnswers
  <2>5. q.new \in Created' \cup {Nothing}
    BY <1>2, <1>3, <2>4 DEF Fits, Grow
  <2>6. RequestsFit'
    BY <1>2, <1>3, <2>2, <2>4, <2>5, GoesOn
  <2> QED BY <1>1, <1>5, <2>6 DEF SessionInv, Signed, OneSessionPerSignIn
<1> QED BY <1>6, <1>7, <1>8 DEF Verify

-----------------------------------------------------------------------------
\* A session is touched, and stays what it is.
LEMMA TouchSessionStep ==
  ASSUME SessionInv, NEW r \in Requests, TouchSession(r)
  PROVE  SessionInv' /\ Keeps
<1>1. /\ now' = now /\ tier' = tier /\ changes' = changes /\ lastHeld' = lastHeld /\ jar' = jar
      /\ state' = state /\ cache' = cache /\ TablesOK /\ RequestsFit /\ Signed /\ OneSessionPerSignIn
  BY DEF TouchSession, world, SessionInv
<1>2. request[r] \in Working /\ request[r].step = "touch" /\ request[r] # Nothing /\ Fits(request[r])
  BY <1>1, WorkingAt DEF TouchSession, Steps
<1>s. PICK s \in Created : s = request[r].sid
  BY <1>2 DEF Fits
<1>3. s \in Sids /\ row[s] \in Rows /\ row[s] # Nothing /\ request[r].at \in Nat
  BY <1>1, <1>2 DEF TablesOK, Created, Working
<1>4. CASE Touchable(s, request[r].at)
  <2>1. PICK idle \in Nat : idle = Earlier(request[r].at + IdleLife, row[s].absolute)
    <3>1. request[r].at + IdleLife \in Nat /\ row[s].absolute \in Nat
      BY <1>3, SessionAssumption DEF SessionConstants, Rows
    <3> QED BY <3>1 DEF Earlier
  <2>2. row' = [row EXCEPT ![s] = [row[s] EXCEPT !.idle = idle]]
    BY <1>4, <1>s, <2>1 DEF TouchSession
  <2>3. ~row[s].revoked
    BY <1>4 DEF Touchable, Active
  <2>4. PICK n : n = [row[s] EXCEPT !.idle = idle]
    OBVIOUS
  <2>5. n \in Rows /\ n.login = row[s].login /\ n.since = row[s].since /\ n.absolute = row[s].absolute
        /\ n.oauth = row[s].oauth /\ n.revoked = row[s].revoked /\ n # Nothing
    BY <1>3, <2>4, NothingAssumption DEF Rows
  <2>6. row' \in [Sids -> Rows \cup {Nothing}] /\ row'[s] = n /\ \A t \in Sids \ {s} : row'[t] = row[t]
    BY <1>1, <1>3, <2>2, <2>4, <2>5 DEF TablesOK
  <2>7. Created' = Created /\ Issued' = Issued /\ Signed' /\ OneSessionPerSignIn'
    <3>1. \A t \in Sids :
           /\ row'[t] = Nothing <=> row[t] = Nothing
           /\ row[t] # Nothing => /\ row'[t].login = row[t].login /\ row'[t].since = row[t].since
                                  /\ row'[t].absolute = row[t].absolute /\ row'[t].oauth = row[t].oauth
                                  /\ row[t].revoked => row'[t].revoked
      BY <1>3, <2>5, <2>6
    <3> QED BY <1>1, <2>6, <3>1, SessionsStay
  <2>8. TablesOK'
    BY <1>1, <2>6, <2>7 DEF TablesOK
  <2>9. Grow
    BY <2>7 DEF Grow
  <2>10. PICK q : q = [request[r] EXCEPT !.at = now,
                         !.step = IF request[r].kind = "logout" THEN "revoke" ELSE "ask"]
    OBVIOUS
  <2>11. request' = [request EXCEPT ![r] = q]
    BY <1>1, <1>4, <1>s, <2>10 DEF TouchSession, RequestsFit
  <2>12. q \in Working /\ q.step \in {"revoke", "ask"} /\ q.sid = request[r].sid /\ q.state = request[r].state
         /\ q.new = request[r].new
    <3>1. PICK next \in {"revoke", "ask"} : next = IF request[r].kind = "logout" THEN "revoke" ELSE "ask"
      OBVIOUS
    <3>2. now \in Nat /\ next \in Steps
      BY <1>1 DEF TablesOK, Steps
    <3> QED BY <1>2, <2>10, <3>1, <3>2 DEF Working
  <2>13. q.new \in Created' \cup {Nothing}
    BY <1>2, <2>9, <2>12 DEF Fits, Grow
  <2>14. RequestsFit'
    BY <1>1, <1>2, <2>9, <2>11, <2>12, <2>13, GoesOn
  <2>15. Keeps
    BY <2>3, <2>5, <2>6 DEF Created, Keeps
  <2> QED BY <2>7, <2>8, <2>14, <2>15 DEF SessionInv
<1>5. CASE ~Touchable(s, request[r].at)
  <2>1. row' = row /\ Ends(r)
    BY <1>5, <1>s DEF TouchSession
  <2>2. UNCHANGED <<world, jar, tables>> /\ Grow
    BY <1>1, <2>1, SameTablesGrow DEF world, tables
  <2> QED BY <1>1, <2>1, <2>2, EndsStep, OnlyRequests DEF Keeps
<1> QED BY <1>4, <1>5

\* Logout ends a session, once.
LEMMA RevokeSessionStep ==
  ASSUME SessionInv, NEW r \in Requests, RevokeSession(r)
  PROVE  SessionInv' /\ Keeps
<1>1. /\ now' = now /\ tier' = tier /\ changes' = changes /\ lastHeld' = lastHeld /\ jar' = jar
      /\ state' = state /\ cache' = cache /\ TablesOK /\ RequestsFit /\ Signed /\ OneSessionPerSignIn
  BY DEF RevokeSession, world, SessionInv
<1>2. request[r] # Nothing
  BY DEF RevokeSession, At
<1>3. PICK x : x = request[r].sid
  OBVIOUS
<1>4. row' = WithoutSession(x)
  BY <1>3 DEF RevokeSession
<1>5. row' \in [Sids -> Rows \cup {Nothing}]
  BY <1>1, <1>4, WithoutSessionRows
<1>6. \A t \in Sids :
        /\ row'[t] = Nothing <=> row[t] = Nothing
        /\ row[t] # Nothing => /\ row'[t].login = row[t].login /\ row'[t].since = row[t].since
                               /\ row'[t].absolute = row[t].absolute /\ row'[t].oauth = row[t].oauth
                               /\ row[t].revoked => row'[t].revoked
        /\ row[t] # Nothing /\ row[t].revoked => row'[t] = row[t]
  BY <1>1, <1>4, WithoutSessionRows
<1>7. Created' = Created /\ Issued' = Issued /\ Signed' /\ OneSessionPerSignIn'
  BY <1>1, <1>5, <1>6, SessionsStay
<1>8. TablesOK'
  BY <1>1, <1>5, <1>7 DEF TablesOK
<1>9. Grow /\ "clear_session" \in Replying \ {"set_state"}
  BY <1>7 DEF Grow, Replying
<1>10. RequestsFit'
  BY <1>1, <1>2, <1>9, EndsStep, AnswersStep DEF RevokeSession
<1>11. Keeps
  BY <1>6 DEF Created, Keeps
<1> QED BY <1>7, <1>8, <1>10, <1>11 DEF SessionInv

\* The transaction that signs in: its state was unused, so no session goes back to it.
LEMMA CommitCallbackStep ==
  ASSUME SessionInv, NEW r \in Requests, CommitCallback(r)
  PROVE  SessionInv' /\ Keeps
<1>1. /\ now' = now /\ tier' = tier /\ changes' = changes /\ lastHeld' = lastHeld /\ jar' = jar
      /\ TablesOK /\ RequestsFit /\ Signed /\ OneSessionPerSignIn
  BY DEF CommitCallback, world, SessionInv
<1>2. request[r] \in Working /\ request[r].step = "commit" /\ request[r] # Nothing /\ Fits(request[r])
  BY <1>1, WorkingAt DEF CommitCallback, Steps
<1>3. CASE ~Consumable(request[r].state, request[r].at)
  <2>1. ExpiresState(r) /\ UNCHANGED <<world, jar, tables>>
    BY <1>3 DEF CommitCallback
  <2>2. Grow /\ row' = row
    BY <2>1, UnchangedTables DEF tables
  <2> QED BY <1>1, <1>2, <2>1, <2>2, ExpiresStep, OnlyRequests DEF Keeps
<1>4. CASE Consumable(request[r].state, request[r].at)
  <2>s. PICK s \in Sids \ Created : s = NextOf(Sids, Created)
    BY NextIsFree DEF CommitCallback
  <2>x. PICK x, at, st, answer : /\ x = request[r].sid /\ at = request[r].at /\ st = request[r].state
                                 /\ answer = request[r].answer
    OBVIOUS
  <2>1. st \in Issued /\ st \in States /\ at \in Nat /\ answer \in Tiers /\ ~state[st].used /\ state[st] # Nothing
    BY <1>2, <1>4, <2>x DEF Fits, Working, Consumable, Usable, Issued
  <2>2. PICK n : n = NewSession(answer, at, at + AbsoluteLife, at, st, at)
    OBVIOUS
  <2>3. at + AbsoluteLife \in Nat
    BY <2>1, SessionAssumption DEF SessionConstants
  <2>4. n \in Rows /\ n.login = st /\ n.since = at /\ n.oauth = at /\ n.absolute = at + AbsoluteLife /\ ~n.revoked
    BY <2>1, <2>2, <2>3, NewSessionRow
  <2>5. /\ state' = [state EXCEPT ![st] = [state[st] EXCEPT !.used = TRUE]]
        /\ row' = [WithoutSession(x) EXCEPT ![s] = n]
        /\ cache' = [tier |-> answer, at |-> at]
        /\ Answers(r, "set_session", s) \/ ExpiresState(r)
    BY <1>4, <2>s, <2>x, <2>2 DEF CommitCallback
  <2>6. [state[st] EXCEPT !.used = TRUE] \in [expires : Nat, used : BOOLEAN]
        /\ [state[st] EXCEPT !.used = TRUE].used
    BY <1>1, <2>1 DEF TablesOK
  <2>7. /\ state' \in [States -> [expires : Nat, used : BOOLEAN] \cup {Nothing}]
        /\ state'[st].used /\ state'[st] # Nothing /\ \A u \in States \ {st} : state'[u] = state[u]
    BY <1>1, <2>1, <2>5, <2>6, NothingAssumption DEF TablesOK
  <2>8. Issued' = Issued
    BY <2>1, <2>7 DEF Issued
  <2>9. \A u \in Issued : state[u].used => state'[u].used
    BY <2>7 DEF Issued
  <2>10. \A t \in Created \ {x} : row[t].login = n.login => row[t].revoked
    BY <1>1, <2>1, <2>4 DEF Signed
  <2>11. /\ row' \in [Sids -> Rows \cup {Nothing}] /\ Created' = Created \cup {s} /\ row'[s] = n
         /\ Keeps /\ Signed' /\ OneSessionPerSignIn'
    BY <1>1, <2>1, <2>4, <2>5, <2>7, <2>8, <2>9, <2>10, SessionOpens
  <2>12. cache' \in [tier : Tiers, at : Nat]
    BY <2>1, <2>5
  <2>13. TablesOK'
    BY <1>1, <2>7, <2>8, <2>11, <2>12 DEF TablesOK
  <2>14. Grow /\ s \in Created' /\ "set_session" \in Replying \ {"set_state"}
    BY <2>8, <2>11 DEF Grow, Replying
  <2>15. RequestsFit'
    BY <1>1, <1>2, <2>5, <2>14, AnswersStep, ExpiresStep
  <2> QED BY <2>11, <2>13, <2>15 DEF SessionInv
<1> QED BY <1>3, <1>4

\* The session that a rotation opens takes the place of the one it ends.
LEMMA RotateStep ==
  ASSUME SessionInv, NEW r \in Requests, Rotate(r)
  PROVE  SessionInv' /\ Keeps
<1>1. /\ now' = now /\ tier' = tier /\ changes' = changes /\ lastHeld' = lastHeld /\ jar' = jar
      /\ state' = state /\ cache' = cache /\ TablesOK /\ RequestsFit /\ Signed /\ OneSessionPerSignIn
  BY DEF Rotate, world, SessionInv
<1>2. request[r] \in Working /\ request[r].step = "rotate" /\ request[r] # Nothing /\ Fits(request[r])
  BY <1>1, WorkingAt DEF Rotate, Steps
<1>x. PICK x \in Created : x = request[r].sid
  BY <1>2 DEF Fits
<1>3. CASE ~Rotatable(x)
  <2>1. Ends(r) /\ row' = row
    BY <1>3, <1>x DEF Rotate
  <2>2. UNCHANGED <<world, jar, tables>> /\ Grow
    BY <1>1, <2>1, SameTablesGrow DEF world, tables
  <2> QED BY <1>1, <2>1, <2>2, EndsStep, OnlyRequests DEF Keeps
<1>4. CASE Rotatable(x)
  <2>s. PICK s \in Sids \ Created : s = NextOf(Sids, Created)
    BY NextIsFree DEF Rotate
  <2>x. PICK at, answer, old : at = request[r].at /\ answer = request[r].answer /\ old = row[x]
    OBVIOUS
  <2>1. old \in Rows /\ at \in Nat /\ answer \in Tiers /\ ~old.revoked
    BY <1>1, <1>2, <1>4, <2>x DEF Fits, Working, TablesOK, Created, Rotatable
  <2>2. PICK n : n = NewSession(answer, at, old.absolute, old.oauth, old.login, old.since)
    OBVIOUS
  <2>3. old.absolute \in Nat /\ old.oauth \in Nat /\ old.since \in Nat /\ old.login \in States
    BY <2>1 DEF Rows
  <2>4. n \in Rows /\ n.login = old.login /\ n.since = old.since /\ n.oauth = old.oauth
        /\ n.absolute = old.absolute /\ ~n.revoked
    <3>1. PICK absolute \in Nat, oauth \in Nat, login \in States, since \in Nat :
            absolute = old.absolute /\ oauth = old.oauth /\ login = old.login /\ since = old.since
      BY <2>3
    <3>2. n = NewSession(answer, at, absolute, oauth, login, since)
      BY <2>2, <3>1
    <3>3. n \in Rows /\ n.login = login /\ n.since = since /\ n.oauth = oauth
          /\ n.absolute = absolute /\ ~n.revoked
      BY <2>1, <3>2, NewSessionRow
    <3> QED BY <3>1, <3>3
  <2>5. /\ row' = [WithoutSession(x) EXCEPT ![s] = n]
        /\ request' = [request EXCEPT ![r].step = "act", ![r].new = s] \/ Ends(r)
    BY <1>4, <1>x, <2>s, <2>x, <2>2 DEF Rotate
  <2>6. Issued' = Issued
    BY <1>1 DEF Issued
  <2>7. old.login \in Issued /\ state[old.login].used /\ old.absolute = old.since + AbsoluteLife
        /\ old.oauth = old.since
    BY <1>1, <2>x DEF Signed
  <2>8. \A t \in Created \ {x} : row[t].login = n.login => row[t].revoked
    BY <1>1, <2>x, <2>1, <2>4 DEF OneSessionPerSignIn
  <2>9. /\ row' \in [Sids -> Rows \cup {Nothing}] /\ Created' = Created \cup {s} /\ row'[s] = n
        /\ Keeps /\ Signed' /\ OneSessionPerSignIn'
    BY <1>1, <2>4, <2>5, <2>6, <2>7, <2>8, SessionOpens
  <2>10. TablesOK'
    BY <1>1, <2>6, <2>9 DEF TablesOK
  <2>11. Grow /\ s \in Created'
    BY <2>6, <2>9 DEF Grow
  <2>12. RequestsFit'
    <3>1. CASE Ends(r)
      BY <1>1, <2>11, <3>1, EndsStep
    <3>2. CASE request' = [request EXCEPT ![r].step = "act", ![r].new = s]
      <4>1. PICK q : q = [request[r] EXCEPT !.step = "act", !.new = s]
        OBVIOUS
      <4>2. request' = [request EXCEPT ![r] = q]
        BY <1>1, <3>2, <4>1 DEF RequestsFit
      <4>3. q \in Working /\ q.step = "act" /\ q.sid = request[r].sid /\ q.state = request[r].state /\ q.new = s
        BY <1>2, <4>1 DEF Working, Steps
      <4> QED BY <1>1, <1>2, <2>11, <4>2, <4>3, GoesOn
    <3> QED BY <2>5, <3>1, <3>2
  <2> QED BY <2>9, <2>10, <2>12 DEF SessionInv
<1> QED BY <1>3, <1>4

-----------------------------------------------------------------------------
\* Every step keeps the invariant, and what has ended.
LEMMA SessionNextInv ==
  ASSUME SessionInv, [Next]_vars
  PROVE  SessionInv' /\ Keeps
<1>1. ASSUME SessionInv', UNCHANGED row PROVE SessionInv' /\ Keeps
  BY <1>1 DEF Keeps
<1>2. CASE TimePasses \/ TierChanges
  <2>1. UNCHANGED row
    BY <1>2 DEF TimePasses, TierChanges, tables
  <2> QED BY <1>1, <1>2, <2>1, TimeStep, TierStep
<1>3. ASSUME NEW r \in Requests, Login(r) \/ Callback(r) \/ CheckState(r) \/ Identify(r)
      PROVE  SessionInv' /\ Keeps
  <2>1. UNCHANGED row
    BY <1>3 DEF Login, Callback, CheckState, Identify, tables
  <2> QED BY <1>1, <1>3, <2>1, LoginStep, CallbackStep, CheckStateStep, IdentifyStep
<1>4. ASSUME NEW r \in Requests, AsksToRead(r) \/ AsksToChange(r) \/ AsksToDecide(r) \/ AsksToLeave(r)
      PROVE  SessionInv' /\ Keeps
  <2>1. PICK kind \in {"read", "change", "high_risk", "logout"} : Asks(r, kind)
    BY <1>4 DEF AsksToRead, AsksToChange, AsksToDecide, AsksToLeave
  <2>2. UNCHANGED row
    BY <2>1 DEF Asks, tables
  <2> QED BY <1>1, <2>1, <2>2, AsksStep
<1>5. ASSUME NEW r \in Requests, FindSession(r) \/ AskBot(r) \/ Verify(r) \/ Act(r)
      PROVE  SessionInv' /\ Keeps
  <2>1. UNCHANGED row
    BY <1>5 DEF FindSession, AskBot, Verify, Act, tables
  <2> QED BY <1>1, <1>5, <2>1, FindSessionStep, AskBotStep, VerifyStep, ActStep
<1>6. ASSUME NEW r \in Requests, Fails(r) \/ Replies(r) \/ Receives(r)
      PROVE  SessionInv' /\ Keeps
  <2>1. UNCHANGED row
    BY <1>6 DEF Fails, Replies, Receives, tables
  <2> QED BY <1>1, <1>6, <2>1, FailsStep, RepliesStep, ReceivesStep
<1>7. ASSUME NEW r \in Requests, CommitCallback(r) \/ TouchSession(r) \/ RevokeSession(r) \/ Rotate(r)
      PROVE  SessionInv' /\ Keeps
  BY <1>7, CommitCallbackStep, TouchSessionStep, RevokeSessionStep, RotateStep
<1>8. CASE UNCHANGED vars
  <2>1. UNCHANGED <<world, jar, tables, request, row>>
    BY <1>8 DEF vars, tables
  <2>2. RequestsFit'
    <3>1. Created' = Created /\ Issued' = Issued
      BY <2>1, SameTablesGrow DEF tables
    <3> QED BY <2>1, <3>1 DEF SessionInv, RequestsFit, Fits, Handling
  <2> QED BY <1>1, <2>1, <2>2, OnlyRequests
<1> QED BY <1>2, <1>3, <1>4, <1>5, <1>6, <1>7, <1>8 DEF Next

\* In every state: the types hold, and a cookie, in the browser or in a reply, names a
\* row that was committed.
THEOREM SessionTypeOK == Spec => []TypeOK
<1>1. Init => SessionInv
  BY SessionInitInv
<1>2. SessionInv /\ [Next]_vars => SessionInv'
  BY SessionNextInv
<1>3. SessionInv => TypeOK
  BY InvType
<1> QED BY <1>1, <1>2, <1>3, PTL DEF Spec

\* However often a callback is sent, and however many requests move the browser to another
\* tier at once, one session at most that goes back to a sign-in is alive.
THEOREM SessionOnePerSignIn == Spec => []OneSessionPerSignIn
<1>1. Init => SessionInv
  BY SessionInitInv
<1>2. SessionInv /\ [Next]_vars => SessionInv'
  BY SessionNextInv
<1>3. SessionInv => OneSessionPerSignIn
  BY DEF SessionInv
<1> QED BY <1>1, <1>2, <1>3, PTL DEF Spec

-----------------------------------------------------------------------------
\* The steps of one request leave the others where they are.
LEMMA OthersWait ==
  ASSUME SessionInv, NEW k \in Requests, NEW r \in Requests \ {k},
         \/ Login(k) \/ Callback(k) \/ CheckState(k) \/ Identify(k) \/ CommitCallback(k)
         \/ AsksToRead(k) \/ AsksToChange(k) \/ AsksToDecide(k) \/ AsksToLeave(k)
         \/ FindSession(k) \/ TouchSession(k) \/ RevokeSession(k)
         \/ AskBot(k) \/ Verify(k) \/ Rotate(k) \/ Act(k)
         \/ Fails(k) \/ Replies(k) \/ Receives(k)
  PROVE  request'[r] = request[r]
<1>1. r \in Requests /\ request \in [Requests -> Handling \cup {Nothing}] /\ r # k
  BY DEF SessionInv, RequestsFit
<1>2. ASSUME Login(k) \/ Callback(k) \/ CheckState(k) \/ Identify(k) PROVE request'[r] = request[r]
  BY <1>1, <1>2 DEF Login, Callback, CheckState, Identify, Arrives, Goes, ExpiresState, Answers
<1>3. ASSUME AsksToRead(k) \/ AsksToChange(k) \/ AsksToDecide(k) \/ AsksToLeave(k)
      PROVE  request'[r] = request[r]
  BY <1>1, <1>3 DEF AsksToRead, AsksToChange, AsksToDecide, AsksToLeave, Asks, Arrives
<1>4. ASSUME CommitCallback(k) \/ Fails(k) \/ Act(k) \/ RevokeSession(k) PROVE request'[r] = request[r]
  BY <1>1, <1>4 DEF CommitCallback, Fails, Act, RevokeSession, ExpiresState, Answers, Ends
<1>5. ASSUME FindSession(k) \/ TouchSession(k) \/ AskBot(k) PROVE request'[r] = request[r]
  BY <1>1, <1>5 DEF FindSession, TouchSession, AskBot, Ends
<1>6. ASSUME Verify(k) \/ Rotate(k) \/ Replies(k) \/ Receives(k) PROVE request'[r] = request[r]
  BY <1>1, <1>6 DEF Verify, Rotate, Replies, Receives, Goes, Ends
<1> QED BY <1>2, <1>3, <1>4, <1>5, <1>6

\* Only the touch gets a request past the look at its session.
LEMMA OnlyTouchGoesOn ==
  ASSUME SessionInv, [Next]_vars, NEW r \in Requests, At(r, "touch"), (At(r, "ask") \/ At(r, "revoke"))'
  PROVE  TouchSession(r)
<1>0. request[r].step = "touch" /\ request'[r].step \in {"ask", "revoke"} /\ request[r] # Nothing
      /\ request'[r] # Nothing /\ request[r] # request'[r] /\ request \in [Requests -> Handling \cup {Nothing}]
  BY DEF At, SessionInv, RequestsFit
<1>1. CASE TimePasses \/ UNCHANGED vars
  BY <1>0, <1>1 DEF TimePasses, vars
<1>2. CASE TierChanges
  <2>1. request[r] \in Working
    BY WorkingAt DEF SessionInv, Steps
  <2>2. request'[r] = [request[r] EXCEPT !.seen = @ \/ tier' = "administrator"]
    BY <1>0, <1>2 DEF TierChanges, Free, Replying
  <2>3. request'[r].step = request[r].step
    BY <2>1, <2>2 DEF Working
  <2> QED BY <1>0, <2>3
<1>3. ASSUME NEW k \in Requests,
             \/ Login(k) \/ Callback(k) \/ CheckState(k) \/ Identify(k) \/ CommitCallback(k)
             \/ AsksToRead(k) \/ AsksToChange(k) \/ AsksToDecide(k) \/ AsksToLeave(k)
             \/ FindSession(k) \/ TouchSession(k) \/ RevokeSession(k)
             \/ AskBot(k) \/ Verify(k) \/ Rotate(k) \/ Act(k)
             \/ Fails(k) \/ Replies(k) \/ Receives(k)
      PROVE  TouchSession(r)
  <2>1. k = r
    BY <1>0, <1>3, OthersWait
  <2>2. ASSUME Fails(r) PROVE FALSE
    BY <1>0, <2>2 DEF Fails, Ends
  <2>3. ASSUME \/ CheckState(r) \/ Identify(r) \/ CommitCallback(r) \/ FindSession(r) \/ RevokeSession(r)
               \/ AskBot(r) \/ Verify(r) \/ Rotate(r) \/ Act(r) \/ Replies(r) \/ Receives(r)
        PROVE  FALSE
    BY <1>0, <2>3 DEF CheckState, Identify, CommitCallback, FindSession, RevokeSession, AskBot, Verify, Rotate,
                      Act, Replies, Receives, At
  <2>4. ASSUME Login(r) \/ Callback(r) \/ AsksToRead(r) \/ AsksToChange(r) \/ AsksToDecide(r) \/ AsksToLeave(r)
        PROVE  FALSE
    BY <1>0, <2>4 DEF Login, Callback, AsksToRead, AsksToChange, AsksToDecide, AsksToLeave, Asks, Arrives, Free
  <2> QED BY <1>3, <2>1, <2>2, <2>3, <2>4
<1> QED BY <1>1, <1>2, <1>3 DEF Next

\* What ended does not come back: a revoked session is not touched, and a request that
\* gets past the look at its session does so within seven days of the sign-in.
THEOREM SessionsStayEnded == Spec => EndedSignInsStayEnded
<1>1. Init => SessionInv
  BY SessionInitInv
<1>2. SessionInv /\ [Next]_vars => SessionInv'
  BY SessionNextInv
<1>3. SessionInv /\ [Next]_vars =>
        [/\ \A s \in Created : row[s].revoked => row'[s] = row[s]
         /\ \A r \in Requests : At(r, "touch") /\ (At(r, "ask") \/ At(r, "revoke"))' =>
              request[r].at < row[request[r].sid].since + AbsoluteLife]_vars
  <2> SUFFICES ASSUME SessionInv, [Next]_vars
               PROVE  /\ \A s \in Created : row[s].revoked => row'[s] = row[s]
                      /\ \A r \in Requests : At(r, "touch") /\ (At(r, "ask") \/ At(r, "revoke"))' =>
                           request[r].at < row[request[r].sid].since + AbsoluteLife
    OBVIOUS
  <2>1. \A s \in Created : row[s].revoked => row'[s] = row[s]
    BY SessionNextInv DEF Keeps
  <2>2. ASSUME NEW r \in Requests, At(r, "touch"), (At(r, "ask") \/ At(r, "revoke"))'
        PROVE  request[r].at < row[request[r].sid].since + AbsoluteLife
    <3>1. TouchSession(r)
      BY <2>2, OnlyTouchGoesOn
    <3>2. Fits(request[r]) /\ request[r] # Nothing /\ request[r].step = "touch"
      BY <2>2 DEF At, SessionInv, RequestsFit
    <3>3. request[r].sid \in Created
      BY <3>2 DEF Fits
    <3>4. Touchable(request[r].sid, request[r].at)
      <4>1. request'[r] # Nothing /\ request \in [Requests -> Handling \cup {Nothing}]
        BY <2>2 DEF At, SessionInv, RequestsFit
      <4> QED BY <3>1, <4>1 DEF TouchSession, Ends
    <3> QED BY <3>3, <3>4 DEF Touchable, Active, SessionInv, Signed
  <2> QED BY <2>1, <2>2
<1> QED BY <1>1, <1>2, <1>3, PTL DEF Spec, EndedSignInsStayEnded

-----------------------------------------------------------------------------
\* The bot knew the member under a tier at an instant, or later.
HeldSince(t, at) == lastHeld[t] # Nothing /\ lastHeld[t] >= at

\* What a request holds on to was so while it was handled: the answer of the bot, or the
\* remembered one for a read, and the sign-in for what is of high risk.
Founded(q) ==
  q # Nothing /\ q.step \in Steps =>
    /\ q.at <= now
    /\ tier = "administrator" => q.seen
    /\ q.cached => /\ q.step = "act" /\ q.kind = "read"
                   /\ q.answer \in Tiers /\ HeldSince(q.answer, q.at - CacheLife)
    /\ ~q.cached /\ q.step \in {"commit", "verify", "rotate", "act"} /\ q.answer \in Tiers =>
         (q.answer = "administrator" => q.seen) /\ HeldSince(q.answer, q.at)
    /\ q.kind = "high_risk" /\ q.step \in {"rotate", "act"} => q.at <= row[q.sid].since + RecentLife

RightsInv ==
  /\ tier \in Tiers => lastHeld[tier] = now
  /\ \A t \in Tiers : lastHeld[t] # Nothing => lastHeld[t] <= now
  /\ cache # Nothing => HeldSince(cache.tier, cache.at)
  /\ \A r \in Requests : Founded(request[r])

\* A step of one request, that leaves the world alone.
LEMMA RightsStep ==
  ASSUME SessionInv, RightsInv, UNCHANGED world, Keeps, NEW r \in Requests, NEW CONSTANT q,
         request' = [request EXCEPT ![r] = q], Founded(q)',
         cache' = cache \/ HeldSince(cache'.tier, cache'.at)
  PROVE  RightsInv'
<1>1. now' = now /\ tier' = tier /\ lastHeld' = lastHeld
  BY DEF world
<1>2. request'[r] = q /\ \A k \in Requests \ {r} : request'[k] = request[k]
  BY DEF SessionInv, RequestsFit
<1>3. ASSUME NEW k \in Requests PROVE Founded(request[k])'
  <2>1. CASE k = r
    BY <1>2, <2>1 DEF Founded, HeldSince
  <2>2. CASE k # r
    <3>1. PICK p : p = request[k]
      OBVIOUS
    <3>2. request'[k] = p /\ Fits(p) /\ Founded(p)
      BY <1>2, <2>2, <3>1 DEF RightsInv, SessionInv, RequestsFit
    <3>3. p # Nothing /\ p.step \in {"rotate", "act"} => row'[p.sid].since = row[p.sid].since
      BY <3>2 DEF Fits, Keeps
    <3> QED BY <1>1, <3>2, <3>3 DEF Founded, HeldSince
  <2> QED BY <2>1, <2>2
<1>4. cache' # Nothing => HeldSince(cache'.tier, cache'.at)
  BY DEF RightsInv
<1> QED BY <1>1, <1>3, <1>4 DEF RightsInv, HeldSince

\* A request that is over, or answered, holds on to nothing.
LEMMA QuietRights ==
  ASSUME SessionInv, RightsInv, UNCHANGED world, Keeps, NEW r \in Requests, NEW CONSTANT q,
         request' = [request EXCEPT ![r] = q], q = Nothing \/ q.step \in Replying,
         cache' = cache \/ HeldSince(cache'.tier, cache'.at)
  PROVE  RightsInv'
<1>1. Founded(q)'
  BY DEF Founded, Steps, Replying
<1> QED BY <1>1, RightsStep

\* The ends of a request.
LEMMA EndsRights ==
  ASSUME SessionInv, RightsInv, UNCHANGED world, Keeps, NEW r \in Requests,
         \/ Ends(r) \/ ExpiresState(r)
         \/ \E step \in Replying : \E new \in Sids \cup {Nothing} : Answers(r, step, new),
         cache' = cache \/ HeldSince(cache'.tier, cache'.at)
  PROVE  RightsInv'
<1>1. CASE Ends(r)
  BY <1>1, QuietRights DEF Ends
<1>2. ASSUME NEW step \in Replying, NEW new \in Sids \cup {Nothing}, Answers(r, step, new) PROVE RightsInv'
  <2>1. PICK q : q = Answer(step, request[r].sid, request[r].state, new)
    OBVIOUS
  <2>2. request' = [request EXCEPT ![r] = q] /\ q.step = step
    BY <1>2, <2>1 DEF Answers, Answer, SessionInv, RequestsFit
  <2> QED BY <2>2, QuietRights
<1>3. CASE ExpiresState(r)
  BY <1>2, <1>3 DEF ExpiresState, Replying
<1> QED BY <1>1, <1>2, <1>3

\* A member whom nobody asked about yet.
LEMMA RightsInitInv == Init => RightsInv
<1> SUFFICES ASSUME Init PROVE RightsInv
  OBVIOUS
<1>1. Nothing \notin Nat
  BY SessionAssumption DEF SessionConstants
<1> QED BY <1>1 DEF Init, RightsInv, Founded

\* The bot still knows the member under the tier they have.
LEMMA TierIsHeld ==
  ASSUME SessionInv, RightsInv, tier \in Tiers, NEW at \in Nat, at <= now PROVE HeldSince(tier, at)
<1>1. now \in Nat /\ Nothing \notin Nat
  BY SessionAssumption DEF SessionConstants, SessionInv, TablesOK
<1> QED BY <1>1 DEF HeldSince, RightsInv

\* Time passes.
LEMMA TimeRights ==
  ASSUME SessionInv, RightsInv, TimePasses
  PROVE  RightsInv'
<1>1. now' = now + 1 /\ now \in Nat /\ Nothing \notin Nat /\ CacheLife \in Nat
      /\ lastHeld \in [Tiers -> Nat \cup {Nothing}]
  BY SessionAssumption DEF SessionConstants, SessionInv, TablesOK, TimePasses
<1>2. tier' = tier /\ cache' = cache /\ row' = row /\ request' = request
      /\ lastHeld' = [t \in Tiers |-> IF t = tier THEN now + 1 ELSE lastHeld[t]]
  BY DEF TimePasses, tables
<1>3. ASSUME NEW t \in Tiers, NEW at \in Int, HeldSince(t, at)
      PROVE  HeldSince(t, at)'
  BY <1>1, <1>2, <1>3 DEF HeldSince, RightsInv
<1>4. ASSUME NEW r \in Requests PROVE Founded(request[r])'
  <2>1. PICK q : q = request[r]
    OBVIOUS
  <2>2. request'[r] = q /\ Founded(q) /\ (q # Nothing => q \in Handling)
    BY <1>2, <2>1 DEF RightsInv, SessionInv, RequestsFit
  <2>3. CASE q # Nothing /\ q.step \in Steps
    <3>1. q \in Working
      BY <2>2, <2>3 DEF Handling, Answering, Steps, Replying
    <3>2. q.at \in Nat /\ q.at - CacheLife \in Int /\ (q.at <= now => q.at <= now')
      BY <1>1, <3>1 DEF Working
    <3>3. q.cached => q.answer \in Tiers
      BY <2>2, <2>3 DEF Founded
    <3> QED BY <1>2, <1>3, <2>2, <2>3, <3>2, <3>3 DEF Founded
  <2>4. CASE ~(q # Nothing /\ q.step \in Steps)
    BY <2>2, <2>4 DEF Founded
  <2> QED BY <2>3, <2>4
<1>5. cache # Nothing => HeldSince(cache.tier, cache.at)'
  <2> SUFFICES ASSUME cache # Nothing PROVE HeldSince(cache.tier, cache.at)'
    OBVIOUS
  <2>1. PICK t \in Tiers, at \in Nat : t = cache.tier /\ at = cache.at
    BY DEF SessionInv, TablesOK
  <2>2. HeldSince(t, at)'
    BY <1>3, <2>1 DEF RightsInv
  <2> QED BY <1>2, <2>1, <2>2 DEF HeldSince
<1>6. \A t \in Tiers : lastHeld'[t] # Nothing => lastHeld'[t] <= now'
  BY <1>1, <1>2 DEF RightsInv
<1>7. tier' \in Tiers => lastHeld'[tier'] = now'
  BY <1>1, <1>2
<1> QED BY <1>2, <1>4, <1>5, <1>6, <1>7 DEF RightsInv

\* A change of roles is seen by every request.
LEMMA TierRights ==
  ASSUME SessionInv, RightsInv, TierChanges
  PROVE  RightsInv'
<1>1. now' = now /\ now \in Nat /\ Nothing \notin Nat /\ CacheLife \in Nat
      /\ lastHeld \in [Tiers -> Nat \cup {Nothing}]
  BY SessionAssumption DEF SessionConstants, SessionInv, TablesOK, TierChanges
<1>2. cache' = cache /\ row' = row /\ lastHeld' = [t \in Tiers |-> IF t = tier' THEN now ELSE lastHeld[t]]
  BY DEF TierChanges, tables
<1>3. ASSUME NEW t \in Tiers, NEW at \in Int, HeldSince(t, at)
      PROVE  HeldSince(t, at)'
  BY <1>1, <1>2, <1>3 DEF HeldSince, RightsInv
<1>4. ASSUME NEW r \in Requests PROVE Founded(request[r])'
  <2>1. PICK q : q = request[r]
    OBVIOUS
  <2>2. Founded(q) /\ q \in Handling \cup {Nothing}
    BY <2>1 DEF RightsInv, SessionInv, RequestsFit
  <2>3. CASE q # Nothing /\ q.step \notin Replying
    <3>1. q \in Working
      BY <2>2, <2>3 DEF Handling, Answering
    <3>2. request'[r] = [q EXCEPT !.seen = @ \/ tier' = "administrator"]
      BY <2>1, <2>3 DEF TierChanges, Free
    <3>3. PICK p : p = [q EXCEPT !.seen = @ \/ tier' = "administrator"]
      OBVIOUS
    <3>4. /\ p.step = q.step /\ p.at = q.at /\ p.cached = q.cached /\ p.kind = q.kind
          /\ p.answer = q.answer /\ p.sid = q.sid
          /\ q.seen => p.seen
          /\ tier' = "administrator" => p.seen
      BY <3>1, <3>3 DEF Working
    <3>5. q.at \in Nat /\ q.at - CacheLife \in Int
      BY <1>1, <3>1 DEF Working
    <3>6. Founded(p)'
      BY <1>1, <1>2, <1>3, <2>2, <2>3, <3>4, <3>5 DEF Founded
    <3> QED BY <3>2, <3>3, <3>6 DEF Founded, HeldSince
  <2>4. CASE q = Nothing \/ q.step \in Replying
    <3>1. request'[r] = q
      BY <2>1, <2>4 DEF TierChanges, Free
    <3> QED BY <2>4, <3>1 DEF Founded, Steps, Replying
  <2> QED BY <2>3, <2>4
<1>5. cache # Nothing => HeldSince(cache.tier, cache.at)'
  <2> SUFFICES ASSUME cache # Nothing PROVE HeldSince(cache.tier, cache.at)'
    OBVIOUS
  <2>1. PICK t \in Tiers, at \in Nat : t = cache.tier /\ at = cache.at
    BY DEF SessionInv, TablesOK
  <2>2. HeldSince(t, at)'
    BY <1>3, <2>1 DEF RightsInv
  <2> QED BY <1>2, <2>1, <2>2 DEF HeldSince
<1>6. \A t \in Tiers : lastHeld'[t] # Nothing => lastHeld'[t] <= now'
  BY <1>1, <1>2 DEF RightsInv
<1>7. tier' \in Tiers => lastHeld'[tier'] = now'
  BY <1>1, <1>2
<1> QED BY <1>2, <1>4, <1>5, <1>6, <1>7 DEF RightsInv

\* Steps that end a request or answer it, and the login.
LEMMA EndingRights ==
  ASSUME SessionInv, RightsInv, Keeps, NEW r \in Requests,
         Login(r) \/ RevokeSession(r) \/ Act(r) \/ Fails(r) \/ Replies(r) \/ Receives(r)
  PROVE  RightsInv'
<1>1. UNCHANGED world /\ cache' = cache
  BY DEF Login, RevokeSession, Act, Fails, Replies, Receives, tables
<1>2. CASE Login(r)
  <2>1. PICK q : q = Answer("set_state", Nothing, NextOf(States, Issued), Nothing)
    OBVIOUS
  <2>2. request' = [request EXCEPT ![r] = q] /\ q.step \in Replying
    BY <1>2, <2>1 DEF Login, Answer, Replying
  <2> QED BY <1>1, <2>2, QuietRights
<1>3. CASE RevokeSession(r)
  BY <1>1, <1>3, EndsRights DEF RevokeSession, Replying
<1>4. CASE Act(r)
  <2>1. Fits(request[r]) /\ request[r] # Nothing
    BY <1>4 DEF Act, At, SessionInv, RequestsFit
  <2>2. PICK new \in Sids \cup {Nothing} : new = request[r].new
    BY <2>1 DEF Fits, Created
  <2>3. Ends(r) \/ Answers(r, "reply", new)
    BY <1>4, <2>2 DEF Act
  <2> QED BY <1>1, <2>2, <2>3, EndsRights DEF Replying
<1>5. CASE Fails(r) \/ Replies(r) \/ Receives(r)
  <2>1. Ends(r) \/ ExpiresState(r)
    BY <1>5 DEF Fails, Replies, Receives
  <2> QED BY <1>1, <2>1, EndsRights
<1> QED BY <1>2, <1>3, <1>4, <1>5

\* A request that arrives has seen what is the case.
LEMMA ArrivingRights ==
  ASSUME SessionInv, RightsInv, Keeps, UNCHANGED world, cache' = cache, NEW r \in Requests,
         NEW kind, NEW step \in {"check", "find"}, NEW CONSTANT st, Arrives(r, kind, step, st)
  PROVE  RightsInv'
<1>1. PICK q : q = Handled(kind, step, jar.session, st)
  OBVIOUS
<1>2. request' = [request EXCEPT ![r] = q]
  BY <1>1 DEF Arrives
<1>3. q.at = now /\ q.step = step /\ q.cached = FALSE /\ (q.seen <=> tier = "administrator")
  BY <1>1 DEF Handled
<1>4. now' = now /\ tier' = tier /\ now \in Nat
  BY DEF world, SessionInv, TablesOK
<1>5. Founded(q)'
  BY <1>3, <1>4 DEF Founded
<1> QED BY <1>2, <1>5, RightsStep

\* The requests that arrive: a callback, or one with a session cookie.
LEMMA ArrivalRights ==
  ASSUME SessionInv, RightsInv, Keeps, NEW r \in Requests,
         Callback(r) \/ AsksToRead(r) \/ AsksToChange(r) \/ AsksToDecide(r) \/ AsksToLeave(r)
  PROVE  RightsInv'
<1>1. UNCHANGED world /\ cache' = cache
  BY DEF Callback, AsksToRead, AsksToChange, AsksToDecide, AsksToLeave, Asks, tables
<1>2. CASE AsksToRead(r) \/ AsksToChange(r) \/ AsksToDecide(r) \/ AsksToLeave(r)
  <2>1. PICK kind : Arrives(r, kind, "find", Nothing)
    BY <1>2 DEF AsksToRead, AsksToChange, AsksToDecide, AsksToLeave, Asks
  <2> QED BY <1>1, <2>1, ArrivingRights
<1>3. CASE Callback(r)
  <2>1. PICK st \in Issued :
          IF jar.state = st THEN Arrives(r, "callback", "check", st)
          ELSE Free(r) /\ request' = [request EXCEPT ![r] = Answer("expire_state", jar.session, st, Nothing)]
    BY <1>3 DEF Callback
  <2>2. CASE jar.state = st
    BY <1>1, <2>1, <2>2, ArrivingRights
  <2>3. CASE jar.state # st
    <3>1. PICK q : q = Answer("expire_state", jar.session, st, Nothing)
      OBVIOUS
    <3>2. request' = [request EXCEPT ![r] = q] /\ q.step \in Replying
      BY <2>1, <2>3, <3>1 DEF Answer, Replying
    <3> QED BY <1>1, <3>2, QuietRights
  <2> QED BY <2>2, <2>3
<1> QED BY <1>2, <1>3

\* What is committed of a sign-in is the answer of the bot.
LEMMA CommitRights ==
  ASSUME SessionInv, RightsInv, Keeps, NEW r \in Requests, CommitCallback(r)
  PROVE  RightsInv'
<1>1. UNCHANGED world /\ lastHeld' = lastHeld
  BY DEF CommitCallback, world
<1>2. request[r] \in Working /\ request[r].step = "commit" /\ request[r] # Nothing /\ Fits(request[r])
      /\ Founded(request[r])
  BY WorkingAt DEF CommitCallback, Steps, SessionInv, RightsInv
<1>3. CASE cache' = cache /\ ExpiresState(r)
  BY <1>1, <1>3, EndsRights
<1>4. CASE Consumable(request[r].state, request[r].at)
  <2>1. cache' = [tier |-> request[r].answer, at |-> request[r].at]
    BY <1>4 DEF CommitCallback
  <2>2. PICK s \in Sids : s = NextOf(Sids, Created)
    BY NextIsFree DEF CommitCallback
  <2>3. Answers(r, "set_session", s) \/ ExpiresState(r)
    BY <1>4, <2>2 DEF CommitCallback
  <2>4. HeldSince(request[r].answer, request[r].at)
    BY <1>2 DEF Founded, Fits, Steps
  <2>5. HeldSince(cache'.tier, cache'.at)
    BY <2>1, <2>4 DEF HeldSince
  <2> QED BY <1>1, <2>2, <2>3, <2>5, EndsRights DEF Replying
<1> QED BY <1>3, <1>4 DEF CommitCallback, tables

\* On the way to the commit the bot is asked for the tier.
LEMMA SignInRights ==
  ASSUME SessionInv, RightsInv, Keeps, NEW r \in Requests, CheckState(r) \/ Identify(r)
  PROVE  RightsInv'
<1>1. UNCHANGED world /\ cache' = cache /\ now' = now /\ tier' = tier /\ lastHeld' = lastHeld
  BY DEF CheckState, Identify, world, tables
<1>2. request[r] \in Working /\ request[r] # Nothing /\ Founded(request[r]) /\ request[r].step \in {"check", "identify"}
  <2>1. CASE At(r, "check")
    BY <2>1, WorkingAt DEF SessionInv, RightsInv, Steps
  <2>2. CASE At(r, "identify")
    BY <2>2, WorkingAt DEF SessionInv, RightsInv, Steps
  <2> QED BY <2>1, <2>2 DEF CheckState, Identify
<1>3. /\ request[r].at \in Nat /\ request[r].at <= now /\ ~request[r].cached
      /\ tier = "administrator" => request[r].seen
  BY <1>2 DEF Founded, Working, Steps
<1>4. CASE ExpiresState(r)
  BY <1>1, <1>4, EndsRights
<1>5. CASE Goes(r, "identify")
  <2>1. PICK q : q = [request[r] EXCEPT !.step = "identify"]
    OBVIOUS
  <2>2. request' = [request EXCEPT ![r] = q]
    BY <1>5, <2>1 DEF Goes
  <2>3. q.step = "identify" /\ q.at = request[r].at /\ q.cached = request[r].cached /\ q.seen = request[r].seen
    BY <1>2, <2>1 DEF Working
  <2>4. Founded(q)'
    BY <1>1, <1>3, <2>3 DEF Founded
  <2> QED BY <1>1, <2>2, <2>4, RightsStep
<1>6. CASE tier \in Tiers /\ request' = [request EXCEPT ![r].step = "commit", ![r].answer = tier]
  <2>1. PICK q : q = [request[r] EXCEPT !.step = "commit", !.answer = tier]
    OBVIOUS
  <2>2. request' = [request EXCEPT ![r] = q]
    BY <1>6, <2>1 DEF SessionInv, RequestsFit
  <2>3. q.step = "commit" /\ q.at = request[r].at /\ q.cached = request[r].cached /\ q.seen = request[r].seen
        /\ q.answer = tier
    BY <1>2, <2>1 DEF Working
  <2>4. HeldSince(tier, request[r].at)
    BY <1>3, <1>6, TierIsHeld
  <2>5. Founded(q)'
    BY <1>1, <1>3, <2>3, <2>4 DEF Founded, HeldSince
  <2> QED BY <1>1, <2>2, <2>5, RightsStep
<1> QED BY <1>4, <1>5, <1>6 DEF CheckState, Identify

\* The look at the session; what it reads is not yet a right.
LEMMA FindRights ==
  ASSUME SessionInv, RightsInv, Keeps, NEW r \in Requests, FindSession(r)
  PROVE  RightsInv'
<1>1. UNCHANGED world /\ cache' = cache /\ now' = now /\ tier' = tier /\ lastHeld' = lastHeld
  BY DEF FindSession, world, tables
<1>2. request[r] \in Working /\ request[r] # Nothing /\ Founded(request[r]) /\ request[r].step = "find"
  BY WorkingAt DEF FindSession, SessionInv, RightsInv, Steps
<1>3. request[r].at <= now /\ ~request[r].cached /\ (tier = "administrator" => request[r].seen)
  BY <1>2 DEF Founded, Steps
<1>4. CASE Ends(r)
  BY <1>1, <1>4, EndsRights
<1>5. CASE request' = [request EXCEPT ![r].step = "touch", ![r].snapshot = row[request[r].sid].tier]
  <2>1. PICK q : q = [request[r] EXCEPT !.step = "touch", !.snapshot = row[request[r].sid].tier]
    OBVIOUS
  <2>2. request' = [request EXCEPT ![r] = q]
    BY <1>5, <2>1 DEF SessionInv, RequestsFit
  <2>3. q.step = "touch" /\ q.at = request[r].at /\ q.cached = request[r].cached /\ q.seen = request[r].seen
    BY <1>2, <2>1 DEF Working
  <2>4. Founded(q)'
    BY <1>1, <1>3, <2>3 DEF Founded
  <2> QED BY <1>1, <2>2, <2>4, RightsStep
<1> QED BY <1>4, <1>5 DEF FindSession

\* After the touch the clock is read again.
LEMMA TouchRights ==
  ASSUME SessionInv, RightsInv, Keeps, NEW r \in Requests, TouchSession(r)
  PROVE  RightsInv'
<1>1. UNCHANGED world /\ cache' = cache /\ now' = now /\ tier' = tier /\ now \in Nat
  BY DEF TouchSession, world, SessionInv, TablesOK
<1>2. request[r] \in Working /\ request[r] # Nothing /\ Founded(request[r]) /\ request[r].step = "touch"
  BY WorkingAt DEF TouchSession, SessionInv, RightsInv, Steps
<1>3. ~request[r].cached /\ (tier = "administrator" => request[r].seen)
  BY <1>2 DEF Founded, Steps
<1>4. CASE Ends(r)
  BY <1>1, <1>4, EndsRights
<1>5. CASE request' = [request EXCEPT ![r].at = now,
                         ![r].step = IF request[r].kind = "logout" THEN "revoke" ELSE "ask"]
  <2>1. PICK step \in {"revoke", "ask"} : step = IF request[r].kind = "logout" THEN "revoke" ELSE "ask"
    OBVIOUS
  <2>2. PICK q : q = [request[r] EXCEPT !.at = now, !.step = step]
    OBVIOUS
  <2>3. request' = [request EXCEPT ![r] = q]
    BY <1>5, <2>1, <2>2 DEF SessionInv, RequestsFit
  <2>4. q.step = step /\ q.at = now /\ q.cached = request[r].cached /\ q.seen = request[r].seen
    BY <1>2, <2>2 DEF Working
  <2>5. Founded(q)'
    BY <1>1, <1>3, <2>1, <2>4 DEF Founded
  <2> QED BY <1>1, <2>3, <2>5, RightsStep
<1> QED BY <1>4, <1>5 DEF TouchSession

\* The answer of the bot is what it knows.
LEMMA AskRights ==
  ASSUME SessionInv, RightsInv, Keeps, NEW r \in Requests, AskBot(r)
  PROVE  RightsInv'
<1>1. UNCHANGED world /\ cache' = cache /\ now' = now /\ tier' = tier /\ lastHeld' = lastHeld
  BY DEF AskBot, world, tables
<1>2. request[r] \in Working /\ request[r] # Nothing /\ Founded(request[r]) /\ request[r].step = "ask"
  BY WorkingAt DEF AskBot, SessionInv, RightsInv, Steps
<1>3. /\ request[r].at \in Nat /\ request[r].at <= now /\ ~request[r].cached
      /\ tier = "administrator" => request[r].seen
  BY <1>2 DEF Founded, Working, Steps
<1>4. PICK answer \in {tier, "unavailable"} :
        request' = [request EXCEPT ![r].step = "verify", ![r].answer = answer]
  BY DEF AskBot
<1>5. PICK q : q = [request[r] EXCEPT !.step = "verify", !.answer = answer]
  OBVIOUS
<1>6. request' = [request EXCEPT ![r] = q]
  BY <1>4, <1>5 DEF SessionInv, RequestsFit
<1>7. q.step = "verify" /\ q.at = request[r].at /\ q.cached = request[r].cached /\ q.seen = request[r].seen
      /\ q.answer = answer
  BY <1>2, <1>5 DEF Working
<1>8. answer \in Tiers => answer = tier /\ HeldSince(tier, request[r].at)
  BY <1>3, <1>4, TierIsHeld DEF Tiers
<1>9. Founded(q)'
  BY <1>1, <1>3, <1>7, <1>8 DEF Founded, HeldSince
<1> QED BY <1>1, <1>6, <1>9, RightsStep

\* Only what the bot said, or a read on what it said recently, goes on; what is of high
\* risk within the recent time of the sign-in.
LEMMA VerifyRights ==
  ASSUME SessionInv, RightsInv, Keeps, NEW r \in Requests, Verify(r)
  PROVE  RightsInv'
<1>1. UNCHANGED world /\ row' = row /\ now' = now /\ tier' = tier /\ lastHeld' = lastHeld
  BY DEF Verify, world
<1>2. request[r] \in Working /\ request[r] # Nothing /\ Founded(request[r]) /\ request[r].step = "verify"
      /\ Fits(request[r])
  BY WorkingAt DEF Verify, SessionInv, RightsInv, Steps
<1>3. /\ request[r].at \in Nat /\ request[r].at <= now /\ ~request[r].cached
      /\ tier = "administrator" => request[r].seen
      /\ request[r].answer \in Tiers =>
           (request[r].answer = "administrator" => request[r].seen) /\ HeldSince(request[r].answer, request[r].at)
  BY <1>2 DEF Founded, Working, Steps
<1>4. cache' = cache \/ HeldSince(cache'.tier, cache'.at)
  <2>1. CASE request[r].answer \in Tiers
    <3>1. cache' = [tier |-> request[r].answer, at |-> request[r].at]
      BY <2>1 DEF Verify
    <3> QED BY <1>3, <2>1, <3>1 DEF HeldSince
  <2>2. CASE request[r].answer \notin Tiers
    BY <2>2 DEF Verify
  <2> QED BY <2>1, <2>2
<1>5. CASE Ends(r)
  BY <1>1, <1>4, <1>5, EndsRights
<1>6. ASSUME request[r].answer \in Tiers, NEW step \in {"rotate", "act"}, Goes(r, step),
             ~(request[r].kind = "high_risk" /\ ~Recent(row[request[r].sid].oauth, request[r].at, RecentLife))
      PROVE  RightsInv'
  <2>1. PICK q : q = [request[r] EXCEPT !.step = step]
    OBVIOUS
  <2>2. request' = [request EXCEPT ![r] = q]
    BY <1>6, <2>1 DEF Goes
  <2>3. q.step = step /\ q.at = request[r].at /\ q.cached = request[r].cached /\ q.seen = request[r].seen
        /\ q.answer = request[r].answer /\ q.kind = request[r].kind /\ q.sid = request[r].sid
    BY <1>2, <2>1 DEF Working
  <2>4. request[r].kind = "high_risk" => request[r].at <= row[request[r].sid].since + RecentLife
    <3>1. request[r].sid \in Created
      BY <1>2 DEF Fits
    <3>2. row[request[r].sid].oauth = row[request[r].sid].since /\ row[request[r].sid] \in Rows
      BY <3>1 DEF SessionInv, Signed, TablesOK, Created
    <3>3. row[request[r].sid].since \in Nat /\ RecentLife \in Nat
      BY <3>2, SessionAssumption DEF SessionConstants, Rows
    <3> QED BY <1>3, <1>6, <3>2, <3>3 DEF Recent
  <2>5. Founded(q)'
    BY <1>1, <1>3, <1>6, <2>3, <2>4 DEF Founded, HeldSince
  <2> QED BY <1>1, <1>4, <2>2, <2>5, RightsStep
<1>7. ASSUME request[r].kind = "read", cache # Nothing, Recent(cache.at, request[r].at, CacheLife),
             request' = [request EXCEPT ![r].step = "act", ![r].answer = cache.tier, ![r].cached = TRUE]
      PROVE  RightsInv'
  <2>1. PICK t \in Tiers, at \in Nat : t = cache.tier /\ at = cache.at
    BY <1>7 DEF SessionInv, TablesOK
  <2>2. PICK q : q = [request[r] EXCEPT !.step = "act", !.answer = t, !.cached = TRUE]
    OBVIOUS
  <2>3. request' = [request EXCEPT ![r] = q]
    BY <1>7, <2>1, <2>2 DEF SessionInv, RequestsFit
  <2>4. q.step = "act" /\ q.at = request[r].at /\ q.cached /\ q.seen = request[r].seen
        /\ q.answer = t /\ q.kind = "read"
    BY <1>2, <1>7, <2>2 DEF Working
  <2>5. HeldSince(t, request[r].at - CacheLife)
    <3>1. HeldSince(t, at) /\ lastHeld[t] \in Nat \cup {Nothing} /\ CacheLife \in Nat
      BY <1>7, <2>1, SessionAssumption DEF RightsInv, SessionInv, TablesOK, SessionConstants
    <3>2. request[r].at - at <= CacheLife
      BY <1>7, <2>1 DEF Recent
    <3> QED BY <1>3, <3>1, <3>2 DEF HeldSince
  <2>6. Founded(q)'
    BY <1>1, <1>3, <2>1, <2>4, <2>5 DEF Founded, HeldSince
  <2> QED BY <1>1, <1>4, <2>3, <2>6, RightsStep
<1> QED BY <1>5, <1>6, <1>7 DEF Verify, MayUseCache

\* A request that is moved to another session goes on with the rights it has.
LEMMA RotateRights ==
  ASSUME SessionInv, RightsInv, Keeps, NEW r \in Requests, Rotate(r)
  PROVE  RightsInv'
<1>1. UNCHANGED world /\ cache' = cache /\ now' = now /\ tier' = tier /\ lastHeld' = lastHeld
  BY DEF Rotate, world
<1>2. request[r] \in Working /\ request[r] # Nothing /\ Founded(request[r]) /\ request[r].step = "rotate"
      /\ Fits(request[r])
  BY WorkingAt DEF Rotate, SessionInv, RightsInv, Steps
<1>3. CASE Ends(r)
  BY <1>1, <1>3, EndsRights
<1>4. ASSUME NEW s, request' = [request EXCEPT ![r].step = "act", ![r].new = s] PROVE RightsInv'
  <2>1. PICK q : q = [request[r] EXCEPT !.step = "act", !.new = s]
    OBVIOUS
  <2>2. request' = [request EXCEPT ![r] = q]
    BY <1>4, <2>1 DEF SessionInv, RequestsFit
  <2>3. q.step = "act" /\ q.at = request[r].at /\ q.cached = request[r].cached /\ q.seen = request[r].seen
        /\ q.answer = request[r].answer /\ q.kind = request[r].kind /\ q.sid = request[r].sid
    BY <1>2, <2>1 DEF Working
  <2>4. row'[request[r].sid].since = row[request[r].sid].since
    BY <1>2 DEF Fits, Keeps
  <2>5. Founded(q)'
    BY <1>1, <1>2, <2>3, <2>4 DEF Founded, HeldSince, Steps
  <2> QED BY <1>1, <2>2, <2>5, RightsStep
<1> QED BY <1>3, <1>4 DEF Rotate

\* No step breaks what requests hold on to.
LEMMA RightsNextInv ==
  ASSUME SessionInv, RightsInv, [Next]_vars
  PROVE  RightsInv'
<1>0. Keeps
  BY SessionNextInv
<1>1. CASE UNCHANGED vars
  <2>1. UNCHANGED <<now, tier, lastHeld, row, cache, request>>
    BY <1>1 DEF vars, world, tables
  <2>2. ASSUME NEW r \in Requests PROVE Founded(request[r])'
    BY <2>1 DEF RightsInv, Founded, HeldSince
  <2> QED BY <2>1, <2>2 DEF RightsInv, HeldSince
<1>2. CASE TimePasses \/ TierChanges
  BY <1>2, TimeRights, TierRights
<1>3. ASSUME NEW r \in Requests,
             \/ Login(r) \/ RevokeSession(r) \/ Act(r) \/ Fails(r) \/ Replies(r) \/ Receives(r)
             \/ Callback(r) \/ AsksToRead(r) \/ AsksToChange(r) \/ AsksToDecide(r) \/ AsksToLeave(r)
      PROVE  RightsInv'
  BY <1>0, <1>3, EndingRights, ArrivalRights
<1>4. ASSUME NEW r \in Requests,
             \/ CommitCallback(r) \/ CheckState(r) \/ Identify(r) \/ FindSession(r) \/ TouchSession(r)
             \/ AskBot(r) \/ Verify(r) \/ Rotate(r)
      PROVE  RightsInv'
  BY <1>0, <1>4, CommitRights, SignInRights, FindRights, TouchRights, AskRights, VerifyRights, RotateRights
<1> QED BY <1>1, <1>2, <1>3, <1>4 DEF Next

\* Who acts has the right to: a change, only if the bot knew the member as an administrator
\* while it was handled; one of high risk, within the recent time of the sign-in; and what
\* is read on a remembered tier, the bot confirmed that recently.
THEOREM SessionRightsAreCurrent == Spec => []RightsAreCurrent
<1>1. Init => SessionInv /\ RightsInv
  BY SessionInitInv, RightsInitInv
<1>2. SessionInv /\ RightsInv /\ [Next]_vars => SessionInv' /\ RightsInv'
  BY SessionNextInv, RightsNextInv
<1>3. SessionInv /\ RightsInv => RightsAreCurrent
  <2> SUFFICES ASSUME SessionInv, RightsInv, NEW r \in Requests, At(r, "act")
               PROVE  /\ request[r].kind # "read" /\ request[r].answer = "administrator" => request[r].seen
                      /\ request[r].kind = "high_risk" => request[r].at <= row[request[r].sid].since + RecentLife
                      /\ request[r].cached => /\ lastHeld[request[r].answer] # Nothing
                                              /\ lastHeld[request[r].answer] + CacheLife >= request[r].at
    BY DEF RightsAreCurrent
  <2>1. request[r] \in Working /\ request[r].step = "act" /\ request[r] # Nothing /\ Founded(request[r])
    BY WorkingAt DEF SessionInv, RightsInv, Steps
  <2>2. request[r].at \in Nat /\ CacheLife \in Nat /\ lastHeld \in [Tiers -> Nat \cup {Nothing}]
    BY <2>1, SessionAssumption DEF Working, SessionConstants, SessionInv, TablesOK
  <2> QED BY <2>1, <2>2 DEF Founded, HeldSince, Steps, Tiers
<1> QED BY <1>1, <1>2, <1>3, PTL DEF Spec

-----------------------------------------------------------------------------
\* Who holds a session that a rotation opened.

\* A session the browser has, has sent with a request, or is being sent.
IsHeld(h) ==
  \/ h = jar.session
  \/ \E r \in Requests : /\ request[r] # Nothing
                         /\ h = request[r].sid \/ (request[r].step = "set_session" /\ h = request[r].new)

\* A session whose sign-in has another one is over, wherever it is held.
Superseded(h) ==
  \A t \in Created : t # h /\ row[t].login = row[h].login => row[h].revoked
MovedSessionsAreUnheld == \A h \in Created : IsHeld(h) => Superseded(h)

\* A session is opened: the others stay with their sign-ins.
Opened(s) == Created' = Created \cup {s} /\ \A t \in Created : row'[t].login = row[t].login

\* The row that is written is the only one that is new.
LEMMA OpenedRow ==
  ASSUME TablesOK, NEW CONSTANT x, NEW s \in Sids \ Created, NEW CONSTANT n, n \in Rows,
         row' = [WithoutSession(x) EXCEPT ![s] = n]
  PROVE  Opened(s) /\ row'[s] = n /\ (x \in Created => row'[x].revoked)
<1>1. row'[s] = n /\ n # Nothing /\ \A t \in Sids \ {s} : row'[t] = WithoutSession(x)[t]
  BY WithoutSessionRows, NothingAssumption
<1>2. \A t \in Sids \ {s} : row'[t] # Nothing <=> row[t] # Nothing
  BY <1>1, WithoutSessionRows
<1>3. Created' = {t \in Sids : row'[t] # Nothing} /\ Created = {t \in Sids : row[t] # Nothing}
  BY DEF Created
<1>4. Created' = Created \cup {s}
  BY <1>1, <1>2, <1>3
<1>5. ASSUME NEW t \in Created PROVE row'[t].login = row[t].login /\ (t = x => row'[t].revoked)
  <2>1. t \in Sids \ {s} /\ row[t] # Nothing
    BY <1>3
  <2> QED BY <1>1, <2>1, WithoutSessionRows
<1> QED BY <1>1, <1>4, <1>5 DEF Opened

\* What a sign-in opens is the first session of its state.
LEMMA SignInOpens ==
  ASSUME SessionInv, NEW r \in Requests, CommitCallback(r)
  PROVE  \/ row' = row /\ ExpiresState(r)
         \/ \E s \in Sids \ Created :
              /\ Opened(s) /\ \A t \in Created : row[t].login # row'[s].login
              /\ Answers(r, "set_session", s) \/ ExpiresState(r)
<1>1. TablesOK /\ RequestsFit /\ Signed
  BY DEF SessionInv
<1>2. request[r] \in Working /\ request[r].step = "commit" /\ request[r] # Nothing /\ Fits(request[r])
  BY <1>1, WorkingAt DEF CommitCallback, Steps
<1>3. CASE ~Consumable(request[r].state, request[r].at)
  BY <1>3 DEF CommitCallback, tables
<1>4. CASE Consumable(request[r].state, request[r].at)
  <2>s. PICK s \in Sids \ Created : s = NextOf(Sids, Created)
    BY NextIsFree DEF CommitCallback
  <2>x. PICK x, at, st, answer : /\ x = request[r].sid /\ at = request[r].at /\ st = request[r].state
                                 /\ answer = request[r].answer
    OBVIOUS
  <2>1. st \in States /\ at \in Nat /\ answer \in Tiers /\ ~state[st].used
    BY <1>2, <1>4, <2>x DEF Fits, Working, Consumable, Usable, Issued
  <2>2. PICK n : n = NewSession(answer, at, at + AbsoluteLife, at, st, at)
    OBVIOUS
  <2>3. at + AbsoluteLife \in Nat
    BY <2>1, SessionAssumption DEF SessionConstants
  <2>4. n \in Rows /\ n.login = st
    BY <2>1, <2>2, <2>3, NewSessionRow
  <2>5. row' = [WithoutSession(x) EXCEPT ![s] = n] /\ (Answers(r, "set_session", s) \/ ExpiresState(r))
    BY <1>4, <2>s, <2>x, <2>2 DEF CommitCallback
  <2>6. Opened(s) /\ row'[s] = n
    BY <1>1, <2>4, <2>5, OpenedRow
  <2>7. \A t \in Created : row[t].login # n.login
    BY <1>1, <2>1, <2>4 DEF Signed
  <2> QED BY <2>5, <2>6, <2>7
<1> QED BY <1>3, <1>4

\* What a rotation opens takes the place of the session it revokes.
LEMMA RotationOpens ==
  ASSUME SessionInv, NEW r \in Requests, Rotate(r)
  PROVE  \/ row' = row
         \/ \E s \in Sids \ Created, x \in Created :
              /\ Opened(s) /\ row'[s].login = row[x].login
              /\ x = request[r].sid /\ row'[x].revoked
<1>1. TablesOK /\ RequestsFit /\ Signed
  BY DEF SessionInv
<1>2. request[r] \in Working /\ request[r].step = "rotate" /\ request[r] # Nothing /\ Fits(request[r])
  BY <1>1, WorkingAt DEF Rotate, Steps
<1>x. PICK x \in Created : x = request[r].sid
  BY <1>2 DEF Fits
<1>3. CASE ~Rotatable(x)
  BY <1>3, <1>x DEF Rotate
<1>4. CASE Rotatable(x)
  <2>s. PICK s \in Sids \ Created : s = NextOf(Sids, Created)
    BY NextIsFree DEF Rotate
  <2>1. row[x] \in Rows /\ request[r].at \in Nat /\ request[r].answer \in Tiers
    BY <1>1, <1>2 DEF Fits, Working, TablesOK, Created
  <2>2. PICK at \in Nat, answer \in Tiers, absolute \in Nat, oauth \in Nat, login \in States, since \in Nat :
          /\ at = request[r].at /\ answer = request[r].answer /\ absolute = row[x].absolute
          /\ oauth = row[x].oauth /\ login = row[x].login /\ since = row[x].since
    BY <2>1 DEF Rows
  <2>3. PICK n : n = NewSession(answer, at, absolute, oauth, login, since)
    OBVIOUS
  <2>4. n \in Rows /\ n.login = login
    BY <2>3, NewSessionRow
  <2>5. row' = [WithoutSession(x) EXCEPT ![s] = n]
    BY <1>4, <1>x, <2>s, <2>2, <2>3 DEF Rotate
  <2>6. Opened(s) /\ row'[s] = n /\ row'[x].revoked
    BY <1>1, <2>4, <2>5, OpenedRow
  <2> QED BY <1>x, <2>2, <2>4, <2>6
<1> QED BY <1>3, <1>4

\* The other steps open nothing.
LEMMA NothingOpens ==
  ASSUME SessionInv, [Next]_vars, \A r \in Requests : ~CommitCallback(r) /\ ~Rotate(r)
  PROVE  Created' = Created /\ \A t \in Created : row'[t].login = row[t].login
<1>1. TablesOK
  BY DEF SessionInv
<1>2. CASE row' = row
  BY <1>2 DEF Created
<1>3. ASSUME NEW r \in Requests, RevokeSession(r)
      PROVE  Created' = Created /\ \A t \in Created : row'[t].login = row[t].login
  <2>1. PICK x : x = request[r].sid
    OBVIOUS
  <2>2. row' = WithoutSession(x)
    BY <1>3, <2>1 DEF RevokeSession
  <2> QED BY <1>1, <2>2, WithoutSessionRows DEF Created
<1>4. ASSUME NEW r \in Requests, TouchSession(r), row' # row
      PROVE  Created' = Created /\ \A t \in Created : row'[t].login = row[t].login
  <2>1. request[r].sid \in Created
    BY <1>4, WorkingAt DEF TouchSession, Steps, SessionInv, Fits
  <2>2. PICK s \in Created : s = request[r].sid
    BY <2>1
  <2>3. s \in Sids /\ row[s] \in Rows /\ row[s] # Nothing /\ request[r].at \in Nat
    BY <1>1, <1>4, <2>2, WorkingAt DEF TablesOK, Created, TouchSession, Steps, SessionInv, Working
  <2>4. PICK idle \in Nat : idle = Earlier(request[r].at + IdleLife, row[s].absolute)
    <3>1. request[r].at + IdleLife \in Nat /\ row[s].absolute \in Nat
      BY <2>3, SessionAssumption DEF SessionConstants, Rows
    <3> QED BY <3>1 DEF Earlier
  <2>5. PICK n : n = [row[s] EXCEPT !.idle = idle]
    OBVIOUS
  <2>6. row' = [row EXCEPT ![s] = n]
    BY <1>1, <1>4, <2>2, <2>3, <2>4, <2>5 DEF TouchSession, TablesOK
  <2>7. n.login = row[s].login /\ n # Nothing
    BY <2>3, <2>5, NothingAssumption DEF Rows
  <2> QED BY <1>1, <2>3, <2>6, <2>7 DEF Created, TablesOK
<1>5. row' = row \/ \E r \in Requests : RevokeSession(r) \/ TouchSession(r)
  BY DEF Next, vars, tables, TimePasses, TierChanges, Login, Callback, CheckState, Identify,
    AsksToRead, AsksToChange, AsksToDecide, AsksToLeave, Asks, FindSession, AskBot, Verify, Act,
    Fails, Replies, Receives
<1> QED BY <1>2, <1>3, <1>4, <1>5

\* A step of a request leaves it, ends it, or has it go on with its cookie; a new one has the
\* browser's cookie, and only a sign-in sends one.
LEMMA CookiesOfRequest ==
  ASSUME SessionInv, NEW k \in Requests,
         \/ Login(k) \/ Callback(k) \/ CheckState(k) \/ Identify(k) \/ CommitCallback(k)
         \/ AsksToRead(k) \/ AsksToChange(k) \/ AsksToDecide(k) \/ AsksToLeave(k)
         \/ FindSession(k) \/ TouchSession(k) \/ RevokeSession(k)
         \/ AskBot(k) \/ Verify(k) \/ Rotate(k) \/ Act(k)
         \/ Fails(k) \/ Replies(k) \/ Receives(k),
         request'[k] # Nothing
  PROVE  /\ \/ request[k] # Nothing /\ request'[k].sid = request[k].sid
            \/ request'[k].sid \in {jar.session, Nothing}
         /\ request'[k].step = "set_session" => CommitCallback(k)
<1> DEFINE Cookie == \/ request[k] # Nothing /\ request'[k].sid = request[k].sid
                     \/ request'[k].sid \in {jar.session, Nothing}
           Sends == request'[k].step = "set_session"
<1>1. request \in [Requests -> Handling \cup {Nothing}] /\ RequestsFit
  BY DEF SessionInv, RequestsFit
<1>2. CASE Login(k)
  BY <1>1, <1>2 DEF Login, Answer
<1>3. CASE Callback(k)
  BY <1>1, <1>3 DEF Callback, Arrives, Handled, Answer
<1>4. ASSUME NEW kind, Asks(k, kind) PROVE Cookie /\ ~Sends
  BY <1>1, <1>4 DEF Asks, Arrives, Handled
<1>5. ASSUME NEW step \in Replying, NEW new, Answers(k, step, new), request[k] # Nothing
      PROVE  Cookie /\ request'[k].step = step
  BY <1>1, <1>5 DEF Answers, Answer
<1>6. ASSUME Ends(k) PROVE FALSE
  BY <1>1, <1>6 DEF Ends
<1>7. ASSUME request[k] \in Working, NEW step, Goes(k, step) PROVE Cookie /\ request'[k].step = step
  BY <1>1, <1>7, NothingAssumption DEF Goes, Working, Handling
<1>8. ASSUME NEW step \in Steps, At(k, step) PROVE request[k] \in Working /\ request[k] # Nothing
  BY <1>1, <1>8, WorkingAt
<1>9. CASE CheckState(k) \/ Identify(k)
  <2>1. request[k] \in Working /\ request[k] # Nothing
    BY <1>8, <1>9 DEF CheckState, Identify, Steps
  <2>2. CASE CheckState(k)
    BY <1>5, <1>7, <2>1, <2>2 DEF CheckState, ExpiresState, Replying
  <2>3. CASE Identify(k)
    <3>1. CASE ExpiresState(k)
      BY <1>5, <2>1, <3>1 DEF ExpiresState, Replying
    <3>2. CASE request' = [request EXCEPT ![k].step = "commit", ![k].answer = tier]
      BY <1>1, <2>1, <3>2 DEF Working
    <3> QED BY <2>3, <3>1, <3>2 DEF Identify
  <2> QED BY <1>9, <2>2, <2>3
<1>10. CASE CommitCallback(k)
  <2>1. request[k] \in Working /\ request[k] # Nothing
    BY <1>8, <1>10 DEF CommitCallback, Steps
  <2>2. \E step \in Replying : \E new : Answers(k, step, new)
    BY <1>10 DEF CommitCallback, ExpiresState, Replying
  <2> QED BY <1>5, <1>10, <2>1, <2>2
<1>11. CASE FindSession(k) \/ TouchSession(k) \/ AskBot(k) \/ Verify(k) \/ Rotate(k)
  <2>1. request[k] \in Working /\ request[k] # Nothing
    BY <1>8, <1>11 DEF FindSession, TouchSession, AskBot, Verify, Rotate, Steps
  <2>2. CASE FindSession(k)
    BY <1>1, <1>6, <2>1, <2>2 DEF FindSession, Working
  <2>3. CASE TouchSession(k)
    BY <1>1, <1>6, <2>1, <2>3 DEF TouchSession, Working
  <2>4. CASE AskBot(k)
    BY <1>1, <2>1, <2>4 DEF AskBot, Working
  <2>5. CASE Verify(k)
    <3>1. CASE \E step \in {"rotate", "act"} : Goes(k, step)
      BY <1>7, <2>1, <3>1
    <3>2. CASE request' = [request EXCEPT ![k].step = "act", ![k].answer = cache.tier, ![k].cached = TRUE]
      BY <1>1, <2>1, <3>2 DEF Working
    <3> QED BY <1>6, <2>5, <3>1, <3>2 DEF Verify
  <2>6. CASE Rotate(k)
    BY <1>1, <1>6, <2>1, <2>6 DEF Rotate, Working
  <2> QED BY <1>11, <2>2, <2>3, <2>4, <2>5, <2>6
<1>12. CASE RevokeSession(k) \/ Act(k)
  <2>1. request[k] # Nothing
    BY <1>12 DEF RevokeSession, Act, At
  <2>2. \E step \in {"clear_session", "reply"} : \E new : Answers(k, step, new)
    BY <1>6, <1>12 DEF RevokeSession, Act
  <2> QED BY <1>5, <2>1, <2>2 DEF Replying
<1>13. CASE Fails(k)
  BY <1>5, <1>6, <1>13 DEF Fails, ExpiresState, Replying
<1>14. CASE Replies(k) \/ Receives(k)
  BY <1>6, <1>14 DEF Replies, Receives
<1>15. CASE AsksToRead(k) \/ AsksToChange(k) \/ AsksToDecide(k) \/ AsksToLeave(k)
  BY <1>4, <1>15 DEF AsksToRead, AsksToChange, AsksToDecide, AsksToLeave
<1> QED BY <1>2, <1>3, <1>9, <1>10, <1>11, <1>12, <1>13, <1>14, <1>15

\* What is held was held before, or is sent by a sign-in.
LEMMA HeldComes ==
  ASSUME SessionInv, [Next]_vars, NEW h, IsHeld(h)', h # Nothing
  PROVE  IsHeld(h) \/ \E r \in Requests : /\ CommitCallback(r) /\ request'[r] # Nothing
                                          /\ request'[r].step = "set_session" /\ h = request'[r].new
<1> DEFINE Acts(k) == \/ Login(k) \/ Callback(k) \/ CheckState(k) \/ Identify(k) \/ CommitCallback(k)
                      \/ AsksToRead(k) \/ AsksToChange(k) \/ AsksToDecide(k) \/ AsksToLeave(k)
                      \/ FindSession(k) \/ TouchSession(k) \/ RevokeSession(k)
                      \/ AskBot(k) \/ Verify(k) \/ Rotate(k) \/ Act(k)
                      \/ Fails(k) \/ Replies(k) \/ Receives(k)
<1>1. request \in [Requests -> Handling \cup {Nothing}] /\ RequestsFit
  BY DEF SessionInv, RequestsFit
<1>2. CASE UNCHANGED <<jar, request>>
  BY <1>2 DEF IsHeld
<1>3. CASE TierChanges
  <2>1. jar' = jar
    BY <1>3 DEF TierChanges
  <2>2. ASSUME NEW r \in Requests, request'[r] # Nothing
        PROVE  /\ request[r] # Nothing /\ request'[r].sid = request[r].sid
               /\ request'[r].step = request[r].step /\ request'[r].new = request[r].new
    <3>1. request[r] # Nothing /\ request[r] \in Handling
      BY <1>1, <1>3, <2>2 DEF TierChanges, Free
    <3>2. CASE request[r].step \in Replying
      BY <1>3, <3>1, <3>2 DEF TierChanges, Free
    <3>3. CASE request[r].step \notin Replying
      <4>1. request[r] \in Working
        BY <3>1, <3>3 DEF Handling, Answering
      <4>2. request'[r] = [request[r] EXCEPT !.seen = @ \/ tier' = "administrator"]
        BY <1>3, <3>1, <3>3 DEF TierChanges, Free
      <4> QED BY <3>1, <4>1, <4>2 DEF Working
    <3> QED BY <3>2, <3>3
  <2> QED BY <2>1, <2>2 DEF IsHeld
<1>4. ASSUME NEW k \in Requests, Acts(k)
      PROVE  IsHeld(h) \/ \E r \in Requests : /\ CommitCallback(r) /\ request'[r] # Nothing
                                              /\ request'[r].step = "set_session" /\ h = request'[r].new
  <2>1. CASE h = jar'.session
    <3>1. CASE jar' = jar
      BY <2>1, <3>1 DEF IsHeld
    <3>2. CASE jar' # jar
      <4>1. Receives(k)
        BY <1>4, <3>2 DEF Login, Callback, CheckState, Identify, CommitCallback, AsksToRead,
          AsksToChange, AsksToDecide, AsksToLeave, Asks, FindSession, TouchSession, RevokeSession,
          AskBot, Verify, Rotate, Act, Fails, Replies
      <4>2. jar \in [session : Created \cup {Nothing}, state : Issued \cup {Nothing}]
        BY DEF SessionInv, TablesOK
      <4>3. \/ jar'.session = jar.session \/ jar'.session = Nothing
            \/ At(k, "set_session") /\ jar'.session = request[k].new
        BY <4>1, <4>2 DEF Receives
      <4> QED BY <2>1, <4>3 DEF IsHeld, At
    <3> QED BY <3>1, <3>2
  <2>2. ASSUME NEW r \in Requests, request'[r] # Nothing,
               h = request'[r].sid \/ (request'[r].step = "set_session" /\ h = request'[r].new)
        PROVE  IsHeld(h) \/ (CommitCallback(r) /\ request'[r].step = "set_session" /\ h = request'[r].new)
    <3>1. CASE r = k
      BY <1>4, <2>2, <3>1, CookiesOfRequest DEF IsHeld
    <3>2. CASE r # k
      <4>1. request'[r] = request[r]
        BY <1>4, <3>2, OthersWait
      <4> QED BY <2>2, <4>1 DEF IsHeld
    <3> QED BY <3>1, <3>2
  <2> QED BY <2>1, <2>2 DEF IsHeld
<1> QED BY <1>2, <1>3, <1>4 DEF Next, TimePasses, vars

\* Once superseded, a session stays so: a rotation opens a session in the place of one that
\* was alive, and so superseded by none.
LEMMA SupersededStays ==
  ASSUME SessionInv, [Next]_vars, NEW CONSTANT h, h \in Created, Superseded(h)
  PROVE  Superseded(h)'
<1>1. Keeps
  BY SessionNextInv
<1>2. ASSUME Created' = Created, \A t \in Created : row'[t].login = row[t].login
      PROVE  Superseded(h)'
  BY <1>1, <1>2 DEF Superseded, Keeps
<1>3. ASSUME NEW s \in Sids \ Created, Opened(s), row'[s].login # row[h].login PROVE Superseded(h)'
  BY <1>1, <1>3 DEF Superseded, Keeps, Opened
<1>4. ASSUME NEW s \in Sids \ Created, NEW x \in Created, Opened(s),
             row'[s].login = row[x].login, row'[x].revoked
      PROVE  Superseded(h)'
  <2>1. CASE h = x
    BY <1>4, <2>1 DEF Superseded
  <2>2. CASE h # x
    BY <1>1, <1>4, <2>2 DEF Superseded, Keeps, Opened
  <2> QED BY <2>1, <2>2
<1>5. CASE \E r \in Requests : CommitCallback(r)
  BY <1>2, <1>3, <1>5, SignInOpens DEF Created
<1>6. CASE \E r \in Requests : Rotate(r)
  BY <1>2, <1>4, <1>6, RotationOpens DEF Created
<1>7. CASE \A r \in Requests : ~CommitCallback(r) /\ ~Rotate(r)
  BY <1>2, <1>7, NothingOpens
<1> QED BY <1>5, <1>6, <1>7

\* Every step keeps it: the session that a sign-in sends is the only one of its state.
LEMMA UnheldStays ==
  ASSUME SessionInv, MovedSessionsAreUnheld, [Next]_vars
  PROVE  MovedSessionsAreUnheld'
<1> SUFFICES ASSUME NEW CONSTANT h, h \in Created', IsHeld(h)' PROVE Superseded(h)'
  BY DEF MovedSessionsAreUnheld
<1>1. h # Nothing
  BY SessionAssumption DEF SessionConstants, Created
<1>2. CASE IsHeld(h)
  <2>1. h \in Created
    BY <1>1, <1>2 DEF IsHeld, SessionInv, TablesOK, RequestsFit, Fits
  <2> QED BY <1>2, <2>1, SupersededStays DEF MovedSessionsAreUnheld
<1>3. ASSUME NEW r \in Requests, CommitCallback(r), request'[r] # Nothing,
             request'[r].step = "set_session", h = request'[r].new
      PROVE  Superseded(h)'
  <2>1. request \in [Requests -> Handling \cup {Nothing}]
    BY DEF SessionInv, RequestsFit
  <2>2. ~ExpiresState(r)
    BY <1>3, <2>1 DEF ExpiresState, Answers, Answer
  <2>3. PICK s \in Sids \ Created : /\ Opened(s) /\ \A t \in Created : row[t].login # row'[s].login
                                    /\ Answers(r, "set_session", s)
    BY <1>3, <2>2, SignInOpens
  <2>4. h = s
    BY <1>3, <2>1, <2>3 DEF Answers, Answer
  <2> QED BY <2>3, <2>4 DEF Superseded, Opened
<1> QED BY <1>1, <1>2, <1>3, HeldComes

\* A browser that a rotation has moved holds, and is sent, only a session that is over: the
\* live one of its sign-in, whose cookie the routes do not send, is with nobody.  What the
\* lost cookie costs is another sign-in.
THEOREM MovedSessionsNobodyHolds == Spec => []MovedSessionsAreUnheld
<1>1. Init => SessionInv /\ MovedSessionsAreUnheld
  BY SessionInitInv DEF Init, MovedSessionsAreUnheld, Created
<1>2. SessionInv /\ MovedSessionsAreUnheld /\ [Next]_vars => (SessionInv /\ MovedSessionsAreUnheld)'
  BY SessionNextInv, UnheldStays
<1> QED BY <1>1, <1>2, PTL DEF Spec
=============================================================================
