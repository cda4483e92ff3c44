---------------------------- MODULE DashboardPage ----------------------------
(***************************************************************************)
(* An administrator's page of the dashboard.  It shows what it has loaded: *)
(* pending requests, links, the setting, accounts and incidents, each with *)
(* the version it had.  A click marks what it is about as being processed, *)
(* calls the server under that version, says what came of it, loads some of*)
(* the lists again and takes the mark away.  Several clicks are under way  *)
(* at once, any call may fail, and others change the same things.  What the*)
(* server does with a change is the pipeline of AdminCommands.             *)
(***************************************************************************)
EXTENDS Integers, FiniteSets

CONSTANTS
  Requests, Links, Accounts, Incidents, Setting,  \* what may be changed
  Korean,      \* requests for an account on the platform that can be approved
  Clicks,      \* bound: clicks that start something, an interval from 1
  MaxOthers,   \* bound: changes that others make
  MaxMounts,   \* bound: how often the page is built
  None

Things == Requests \cup Links \cup Accounts \cup Incidents \cup {Setting}

PageConstants ==
  /\ Korean \subseteq Requests /\ IsFiniteSet(Clicks) /\ Clicks = 1..Cardinality(Clicks)
  /\ MaxOthers \in Nat /\ MaxMounts \in Nat

VARIABLES
  version,   \* the server: the version of each thing, 0 when it is gone
  others,    \* changes that others made
  effects,   \* what each click changed: history
  view,      \* ViewState of the page
  mount,     \* how often it was built
  seen,      \* the version of each thing that is shown, or 0
  marked,    \* what is being processed
  games,     \* GameViewState
  opened,    \* the incident whose form is open, with the version that it had, or None
  clicks,    \* the handlers: idle, under way or over
  message    \* what the page says was done, and was not

pageVars == <<version, others, effects, view, mount, seen, marked, games, opened, clicks, message>>
server == <<version, others, effects>>
frame == <<view, mount>>

Idle == [step |-> "idle"]

PageInit ==
  /\ version = [k \in Things |-> 1] /\ others = 0 /\ effects = {}
  /\ view = "loading" /\ mount = 1 /\ seen = [k \in Things |-> 0]
  /\ marked = {} /\ games = "idle" /\ opened = None
  /\ clicks = [c \in Clicks |-> Idle] /\ message = None

Changed(k) == [version EXCEPT ![k] = IF k \in Requests \cup Links THEN 0 ELSE @ + 1]

\* Other administrators, members and the bot.
Other(k) ==
  /\ others < MaxOthers /\ version[k] # 0
  /\ others' = others + 1 /\ version' = Changed(k)
  /\ UNCHANGED <<effects, frame, seen, marked, games, opened, clicks, message>>

-----------------------------------------------------------------------------
\* loadDashboard for an administrator: all of it, or a view that shows nothing.
LoadDashboard ==
  /\ view = "loading"
  /\ \/ view' \in {"login", "denied", "unavailable"} /\ seen' = [k \in Things |-> 0]
     \/ view' = "ready" /\ seen' = [k \in Things |-> IF k \in Incidents THEN 0 ELSE version[k]]
  /\ marked' = {} /\ games' = "idle" /\ opened' = None /\ message' = None
  /\ UNCHANGED <<server, mount, clicks>>

\* Another try, or a logout: the page is built anew, and earlier handlers go on without it.
Remount ==
  /\ view \in {"unavailable", "ready"} /\ mount < MaxMounts
  /\ view' = "loading" /\ mount' = mount + 1
  /\ UNCHANGED <<server, seen, marked, games, opened, clicks, message>>

At(c, step) == clicks[c].step = step
Here(c) == view = "ready" /\ clicks[c].mount = mount

\* A handler begins: with what is shown now, whatever is shown later.
Starts(c, what, things) ==
  /\ view = "ready" /\ At(c, "idle") /\ \A b \in Clicks : b < c => ~At(b, "idle")
  /\ things \cap marked = {}
  /\ clicks' = [clicks EXCEPT ![c] =
       [what |-> what, todo |-> things, done |-> {}, mount |-> mount,
        shown |-> IF what = "mutate" THEN [seen EXCEPT ![opened.incident] = opened.version] ELSE seen,
        step |-> IF things = {} THEN "reload" ELSE "call", answer |-> "done", at |-> None,
        got |-> <<>>, read |-> FALSE]]
  /\ marked' = marked \cup things
  /\ UNCHANGED <<server, frame, seen, opened>>

Decide(c, k, decision) ==
  /\ k \in Requests /\ seen[k] # 0 /\ (decision = "approve" => k \in Korean)
  /\ Starts(c, decision, {k}) /\ message' = None /\ UNCHANGED games

DecideAll(c, decision) ==
  LET all == {k \in Requests : seen[k] # 0 /\ (decision = "reject all" \/ k \in Korean)}
  IN  /\ all # {} /\ marked \cap Requests = {}
      /\ Starts(c, decision, all) /\ message' = None /\ UNCHANGED games

RemoveLink(c, k) ==
  /\ k \in Links /\ seen[k] # 0 /\ Starts(c, "remove", {k}) /\ UNCHANGED <<games, message>>

Adjust(c, k) ==
  /\ k \in Accounts /\ seen[k] # 0 /\ marked \cap Accounts = {}
  /\ Starts(c, "adjust", {k}) /\ message' = None /\ UNCHANGED games

Save(c) ==
  /\ Starts(c, "save", {Setting}) /\ message' = None /\ UNCHANGED games

OpenIncident(k) ==
  /\ view = "ready" /\ k \in Incidents /\ games = "ready" /\ seen[k] # 0
  /\ opened' = [incident |-> k, version |-> seen[k]]
  /\ UNCHANGED <<server, frame, seen, marked, games, clicks, message>>

CloseIncident ==
  /\ view = "ready" /\ games = "ready" /\ opened # None /\ opened.incident \notin marked
  /\ opened' = None
  /\ UNCHANGED <<server, frame, seen, marked, games, clicks, message>>

\* The form keeps the version with which it was opened.
MutateIncident(c) ==
  /\ games = "ready" /\ opened # None /\ Starts(c, "mutate", {opened.incident})
  /\ message' = None /\ UNCHANGED games

\* The tab is opened, filters are applied, or a page is turned.
LoadGames(c) ==
  /\ Starts(c, "games", {}) /\ games' = "loading" /\ UNCHANGED message

-----------------------------------------------------------------------------
Remaining(c) == clicks[c].todo \ clicks[c].done

Answered(c, k, answer) ==
  clicks' = [clicks EXCEPT ![c] = [@ EXCEPT !.step = "handle", !.answer = answer, !.at = k]]

\* The server decides on the next thing; an answer that does not come is a failure.
Serve(c) ==
  /\ At(c, "call")
  /\ \E k \in Remaining(c) :
       \/ /\ version[k] = clicks[c].shown[k]
          /\ version' = Changed(k) /\ effects' = effects \cup {<<c, k>>}
          /\ Answered(c, k, "done") \/ Answered(c, k, "failed")
       \/ /\ version[k] # clicks[c].shown[k] /\ UNCHANGED <<version, effects>>
          /\ Answered(c, k, "conflict")
       \/ UNCHANGED <<version, effects>> /\ Answered(c, k, "failed")
  /\ UNCHANGED <<others, frame, seen, marked, games, opened, message>>

\* Mutant: what a failed call was about stays marked when several were to be decided.
Frees_Done(click) == IF click.what \in {"approve all", "reject all"} THEN click.done ELSE click.todo

\* Deciding all takes every mark of a request away, also those of other clicks.
Frees(click) == IF click.what \in {"approve all", "reject all"} THEN Requests ELSE click.todo

\* The lists that are loaded again, ...
Audit == {}   \* the log, which has none of these things

Lists(click) ==
  CASE click.what = "approve" -> IF click.answer = "done" THEN {Requests, Links} ELSE {Requests}
    [] click.what = "approve all" -> {Requests, Links}
    [] click.what \in {"reject", "reject all"} -> {Requests}
    [] click.what = "adjust" -> {Accounts}
    [] click.what \in {"mutate", "games"} -> {Incidents}
    [] click.what = "save" /\ click.answer = "done" -> {Audit}
    [] OTHER -> {}

\* ... what is shown afterwards, of which the links are not loaded when all are rejected, ...
Shown(click) == UNION Lists(click) \cup IF click.what = "reject all" THEN Links ELSE {}

\* ... and what is shown of what could not be loaded.
Fallback(click, k) ==
  CASE click.what = "reject" /\ click.answer = "done" -> 0
    [] click.what = "adjust" -> seen[k]
    [] click.what \in {"mutate", "games"} -> 0
    [] OTHER -> click.shown[k]

Says(c, click, said) ==
  [click |-> c, changed |-> said, refused |-> IF click.answer = "conflict" THEN {click.at} ELSE {}]

Ends(c) == clicks' = [clicks EXCEPT ![c] = [step |-> "over"]]

\* The answer: the next one of all, or the message, and what it changes on the page at once.
Handle(c) ==
  LET click == clicks[c]
      done == IF click.answer = "done" THEN click.done \cup {click.at} ELSE click.done
      more == click.answer = "done" /\ done # click.todo
      reload == ~more /\ Lists(click) # {}
  IN  /\ At(c, "handle")
      /\ IF more \/ reload
         THEN clicks' = [clicks EXCEPT ![c] =
                [@ EXCEPT !.step = IF more THEN "call" ELSE "reload", !.done = done]]
         ELSE Ends(c)
      /\ IF more \/ ~Here(c) THEN UNCHANGED <<seen, marked, games, opened, message>>
         ELSE /\ message' = IF click.what = "save" /\ reload THEN message ELSE Says(c, click, done)
              /\ seen' = [k \in Things |->
                   IF k \in done \cap Links THEN 0
                   ELSE IF k \in done \cap (Accounts \cup {Setting}) THEN click.shown[k] + 1
                   ELSE seen[k]]
              /\ marked' = IF reload THEN marked ELSE marked \ Frees(click)
              /\ games' = IF click.what = "mutate" THEN "loading" ELSE games
              /\ opened' = IF click.what = "mutate" /\ click.answer = "done" THEN None ELSE opened
      /\ UNCHANGED <<server, frame>>

\* What came of loading the lists is apart from what came of the call.
Loaded(c, got, read) ==
  clicks' = [clicks EXCEPT ![c] = [@ EXCEPT !.step = "show", !.got = got, !.read = read]]

\* Each list is read, or is not.
Reload(c) ==
  /\ At(c, "reload")
  /\ LET click == clicks[c] IN
     \E failed \in SUBSET Lists(click) :
       Loaded(c, [k \in Shown(click) |->
                    IF k \in UNION (Lists(click) \ failed) THEN version[k] ELSE Fallback(click, k)],
                 failed = {})
  /\ UNCHANGED <<server, frame, seen, marked, games, opened, message>>

\* ... and shown.  Incidents that were read are there for the next try even when the call failed;
\* a setting is said to be saved when the audit log was read after it.
Show(c) ==
  LET click == clicks[c]
  IN  /\ At(c, "show") /\ Ends(c)
      /\ IF ~Here(c) THEN UNCHANGED <<seen, marked, games, message>>
         ELSE /\ seen' = [k \in Things |-> IF k \in Shown(click) THEN click.got[k] ELSE seen[k]]
              /\ marked' = marked \ Frees(click)
              /\ games' = IF click.what \notin {"mutate", "games"} THEN games
                          ELSE IF click.read THEN "ready" ELSE "error"
              /\ message' = IF click.what # "save" THEN message
                            ELSE Says(c, click, IF click.read THEN {Setting} ELSE {})
      /\ UNCHANGED <<server, frame, opened>>

-----------------------------------------------------------------------------
PageNext ==
  \/ LoadDashboard \/ Remount \/ CloseIncident \/ (\E k \in Things : Other(k) \/ OpenIncident(k))
  \/ \E c \in Clicks :
       \/ \E k \in Things : (\E d \in {"approve", "reject"} : Decide(c, k, d))
                            \/ RemoveLink(c, k) \/ Adjust(c, k)
       \/ \E d \in {"approve all", "reject all"} : DecideAll(c, d)
       \/ Save(c) \/ MutateIncident(c) \/ LoadGames(c)
       \/ Serve(c) \/ Handle(c) \/ Reload(c) \/ Show(c)

PageSpec == PageInit /\ [][PageNext]_pageVars

\* What the page says was changed was changed by that click, and what it says was refused
\* was not; and when nothing is under way any more nothing is marked as being processed or
\* loading, whichever calls failed and whichever clicks ended in between.
PageIsHonest ==
  /\ message # None =>
       /\ \A k \in message.changed : <<message.click, k>> \in effects
       /\ \A k \in message.refused : <<message.click, k>> \notin effects
  /\ (view = "ready" /\ \A c \in Clicks : At(c, "idle") \/ At(c, "over") \/ clicks[c].mount # mount) =>
       marked = {} /\ games # "loading"
=============================================================================
