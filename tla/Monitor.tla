------------------------------- MODULE Monitor -------------------------------
(***************************************************************************)
(* The monitor of the host: a program that a timer starts every minute.  A *)
(* run observes the host, compares what it finds with the alert states that*)
(* the last run left in a file, posts the notifications that follow, one by*)
(* one, and replaces the file.  A run that fails or is stopped on the way  *)
(* leaves the file as it was, whatever it has posted.                      *)
(***************************************************************************)
EXTENDS Integers, Functions

CONSTANTS
  Alerts,         \* alert keys, in the order in which they are observed: a sequence
  ActivateAfter,  \* runs after which an alert fires, per key and severity
  RecoverAfter,   \* runs after which it is resolved, per key
  Reminder        \* time after which a critical alert is told again (six hours)

Keys == Range(Alerts)
Severities == {"ok", "warning", "critical"}

MonitorConstants ==
  /\ ActivateAfter \in [Keys -> [{"warning", "critical"} -> Nat \ {0}]]
  /\ RecoverAfter \in [Keys -> Nat \ {0}] /\ Reminder \in Nat \ {0}

VARIABLES
  alerts,   \* the file: severity, candidate, how often it was seen, time since the last notification
  run,      \* the run under way, or <<>>
  told,     \* what was last posted of each key, and
  silence   \* how long ago: history, not of the program

monitorVars == <<alerts, run, told, silence>>

Forever == Reminder

MonitorInit ==
  /\ alerts = [k \in Keys |-> [severity |-> "ok", candidate |-> "ok", count |-> 0, since |-> Forever]]
  /\ run = <<>> /\ told = [k \in Keys |-> "ok"] /\ silence = [k \in Keys |-> Forever]

-----------------------------------------------------------------------------
Later(n) == IF n < Forever THEN n + 1 ELSE n
Aged(states) == [k \in Keys |-> [states[k] EXCEPT !.since = Later(@)]]

\* Time passes between two runs.
Wait ==
  /\ run = <<>>
  /\ alerts' = Aged(alerts) /\ silence' = [k \in Keys |-> Later(silence[k])]
  /\ UNCHANGED <<run, told>>

-----------------------------------------------------------------------------
Threshold(k, severity) == IF severity = "ok" THEN RecoverAfter[k] ELSE ActivateAfter[k][severity]

\* How often the observed severity was seen in a row, while the alert has another one.
Count(prior, severity) ==
  CASE prior.severity = severity -> 0
    [] prior.severity # severity /\ prior.candidate = severity -> prior.count + 1
    [] OTHER -> 1

Changes(k, prior, severity) ==
  prior.severity # severity /\ Count(prior, severity) >= Threshold(k, severity)

Reminds(prior, severity) ==
  prior.severity = "critical" /\ severity = "critical" /\ prior.since >= Reminder

Notifies(k, severity) ==
  severity # "unseen" /\ (Changes(k, alerts[k], severity) \/ Reminds(alerts[k], severity))

\* applyObservations, for one key: one that is not observed stays as it is.
Applied(k, severity) ==
  LET prior == alerts[k]
  IN  IF severity = "unseen" THEN prior
      ELSE IF Changes(k, prior, severity)
      THEN [severity |-> severity, candidate |-> severity, count |-> 0, since |-> 0]
      ELSE [prior EXCEPT !.candidate = severity, !.count = Count(prior, severity),
                         !.since = IF Reminds(prior, severity) THEN 0 ELSE @]

\* observeHost: with an input or a configuration that is not valid, or without a health
\* URL, some keys are not observed.
Sightings == [Keys -> Severities \cup {"unseen"}]

\* readStates and evaluateMonitoring.
Observe ==
  /\ run = <<>>
  /\ \E saw \in Sightings :
       run' = <<[states |-> [k \in Keys |-> Applied(k, saw[k])], saw |-> saw,
                 post |-> {k \in Keys : Notifies(k, saw[k])}]>>
  /\ UNCHANGED <<alerts, told, silence>>

\* The notifications are posted in the order of the observations.
IsNext(k) ==
  /\ run # <<>> /\ k \in run[1].post
  /\ \E i \in DOMAIN Alerts : Alerts[i] = k /\ \A j \in 1..(i - 1) : Alerts[j] \notin run[1].post

Posted(k) == run' = <<[run[1] EXCEPT !.post = @ \ {k}]>>

\* Mutant: a notification that cannot be posted is left out.
Fails_PassedOver ==
  /\ \E k \in Keys : IsNext(k) /\ Posted(k)
  /\ UNCHANGED <<alerts, told, silence>>

\* A notification cannot be posted, or the program is stopped or cannot write its file:
\* the run is over.
Fails ==
  /\ run # <<>> /\ run' = <<>>
  /\ UNCHANGED <<alerts, told, silence>>

\* deliverNotification, which tries twice; its answer may be lost, which ends the run too.
Deliver(k) ==
  /\ IsNext(k) /\ (Posted(k) \/ run' = <<>>)
  /\ told' = [told EXCEPT ![k] = run[1].saw[k]] /\ silence' = [silence EXCEPT ![k] = 0]
  /\ UNCHANGED alerts

\* writeStates: a new file takes the place of the old one.
WriteStates ==
  /\ run # <<>> /\ run[1].post = {}
  /\ alerts' = run[1].states /\ run' = <<>>
  /\ UNCHANGED <<told, silence>>

MonitorNext == Wait \/ Observe \/ (\E k \in Keys : Deliver(k)) \/ Fails \/ WriteStates

MonitorSpec == MonitorInit /\ [][MonitorNext]_monitorVars

-----------------------------------------------------------------------------
\* The file has the last notification of a key.
Recorded(k) == alerts[k].severity = told[k] /\ alerts[k].since = silence[k]

\* A run records no severity before it was posted.  A run that saw something critical for
\* long enough ends with the alert told as critical, although earlier runs may have posted
\* a recovery and failed to record it; only within six hours of that post it may not be.
WrittenWasTold ==
  alerts' # alerts /\ run' # run =>
    \A k \in Keys : LET now == run[1].saw[k] IN
      /\ alerts'[k].severity # alerts[k].severity => told[k] = alerts'[k].severity
      /\ now = "critical" /\ alerts'[k].severity = "critical" =>
           told[k] = "critical" \/ silence[k] < Reminder

\* Nobody hears the same twice within six hours, unless the run that said it ended badly.
NothingToldTwice ==
  \A k \in Keys : Deliver(k) /\ told[k] = run[1].saw[k] => silence[k] >= Reminder \/ ~Recorded(k)

\* What the file says was told, and what is critical does not stay untold.
AlertsAreTold == [][WrittenWasTold /\ NothingToldTwice]_monitorVars
=============================================================================
