--------------------------- MODULE SingletonLease ---------------------------
(***************************************************************************)
(* The lease of the bot: a file that a process creates before it connects  *)
(* to Discord, and removes when it has disconnected.  Another process that *)
(* finds the file looks whether the process it names is alive, and removes *)
(* it if not.  Processes claim, stop and die at any time.                  *)
(***************************************************************************)
EXTENDS Naturals

CONSTANTS
  Processes,   \* pids; none is used twice
  None

VARIABLES
  file,        \* who created the file that is there, and whether it names them yet
  process      \* what each process does, and which attempt to claim it makes

leaseVars == <<file, process>>

LeaseInit ==
  /\ file = None
  /\ process = [p \in Processes |-> [step |-> "new", attempt |-> 0, read |-> None]]

At(p, step) == process[p].step = step
Goes(p, step) == process' = [process EXCEPT ![p].step = step]
Alive(p) == ~At(p, "new") /\ ~At(p, "gone")

-----------------------------------------------------------------------------
Start(p) ==
  /\ At(p, "new")
  /\ process' = [process EXCEPT ![p].step = "claim", ![p].attempt = 1]
  /\ UNCHANGED file

\* The file is created unless it exists.
CreateFile(p) ==
  /\ At(p, "claim")
  /\ IF file = None THEN file' = [creator |-> p, written |-> FALSE] /\ Goes(p, "write")
     ELSE Goes(p, "read") /\ UNCHANGED file

\* The owner is written to the file that was created, even if it was removed meanwhile.
WriteOwner(p) ==
  /\ At(p, "write") /\ Goes(p, "owner")
  /\ file' = IF file # None /\ file.creator = p THEN [file EXCEPT !.written = TRUE] ELSE file

\* isStale: a file that is gone again or does not name an owner yet is not stale ...
ReadFile(p) ==
  /\ At(p, "read")
  /\ IF file = None \/ ~file.written THEN Goes(p, "gone")
     ELSE process' = [process EXCEPT ![p].step = "judge", ![p].read = file.creator]
  /\ UNCHANGED file

\* ... and one that names an owner is if that process is dead.  (A claim that is refused
\* ends the process with code 73.)
JudgeOwner(p) ==
  /\ At(p, "judge")
  /\ Goes(p, IF Alive(process[p].read) THEN "gone" ELSE "unlink")
  /\ UNCHANGED file

\* Whatever is there by now is removed, and the claim made once more.
RemoveStale(p) ==
  /\ At(p, "unlink") /\ file' = None
  /\ process' = [process EXCEPT ![p].step = IF process[p].attempt = 1 THEN "claim" ELSE "gone",
                                ![p].attempt = @ + 1]

\* The owner has disconnected, or could not connect: the handle is closed, the file removed.
Release(p) ==
  /\ At(p, "owner") /\ Goes(p, "release")
  /\ UNCHANGED file

RemoveOwn(p) ==
  /\ At(p, "release") /\ Goes(p, "gone") /\ file' = None

\* A process dies, or the owner gives up to disconnect in time: the file stays.
Die(p) ==
  /\ Alive(p) /\ Goes(p, "gone")
  /\ UNCHANGED file

-----------------------------------------------------------------------------
LeaseNext == \E p \in Processes :
  \/ Start(p) \/ CreateFile(p) \/ WriteOwner(p) \/ ReadFile(p) \/ JudgeOwner(p)
  \/ RemoveStale(p) \/ Release(p) \/ RemoveOwn(p) \/ Die(p)

LeaseSpec == LeaseInit /\ [][LeaseNext]_leaseVars

-----------------------------------------------------------------------------
\* One process at a time holds the lease, whichever processes claim it together after its
\* owner has died.
OneOwner == \A p, q \in Processes : At(p, "owner") /\ At(q, "owner") => p = q
=============================================================================
