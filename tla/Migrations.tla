----------------------------- MODULE Migrations ------------------------------
(***************************************************************************)
(* The migration of the database, a program that a deployment runs.  For   *)
(* each migration of its release it looks whether the ledger has it, and if*)
(* not, applies it in a transaction of its own that waits for an advisory  *)
(* lock.  Programs of two deployments may run at once, and each may fail or*)
(* be stopped at every step.  A file of a release may differ from the one  *)
(* that was applied, in its line ends or in what it says.                  *)
(***************************************************************************)
EXTENDS Integers, Sequences, FiniteSets

CONSTANTS
  Migrators,      \* runs of the program
  Last,           \* the last version of every release
  Texts,          \* what a file may say
  LineEnds,       \* "lf" and "crlf": the line ends of a file
  Historical,     \* checksums of other texts that are accepted: [version, text, ledger]
  Nothing

MigrationConstants ==
  /\ Last \in Nat \ {0} /\ "lf" \in LineEnds
  /\ Nothing \notin Texts \X LineEnds /\ Nothing \notin Migrators
  /\ Nothing \notin [1..Last -> (Texts \X LineEnds) \cup {Nothing}]

VARIABLES
  schema,    \* the migrations that were run, in order, each with the release that it was of
  pristine,  \* nobody has altered the tables by hand
  ledger,    \* waw_schema_migration: a checksum per version, or Nothing before it is created
  holder,    \* of the advisory lock
  release,   \* the files of each migrator, an end and a text per version
  progress   \* of each migrator: its version and step

migrationVars == <<schema, pristine, ledger, holder, release, progress>>

Versions == 1..Last
Checksums == Texts \X LineEnds
Ran == {schema[i].version : i \in 1..Len(schema)}
Recorded(v) == ledger # Nothing /\ ledger[v] # Nothing

Run(v, text) == [version |-> v, files |-> [u \in Versions |-> <<text, "lf">>]]

\* A new database; or one of the time before the ledger, perhaps altered since; or one
\* whose ledger an earlier program began, with checksums of files as they were.
MigrationInit ==
  /\ release \in [Migrators -> [Versions -> Checksums]]
  /\ \/ schema = <<>> /\ pristine = TRUE /\ ledger = Nothing
     \/ \E t \in Texts : schema = <<Run(1, t)>> /\ pristine \in BOOLEAN /\ ledger = Nothing
     \/ \E t \in Texts, end \in LineEnds :
          /\ schema = <<Run(1, t)>> /\ pristine = TRUE
          /\ ledger = [v \in Versions |-> IF v = 1 THEN <<t, end>> ELSE Nothing]
  /\ holder = Nothing
  /\ progress = [m \in Migrators |-> [version |-> 1, step |-> "look"]]

-----------------------------------------------------------------------------
At(m, step) == progress[m].step = step
Goes(m, version, step) == progress' = [progress EXCEPT ![m] = [version |-> version, step |-> step]]
NextVersion(m) == IF progress[m].version = Last THEN Goes(m, Last, "done")
                  ELSE Goes(m, progress[m].version + 1, "look")

\* migrationChecksum: of the text with line feeds.
Checksum(file) == <<file[1], "lf">>

\* acceptedMigrationChecksums: with any line ends, or what production has of it.
Accepted(v, file) ==
  {<<file[1], end>> : end \in LineEnds} \cup {h.ledger : h \in {h \in Historical : h.version = v /\ h.text = file[1]}}

\* Mutant: what has been applied is not compared.
LookUp_Unchecked(m) ==
  /\ At(m, "look")
  /\ IF Recorded(progress[m].version) THEN NextVersion(m) ELSE Goes(m, progress[m].version, "lock")
  /\ UNCHANGED <<schema, pristine, ledger, holder, release>>

\* applyPendingMigrations: is the version there, and is it the same?
LookUp(m) ==
  LET v == progress[m].version
  IN  /\ At(m, "look")
      /\ IF ~Recorded(v) THEN Goes(m, v, "lock")
         ELSE IF ledger[v] \in Accepted(v, release[m][v]) THEN NextVersion(m)
         ELSE Goes(m, v, "stopped")
      /\ UNCHANGED <<schema, pristine, ledger, holder, release>>

\* pg_advisory_xact_lock
Lock(m) ==
  /\ At(m, "lock") /\ holder = Nothing
  /\ holder' = m /\ Goes(m, progress[m].version, "apply")
  /\ UNCHANGED <<schema, pristine, ledger, release>>

\* isExactLegacyVersionOne
Legacy(v) == v = 1 /\ ledger = Nothing /\ Ran = {1} /\ pristine

\* applyMigration up to its commit: version one is adopted as it is, a version that is
\* recorded by now ends the program, and statements that were run before fail.
Apply(m) ==
  LET v == progress[m].version
  IN  /\ At(m, "apply")
      /\ IF Legacy(v) THEN Goes(m, v, "adopt") /\ UNCHANGED holder
         ELSE IF Recorded(v) \/ v \in Ran THEN Goes(m, v, "stopped") /\ holder' = Nothing
         ELSE Goes(m, v, "commit") /\ UNCHANGED holder
      /\ UNCHANGED <<schema, pristine, ledger, release>>

WithRow(m) ==
  LET v == progress[m].version
      rows == IF ledger = Nothing THEN [u \in Versions |-> Nothing] ELSE ledger
  IN  [rows EXCEPT ![v] = Checksum(release[m][v])]

\* The statements of the file and the row of the ledger are there at once, or the row alone.
Committed(m) ==
  /\ ledger' = WithRow(m)
  /\ schema' = IF At(m, "adopt") THEN schema
               ELSE Append(schema, [version |-> progress[m].version, files |-> release[m]])

Commit(m) ==
  /\ At(m, "commit") \/ At(m, "adopt")
  /\ Committed(m) /\ holder' = Nothing /\ NextVersion(m)
  /\ UNCHANGED <<pristine, release>>

\* A statement fails or the program is stopped: the transaction and its lock are gone,
\* or committed although nobody is told.
Fail(m) ==
  /\ progress[m].step \notin {"done", "stopped"}
  /\ Goes(m, progress[m].version, "stopped")
  /\ holder' = IF holder = m THEN Nothing ELSE holder
  /\ \/ UNCHANGED <<schema, ledger>>
     \/ (At(m, "commit") \/ At(m, "adopt")) /\ Committed(m)
  /\ UNCHANGED <<pristine, release>>

\* A deployment starts the program again, with the files of its release.
Again(m) ==
  /\ At(m, "stopped") /\ Goes(m, 1, "look")
  /\ UNCHANGED <<schema, pristine, ledger, holder, release>>

MigrationNext ==
  \E m \in Migrators : LookUp(m) \/ Lock(m) \/ Apply(m) \/ Commit(m) \/ Fail(m) \/ Again(m)

MigrationSpec == MigrationInit /\ [][MigrationNext]_migrationVars

-----------------------------------------------------------------------------
\* The tables are what the files say: the migrations were run in the order of their
\* versions, each once; the ledger has those that were run and no others; and whoever ran
\* one had the same files for all before it, line ends and known history aside.
MigrationsApplyOnce ==
  /\ \A i \in 1..Len(schema) : schema[i].version = i
  /\ ledger # Nothing => Ran = {v \in Versions : Recorded(v)}
  /\ ledger # Nothing => \A i \in 1..Len(schema) : \A v \in 1..(i - 1) :
       ledger[v] \in Accepted(v, schema[i].files[v])
=============================================================================
