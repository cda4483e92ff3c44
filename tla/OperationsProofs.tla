-------------------------- MODULE OperationsProofs --------------------------
(***************************************************************************)
(* Three of the modules of run "sessions" and SingletonLease, each for any *)
(* instance.                                                               *)
(* Migrations: MigrationsApplyOnce, for any number of migrators and        *)
(* versions, any files and any history of accepted checksums; a migrator   *)
(* has seen the versions before its own in the ledger, and nobody but the  *)
(* holder of the lock applies one.  DashboardPage: PageIsHonest, for any   *)
(* number of handlers; each knows what it has changed while it may call    *)
(* again, and whatever is marked is marked by one under way.  Monitor:     *)
(* AlertsAreTold; a run holds what follows from the file, and the file     *)
(* knows of no notification that was not posted.  SingletonLease: each     *)
(* removal of a stale file makes one owner of the lease too many at most.  *)
(***************************************************************************)
EXTENDS MCSessions, FiniteSets, FiniteSetTheorems, TLAPS

CONSTANT Claimants     \* the processes that claim the lease

MigratorSteps == {"look", "lock", "apply", "adopt", "commit", "done", "stopped"}

MigrationTypeOK ==
  /\ release \in [Migrators -> [Database!Versions -> Database!Checksums]]
  /\ progress \in [Migrators -> [version : Database!Versions, step : MigratorSteps]]
  /\ schema \in Seq([version : Database!Versions, files : [Database!Versions -> Database!Checksums]])
  /\ ledger # Nothing => ledger \in [Database!Versions -> Database!Checksums \cup {Nothing}]
  /\ holder \in Migrators \cup {Nothing}

\* The tables: MigrationsApplyOnce, and a database without a ledger has version one at most.
Tables ==
  /\ Database!MigrationsApplyOnce
  /\ ledger = Nothing => Len(schema) <= 1

\* Whoever applies a migration holds the lock, and what it has found still holds.
Applies(m) ==
  /\ progress[m].step \in {"apply", "adopt", "commit"} => holder = m
  /\ Database!At(m, "adopt") => progress[m].version = 1 /\ ledger = Nothing /\ Database!Ran = {1}
  /\ Database!At(m, "commit") => ~Database!Recorded(progress[m].version) /\ progress[m].version \notin Database!Ran

\* A migrator has seen, or recorded, every version before its own.
Knows(m) ==
  \A v \in 1..(progress[m].version - 1) : Database!Recorded(v) /\ ledger[v] \in Database!Accepted(v, release[m][v])

MigrationInv ==
  /\ MigrationTypeOK /\ Tables
  /\ \A m \in Migrators : Applies(m) /\ Knows(m)

-----------------------------------------------------------------------------
\* Adding the checksum of a file to the ledger is accepted for that file.
LEMMA ChecksumAccepted ==
  ASSUME Database!MigrationConstants, NEW v, NEW file
  PROVE  Database!Checksum(file) \in Database!Accepted(v, file)
  BY DEF Database!MigrationConstants, Database!Checksum, Database!Accepted

\* The versions that were run are the positions of the schema.
LEMMA RanIsInterval ==
  ASSUME MigrationTypeOK, Tables
  PROVE  Database!Ran = 1..Len(schema)
  BY DEF MigrationTypeOK, Tables, Database!MigrationsApplyOnce, Database!Ran

\* The first migrators find a database as MigrationInit describes it.
LEMMA MigrationInitInv == Database!MigrationConstants /\ Database!MigrationInit => MigrationInv
<1> SUFFICES ASSUME Database!MigrationConstants, Database!MigrationInit PROVE MigrationInv
  OBVIOUS
<1> USE DEF Database!MigrationConstants
<1>0. 1 \in Database!Versions
  BY DEF Database!Versions
<1>1. \A t \in Texts : Database!Run(1, t) \in [version : Database!Versions, files : [Database!Versions -> Database!Checksums]]
  BY <1>0 DEF Database!Run, Database!Checksums
<1>2. schema = <<>> \/ \E t \in Texts : schema = <<Database!Run(1, t)>>
  BY DEF Database!MigrationInit
<1>3. /\ schema \in Seq([version : Database!Versions, files : [Database!Versions -> Database!Checksums]])
      /\ Len(schema) <= 1 /\ \A i \in 1..Len(schema) : schema[i].version = i
  <2>1. CASE schema = <<>>
    BY <2>1
  <2>2. ASSUME NEW t \in Texts, schema = <<Database!Run(1, t)>>
        PROVE  <1>3!:
    <3> DEFINE first == Database!Run(1, t)
    <3>1. first \in [version : Database!Versions, files : [Database!Versions -> Database!Checksums]] /\ first.version = 1
      BY <1>1 DEF Database!Run
    <3>2. schema = <<first>>
      BY <2>2
    <3> HIDE DEF first
    <3>3. Len(schema) = 1 /\ schema[1] = first
      BY <3>2
    <3> QED BY <3>1, <3>2, <3>3
  <2> QED BY <1>2, <2>1, <2>2
<1>4. MigrationTypeOK
  <2>1. ledger # Nothing => ledger \in [Database!Versions -> Database!Checksums \cup {Nothing}]
    BY DEF Database!MigrationInit, Database!Checksums
  <2> QED BY <1>0, <1>3, <2>1 DEF Database!MigrationInit, MigrationTypeOK, MigratorSteps
<1>6. ledger # Nothing => Database!Ran = {v \in Database!Versions : Database!Recorded(v)}
  <2> SUFFICES ASSUME ledger # Nothing PROVE Database!Ran = {v \in Database!Versions : Database!Recorded(v)}
    OBVIOUS
  <2>1. PICK t \in Texts, end \in LineEnds :
          schema = <<Database!Run(1, t)>> /\ ledger = [v \in Database!Versions |-> IF v = 1 THEN <<t, end>> ELSE Nothing]
    BY DEF Database!MigrationInit
  <2>2. Database!Ran = {1}
    BY <2>1 DEF Database!Ran, Database!Run
  <2>3. <<t, end>> # Nothing
    BY <2>1
  <2>4. {v \in Database!Versions : Database!Recorded(v)} = {1}
    BY <2>1, <2>3, <1>0 DEF Database!Recorded
  <2> QED BY <2>2, <2>4
<1>9. \A i \in 1..Len(schema) : \A v \in 1..(i - 1) : FALSE
  BY <1>3
<1>7. Tables
  BY <1>3, <1>6, <1>9 DEF Tables, Database!MigrationsApplyOnce
<1>8. \A m \in Migrators : Applies(m) /\ Knows(m)
  BY DEF Database!MigrationInit, Applies, Knows, Database!At
<1> QED BY <1>4, <1>7, <1>8 DEF MigrationInv

-----------------------------------------------------------------------------
\* A step that leaves the tables, the files and the lock alone, and one migrator where it
\* applies nothing and knows the versions before its own.
LEMMA QuietStep ==
  ASSUME Database!MigrationConstants, MigrationInv, NEW m \in Migrators,
         UNCHANGED <<schema, ledger, release>>,
         NEW v \in Database!Versions, NEW step \in MigratorSteps, Database!Goes(m, v, step),
         holder' \in Migrators \cup {Nothing},
         \A k \in Migrators \ {m} : holder = k => holder' = k,
         \A u \in 1..(v - 1) : Database!Recorded(u) /\ ledger[u] \in Database!Accepted(u, release[m][u]),
         step \in {"apply", "adopt", "commit"} => holder' = m,
         step = "adopt" => v = 1 /\ ledger = Nothing /\ Database!Ran = {1},
         step = "commit" => ~Database!Recorded(v) /\ v \notin Database!Ran
  PROVE  MigrationInv'
<1>0. Database!Ran' = Database!Ran /\ ledger' = ledger
  BY DEF Database!Ran
<1>1. MigrationTypeOK'
  BY DEF MigrationInv, MigrationTypeOK, Database!Goes
<1>2. Tables'
  BY DEF MigrationInv, Tables, Database!MigrationsApplyOnce, Database!Ran, Database!Recorded, Database!Accepted
<1>3. progress'[m] = [version |-> v, step |-> step]
      /\ \A k \in Migrators \ {m} : progress'[k] = progress[k]
  BY DEF MigrationInv, MigrationTypeOK, Database!Goes
<1>4. Applies(m)' /\ Knows(m)'
  <2>1. Applies(m)'
    <3>1. progress'[m].version = v /\ progress'[m].step = step
      BY <1>3
    <3>2. Database!Recorded(progress[m].version)' = Database!Recorded(v)
      BY <3>1 DEF Database!Recorded
    <3> QED BY <3>1, <3>2, <1>0 DEF Applies, Database!At
  <2>2. Knows(m)'
    BY <1>3 DEF Knows, Database!Recorded, Database!Accepted
  <2> QED BY <2>1, <2>2
<1>5. ASSUME NEW k \in Migrators \ {m} PROVE Applies(k)' /\ Knows(k)'
  <2>1. Applies(k) /\ Knows(k)
    BY DEF MigrationInv
  <2>2. Applies(k)'
    <3>1. progress'[k] = progress[k]
      BY <1>3
    <3>2. Database!Recorded(progress[k].version)' = Database!Recorded(progress[k].version)
      BY <3>1 DEF Database!Recorded
    <3> QED BY <2>1, <3>1, <3>2, <1>0 DEF Applies, Database!At
  <2>3. Knows(k)'
    BY <1>3, <2>1 DEF Knows, Database!Recorded, Database!Accepted
  <2> QED BY <2>2, <2>3
<1> QED BY <1>1, <1>2, <1>4, <1>5 DEF MigrationInv

\* What a commit does to the tables: the statements of a file are appended as the next
\* version, or version one is adopted, and the ledger gets the row.
LEMMA CommittedStep ==
  ASSUME Database!MigrationConstants, MigrationInv, NEW m \in Migrators,
         Database!At(m, "commit") \/ Database!At(m, "adopt"), Database!Committed(m), UNCHANGED release,
         NEW w \in Database!Versions, NEW step \in {"look", "done", "stopped"}, Database!Goes(m, w, step),
         w \in 1..(progress[m].version + 1), holder' = Nothing
  PROVE  MigrationInv'
<1>v. PICK v \in Database!Versions : v = progress[m].version
  BY DEF MigrationInv, MigrationTypeOK
<1>f. PICK file : file = release[m]
  OBVIOUS
<1>0. /\ v \in Database!Versions /\ file \in [Database!Versions -> Database!Checksums] /\ Last \in Nat
      /\ MigrationTypeOK /\ Tables /\ Applies(m) /\ Knows(m) /\ holder = m
  BY <1>f DEF MigrationInv, MigrationTypeOK, Applies, Database!MigrationConstants, Database!At
<1> DEFINE rows == IF ledger = Nothing THEN [u \in Database!Versions |-> Nothing] ELSE ledger
<1>1. rows \in [Database!Versions -> Database!Checksums \cup {Nothing}]
  BY <1>0 DEF MigrationTypeOK
<1>2. ledger' = [rows EXCEPT ![v] = Database!Checksum(file[v])]
  BY <1>v, <1>f DEF Database!Committed, Database!WithRow
<1>3. Database!Checksum(file[v]) \in Database!Checksums /\ Database!Checksum(file[v]) # Nothing
  <2>1. file[v] \in Texts \X LineEnds
    BY <1>0 DEF Database!Checksums
  <2>2. Database!Checksum(file[v]) \in Texts \X LineEnds
    BY <2>1 DEF Database!Checksum, Database!MigrationConstants
  <2> QED BY <2>2 DEF Database!MigrationConstants, Database!Checksums
<1>4. /\ ledger' \in [Database!Versions -> Database!Checksums \cup {Nothing}] /\ ledger'[v] = Database!Checksum(file[v])
      /\ \A u \in Database!Versions \ {v} : ledger'[u] = rows[u]
  BY <1>0, <1>1, <1>2, <1>3
<1>5. ledger' # Nothing
  BY <1>4 DEF Database!MigrationConstants, Database!Versions, Database!Checksums
<1>6. Database!Recorded(v)' /\ \A u \in Database!Versions \ {v} : Database!Recorded(u)' = Database!Recorded(u)
  BY <1>3, <1>4, <1>5 DEF Database!Recorded
<1>7. \A u \in Database!Versions : Database!Recorded(u) => u # v /\ ledger'[u] = ledger[u]
  <2>1. ~Database!Recorded(v)
    BY <1>0, <1>v DEF Applies, Database!At, Database!Recorded
  <2> QED BY <1>4, <2>1 DEF Database!Recorded
<1>8. \A u \in 1..(v - 1) : u \in Database!Versions /\ Database!Recorded(u) /\ ledger[u] \in Database!Accepted(u, file[u])
  BY <1>0, <1>v, <1>f DEF Knows, Database!Versions
<1>9. Database!Ran = 1..Len(schema) /\ Len(schema) \in Nat
  BY <1>0, RanIsInterval DEF MigrationTypeOK
<1> DEFINE Schemas == Seq([version : Database!Versions, files : [Database!Versions -> Database!Checksums]])
<1>10. ASSUME Database!At(m, "adopt") PROVE schema' \in Schemas /\ Tables'
  <2>1. schema' = schema /\ v = 1 /\ ledger = Nothing /\ Database!Ran = {1}
    BY <1>0, <1>10, <1>v DEF Database!Committed, Applies
  <2>2. Len(schema) = 1
    <3>1. 1 \in 1..Len(schema) /\ (Len(schema) \in 1..Len(schema) => Len(schema) = 1)
      BY <2>1, <1>9
    <3> QED BY <3>1, <1>9
  <2>3. {u \in Database!Versions : Database!Recorded(u)'} = {1}
    <3>1. \A u \in Database!Versions : ~Database!Recorded(u)
      BY <2>1 DEF Database!Recorded
    <3>2. \A u \in Database!Versions : Database!Recorded(u)' <=> u = 1
      BY <3>1, <2>1, <1>6
    <3> QED BY <3>2, <2>1, <1>0
  <2>4. Database!Ran' = {1}
    BY <2>1 DEF Database!Ran
  <2>5. Tables'
    BY <1>0, <1>5, <2>1, <2>2, <2>3, <2>4 DEF Tables, Database!MigrationsApplyOnce
  <2> QED BY <2>1, <2>5, <1>0 DEF MigrationTypeOK
<1>11. ASSUME Database!At(m, "commit") PROVE schema' \in Schemas /\ Tables'
  <2> DEFINE new == [version |-> v, files |-> file]
  <2>1. schema' = Append(schema, new) /\ v \notin Database!Ran
    BY <1>0, <1>11, <1>v, <1>f DEF Database!Committed, Applies, Database!At
  <2>2. new \in [version : Database!Versions, files : [Database!Versions -> Database!Checksums]] /\ schema \in Schemas
    BY <1>0 DEF MigrationTypeOK
  <2>3. schema' \in Schemas /\ Len(schema') = Len(schema) + 1 /\ schema'[Len(schema) + 1] = new
        /\ \A i \in 1..Len(schema) : schema'[i] = schema[i]
    BY <2>1, <2>2
  <2>4. v = Len(schema) + 1
    <3>1. v > Len(schema)
      BY <1>0, <1>9, <2>1 DEF Database!Versions
    <3>2. CASE ledger = Nothing
      <4>1. v = 1
        BY <1>0, <1>8, <3>2 DEF Database!Recorded, Database!Versions
      <4> QED BY <3>1, <4>1, <1>9
    <3>3. CASE ledger # Nothing
      <4>1. \A u \in 1..(v - 1) : u \in 1..Len(schema)
        BY <1>0, <1>8, <1>9, <3>3 DEF Tables, Database!MigrationsApplyOnce
      <4>2. v = 1 \/ v - 1 \in 1..(v - 1)
        BY <1>0 DEF Database!Versions
      <4> QED BY <3>1, <4>1, <4>2, <1>0, <1>9 DEF Database!Versions
    <3> QED BY <3>2, <3>3
  <2>5. \A i \in 1..Len(schema') : schema'[i].version = i
    BY <1>0, <1>9, <2>3, <2>4 DEF Tables, Database!MigrationsApplyOnce
  <2>6. Database!Ran' = {u \in Database!Versions : Database!Recorded(u)'}
    <3>1. Database!Ran' = 1..Len(schema')
      BY <2>3, <2>5, <1>9 DEF Database!Ran
    <3>2. \A u \in Database!Versions : Database!Recorded(u) <=> u \in 1..Len(schema)
      <4>1. CASE ledger = Nothing
        <5>1. v = 1
          BY <1>0, <1>8, <4>1 DEF Database!Recorded, Database!Versions
        <5> QED BY <4>1, <5>1, <2>4, <1>9 DEF Database!Recorded
      <4>2. CASE ledger # Nothing
        BY <1>0, <1>9, <4>2 DEF Tables, Database!MigrationsApplyOnce
      <4> QED BY <4>1, <4>2
    <3>3. \A u \in Database!Versions : Database!Recorded(u)' <=> u \in 1..Len(schema')
      <4>1. \A u \in Database!Versions \ {v} : Database!Recorded(u)' <=> u \in 1..Len(schema)
        BY <3>2, <1>6
      <4>2. \A u \in Database!Versions \ {v} : u \in 1..Len(schema) <=> u \in 1..Len(schema')
        BY <2>3, <2>4, <1>9 DEF Database!Versions
      <4>3. Database!Recorded(v)' /\ v \in 1..Len(schema')
        BY <1>6, <2>3, <2>4, <1>9
      <4> QED BY <4>1, <4>2, <4>3
    <3>4. 1..Len(schema') \subseteq Database!Versions
      BY <2>3, <2>4, <1>0, <1>9 DEF Database!Versions
    <3> QED BY <3>1, <3>3, <3>4
  <2>7. ASSUME NEW i \in 1..Len(schema'), NEW u \in 1..(i - 1)
        PROVE  ledger'[u] \in Database!Accepted(u, schema'[i].files[u])
    <3>1. CASE i = v
      BY <3>1, <1>7, <1>8, <2>3, <2>4
    <3>2. CASE i # v
      <4>1. i \in 1..Len(schema) /\ u \in Database!Versions \ {v}
        BY <3>2, <2>3, <2>4, <1>0, <1>9 DEF Database!Versions
      <4>2. ledger # Nothing
        BY <4>1, <1>0, <1>9 DEF Tables
      <4>3. ledger[u] \in Database!Accepted(u, schema[i].files[u])
        BY <4>1, <4>2, <1>0 DEF Tables, Database!MigrationsApplyOnce
      <4> QED BY <4>1, <4>2, <4>3, <1>4, <2>3
    <3> QED BY <3>1, <3>2
  <2>8. (\A i \in 1..Len(schema) : \A u \in 1..(i - 1) :
            ledger[u] \in Database!Accepted(u, schema[i].files[u]))'
    BY <2>7 DEF Database!Accepted
  <2>9. Tables'
    BY <1>5, <2>5, <2>6, <2>8 DEF Tables, Database!MigrationsApplyOnce
  <2> QED BY <2>3, <2>9
<1>12. schema' \in Schemas /\ Tables'
  BY <1>10, <1>11
<1>13. progress'[m] = [version |-> w, step |-> step]
       /\ \A k \in Migrators \ {m} : progress'[k] = progress[k]
  BY <1>0 DEF MigrationTypeOK, Database!Goes
<1>14. MigrationTypeOK'
  BY <1>0, <1>4, <1>12 DEF MigrationTypeOK, Database!Goes, MigratorSteps
<1>15. ASSUME NEW k \in Migrators PROVE Applies(k)'
  <2>1. CASE k = m
    BY <1>13, <2>1 DEF Applies, Database!At
  <2>2. CASE k # m
    <3>1. progress'[k].step \notin {"apply", "adopt", "commit"}
      BY <1>0, <1>13, <2>2 DEF MigrationInv, Applies
    <3> QED BY <3>1 DEF Applies, Database!At
  <2> QED BY <2>1, <2>2
<1>16. ASSUME NEW k \in Migrators, NEW u \in Database!Versions, Database!Recorded(u), ledger[u] \in Database!Accepted(u, release[k][u])
       PROVE  Database!Recorded(u)' /\ ledger'[u] \in Database!Accepted(u, release'[k][u])
  BY <1>6, <1>7, <1>16
<1>17. ASSUME NEW k \in Migrators PROVE Knows(k)'
  <2>1. CASE k = m
    <3>1. Database!Recorded(v)' /\ ledger'[v] \in Database!Accepted(v, release'[m][v])
      BY <1>4, <1>6, <1>f, ChecksumAccepted
    <3>2. \A u \in 1..(w - 1) : u = v \/ u \in 1..(v - 1)
      BY <1>0, <1>v DEF Database!Versions
    <3>3. \A u \in 1..(w - 1) : Database!Recorded(u)' /\ ledger'[u] \in Database!Accepted(u, release'[m][u])
      BY <3>1, <3>2, <1>8, <1>16, <1>f
    <3> QED BY <3>3, <1>13, <2>1 DEF Knows, Database!Accepted
  <2>2. CASE k # m
    <3>1. Knows(k) /\ progress'[k].version = progress[k].version /\ progress[k].version \in Database!Versions
      BY <1>0, <1>13, <2>2 DEF MigrationInv, MigrationTypeOK
    <3>2. \A u \in 1..(progress[k].version - 1) : u \in Database!Versions
      BY <3>1, <1>0 DEF Database!Versions
    <3>3. \A u \in 1..(progress[k].version - 1) : Database!Recorded(u)' /\ ledger'[u] \in Database!Accepted(u, release'[k][u])
      BY <3>1, <3>2, <1>16 DEF Knows
    <3> QED BY <3>1, <3>3 DEF Knows, Database!Accepted
  <2> QED BY <2>1, <2>2
<1> QED BY <1>12, <1>14, <1>15, <1>17 DEF MigrationInv

-----------------------------------------------------------------------------
\* Where a migrator is: its version, and what it knows of those before.
LEMMA WhereItIs ==
  ASSUME Database!MigrationConstants, MigrationInv, NEW m \in Migrators
  PROVE  /\ progress[m].version \in Database!Versions /\ Last \in Database!Versions /\ 1 \in Database!Versions
         /\ \A u \in 1..(progress[m].version - 1) : Database!Recorded(u) /\ ledger[u] \in Database!Accepted(u, release[m][u])
         /\ holder \in Migrators \cup {Nothing} /\ m # Nothing
         /\ Applies(m)
  BY DEF Database!MigrationConstants, MigrationInv, MigrationTypeOK, Knows, Database!Versions

\* NextVersion is the end after the last version, and the next version otherwise.
LEMMA NextVersionGoes ==
  ASSUME Database!MigrationConstants, MigrationInv, NEW m \in Migrators, Database!NextVersion(m)
  PROVE  \E w \in Database!Versions, step \in {"look", "done"} :
            Database!Goes(m, w, step) /\ w \in 1..(progress[m].version + 1)
<1>1. progress[m].version \in Database!Versions /\ Last \in Nat /\ Last \in Database!Versions
  BY WhereItIs DEF Database!MigrationConstants
<1>2. CASE progress[m].version = Last
  <2>1. Database!Goes(m, Last, "done") /\ Last \in 1..(progress[m].version + 1)
    BY <1>1, <1>2 DEF Database!NextVersion, Database!Versions
  <2> QED BY <1>1, <2>1
<1>3. CASE progress[m].version # Last
  <2>1. Database!Goes(m, progress[m].version + 1, "look")
    BY <1>3 DEF Database!NextVersion
  <2>2. progress[m].version + 1 \in Database!Versions /\ progress[m].version + 1 \in 1..(progress[m].version + 1)
    BY <1>1, <1>3 DEF Database!Versions
  <2> QED BY <2>1, <2>2
<1> QED BY <1>2, <1>3

\* applyPendingMigrations goes on only past a version that is recorded and accepted.
LEMMA LookUpStep ==
  ASSUME Database!MigrationConstants, MigrationInv, NEW m \in Migrators, Database!LookUp(m)
  PROVE  MigrationInv'
<1>v. PICK v \in Database!Versions : v = progress[m].version
  BY WhereItIs
<1>0. /\ \A u \in 1..(v - 1) : Database!Recorded(u) /\ ledger[u] \in Database!Accepted(u, release[m][u])
      /\ UNCHANGED <<schema, ledger, release>> /\ holder' = holder
      /\ holder \in Migrators \cup {Nothing}
  BY <1>v, WhereItIs DEF Database!LookUp
<1>1. ASSUME NEW step \in {"lock", "stopped"}, Database!Goes(m, v, step) PROVE MigrationInv'
  <2>1. step \in MigratorSteps /\ step \notin {"apply", "adopt", "commit"}
    BY <1>1 DEF MigratorSteps
  <2> QED BY <1>0, <1>1, <2>1, QuietStep
<1>2. ASSUME Database!Recorded(v), ledger[v] \in Database!Accepted(v, release[m][v]), Database!NextVersion(m) PROVE MigrationInv'
  <2>1. PICK w \in Database!Versions, step \in {"look", "done"} : Database!Goes(m, w, step) /\ w \in 1..(v + 1)
    BY <1>2, <1>v, NextVersionGoes
  <2>2. \A u \in 1..(w - 1) : u = v \/ u \in 1..(v - 1)
    BY <2>1, <1>v DEF Database!Versions
  <2>3. \A u \in 1..(w - 1) : Database!Recorded(u) /\ ledger[u] \in Database!Accepted(u, release[m][u])
    BY <2>2, <1>0, <1>2
  <2>4. step \in MigratorSteps /\ step \notin {"apply", "adopt", "commit"}
    BY <2>1 DEF MigratorSteps
  <2> QED BY <1>0, <2>1, <2>3, <2>4, QuietStep
<1> QED BY <1>v, <1>1, <1>2 DEF Database!LookUp

\* Only when nobody holds the lock does one get it.
LEMMA LockStep ==
  ASSUME Database!MigrationConstants, MigrationInv, NEW m \in Migrators, Database!Lock(m)
  PROVE  MigrationInv'
<1>v. PICK v \in Database!Versions : v = progress[m].version
  BY WhereItIs
<1>0. /\ \A u \in 1..(v - 1) : Database!Recorded(u) /\ ledger[u] \in Database!Accepted(u, release[m][u])
      /\ UNCHANGED <<schema, ledger, release>> /\ holder = Nothing /\ holder' = m
      /\ Database!Goes(m, v, "apply") /\ "apply" \in MigratorSteps
  BY <1>v, WhereItIs DEF Database!Lock, MigratorSteps
<1>1. \A k \in Migrators \ {m} : holder = k => holder' = k
  BY <1>0 DEF Database!MigrationConstants
<1> QED BY <1>0, <1>1, QuietStep

\* What applyMigration finds under the lock is what it adopts or commits.
LEMMA ApplyStep ==
  ASSUME Database!MigrationConstants, MigrationInv, NEW m \in Migrators, Database!Apply(m)
  PROVE  MigrationInv'
<1>v. PICK v \in Database!Versions : v = progress[m].version
  BY WhereItIs
<1>0. /\ \A u \in 1..(v - 1) : Database!Recorded(u) /\ ledger[u] \in Database!Accepted(u, release[m][u])
      /\ UNCHANGED <<schema, ledger, release>> /\ holder = m
      /\ {"adopt", "commit", "stopped"} \subseteq MigratorSteps
  BY <1>v, WhereItIs DEF Database!Apply, Applies, Database!At, MigratorSteps
<1>1. CASE Database!Legacy(v)
  <2>1. Database!Goes(m, v, "adopt") /\ holder' = holder /\ v = 1 /\ ledger = Nothing /\ Database!Ran = {1}
    BY <1>1, <1>v DEF Database!Apply, Database!Legacy
  <2> QED BY <1>0, <2>1, QuietStep
<1>2. CASE ~Database!Legacy(v) /\ (Database!Recorded(v) \/ v \in Database!Ran)
  <2>1. Database!Goes(m, v, "stopped") /\ holder' = Nothing
    BY <1>2, <1>v DEF Database!Apply
  <2> QED BY <1>0, <2>1, QuietStep
<1>3. CASE ~Database!Legacy(v) /\ ~(Database!Recorded(v) \/ v \in Database!Ran)
  <2>1. Database!Goes(m, v, "commit") /\ holder' = holder
    BY <1>3, <1>v DEF Database!Apply
  <2> QED BY <1>0, <1>3, <2>1, QuietStep
<1> QED BY <1>1, <1>2, <1>3

\* The commit of what was applied.
LEMMA CommitStep ==
  ASSUME Database!MigrationConstants, MigrationInv, NEW m \in Migrators, Database!Commit(m)
  PROVE  MigrationInv'
<1>1. PICK w \in Database!Versions, step \in {"look", "done"} : Database!Goes(m, w, step) /\ w \in 1..(progress[m].version + 1)
  BY NextVersionGoes DEF Database!Commit
<1> QED BY <1>1, CommittedStep DEF Database!Commit

\* A program that is stopped leaves nothing, or all of what it was to commit.
LEMMA FailStep ==
  ASSUME Database!MigrationConstants, MigrationInv, NEW m \in Migrators, Database!Fail(m)
  PROVE  MigrationInv'
<1>v. PICK v \in Database!Versions : v = progress[m].version
  BY WhereItIs
<1>0. /\ \A u \in 1..(v - 1) : Database!Recorded(u) /\ ledger[u] \in Database!Accepted(u, release[m][u])
      /\ Database!Goes(m, v, "stopped") /\ "stopped" \in MigratorSteps /\ release' = release
      /\ holder' = IF holder = m THEN Nothing ELSE holder
      /\ holder \in Migrators \cup {Nothing}
  BY <1>v, WhereItIs DEF Database!Fail, MigratorSteps
<1>1. CASE UNCHANGED <<schema, ledger>>
  <2>1. holder' \in Migrators \cup {Nothing} /\ \A k \in Migrators \ {m} : holder = k => holder' = k
    BY <1>0
  <2> QED BY <1>0, <1>1, <2>1, QuietStep
<1>2. CASE (Database!At(m, "commit") \/ Database!At(m, "adopt")) /\ Database!Committed(m)
  <2>1. holder' = Nothing
    BY <1>0, <1>2, WhereItIs DEF Applies, Database!At
  <2>2. v \in 1..(progress[m].version + 1)
    BY <1>v DEF Database!Versions
  <2> QED BY <1>0, <1>2, <2>1, <2>2, CommittedStep
<1> QED BY <1>1, <1>2 DEF Database!Fail

\* A program that is started again begins with the first version.
LEMMA AgainStep ==
  ASSUME Database!MigrationConstants, MigrationInv, NEW m \in Migrators, Database!Again(m)
  PROVE  MigrationInv'
<1>0. /\ UNCHANGED <<schema, ledger, release>> /\ holder' = holder /\ holder \in Migrators \cup {Nothing}
      /\ Database!Goes(m, 1, "look") /\ "look" \in MigratorSteps /\ 1 \in Database!Versions
      /\ \A u \in 1..(1 - 1) : FALSE
  BY WhereItIs DEF Database!Again, MigratorSteps
<1> QED BY <1>0, QuietStep

\* No step of a migrator, and no stutter, breaks the invariant.
LEMMA MigrationNextInv ==
  Database!MigrationConstants /\ MigrationInv /\ [Database!MigrationNext]_(Database!migrationVars) => MigrationInv'
<1> SUFFICES ASSUME Database!MigrationConstants, MigrationInv, [Database!MigrationNext]_(Database!migrationVars) PROVE MigrationInv'
  OBVIOUS
<1>1. CASE Database!MigrationNext
  BY <1>1, LookUpStep, LockStep, ApplyStep, CommitStep, FailStep, AgainStep DEF Database!MigrationNext
<1>2. CASE UNCHANGED Database!migrationVars
  <2>0. UNCHANGED <<schema, pristine, ledger, holder, release, progress>> /\ Database!Ran' = Database!Ran
    BY <1>2 DEF Database!migrationVars, Database!Ran
  <2>1. MigrationTypeOK'
    BY <2>0 DEF MigrationInv, MigrationTypeOK
  <2>2. Tables'
    BY <2>0 DEF MigrationInv, Tables, Database!MigrationsApplyOnce, Database!Recorded, Database!Accepted
  <2>3. ASSUME NEW m \in Migrators PROVE Applies(m)'
    BY <2>0 DEF MigrationInv, Applies, Database!At, Database!Recorded
  <2>4. ASSUME NEW m \in Migrators PROVE Knows(m)'
    BY <2>0 DEF MigrationInv, Knows, Database!Recorded, Database!Accepted
  <2> QED BY <2>1, <2>2, <2>3, <2>4 DEF MigrationInv
<1> QED BY <1>1, <1>2

\* The tables are what the files say, whatever releases run at once and wherever they stop:
\* each version was run once and in order, the ledger has those and no others, and whoever
\* ran one had the same files before it.
THEOREM MigrationsTheorem == Database!MigrationSpec => []MigrationsApplyOnce
<1> USE OperationConstants
<1>1. Database!MigrationInit => MigrationInv
  BY MigrationInitInv
<1>2. MigrationInv /\ [Database!MigrationNext]_(Database!migrationVars) => MigrationInv'
  BY MigrationNextInv
<1>3. MigrationInv => MigrationsApplyOnce
  BY DEF MigrationInv, Tables, MigrationsApplyOnce
<1> QED BY <1>1, <1>2, <1>3, PTL DEF Database!MigrationSpec

-----------------------------------------------------------------------------
Busy(click) == click.step \in {"call", "handle", "reload", "show"}
HasCalled == {"reload", "show", "over"}
Fields == {"what", "todo", "done", "mount", "shown", "step", "answer", "at", "got", "read"}

\* What a handler holds of what it has changed: while it may call the server again it knows
\* of each change, but for the last one when that answer was lost.
KnowsChanges(c, click, made) ==
  /\ \A k \in click.done : <<c, k>> \in made
  /\ click.step = "call" => \A k \in Page!Things : <<c, k>> \in made => k \in click.done
  /\ click.step = "handle" =>
       /\ click.at \in Page!Things
       /\ \A k \in Page!Things : <<c, k>> \in made => k \in click.done \cup {click.at}
       /\ click.answer = "done" => <<c, click.at>> \in made
       /\ click.answer = "conflict" => <<c, click.at>> \notin made
  /\ click.what = "save" /\ click.step \in {"reload", "show"} =>
       click.answer = "done" /\ <<c, Setting>> \in made

\* What it is about.
IsAbout(click) ==
  /\ click.todo \subseteq Page!Things
  /\ click.what = "save" => click.todo = {Setting}
  /\ click.what \in {"approve all", "reject all"} => click.todo \subseteq Pending

ClickHolds(c, click, made) ==
  /\ click.step \in {"idle", "over"} \/ Busy(click)
  /\ click.step = "idle" => \A k \in Page!Things : <<c, k>> \notin made
  /\ Busy(click) => DOMAIN click = Fields /\ IsAbout(click) /\ KnowsChanges(c, click, made)

ClicksHold ==
  /\ clicks = [c \in Clicks |-> clicks[c]]
  /\ \A c \in Clicks : ClickHolds(c, clicks[c], effects)

\* The message is of a handler that calls the server no more.
MessageHolds ==
  message # Nothing =>
    /\ message.click \in Clicks /\ clicks[message.click].step \in HasCalled
    /\ \A k \in message.changed : <<message.click, k>> \in effects
    /\ \A k \in message.refused : <<message.click, k>> \notin effects

\* Whoever marked something, or shows that it loads, is a handler of this page under way.
Under(c) == Busy(clicks[c]) /\ clicks[c].mount = mount

MarksHold ==
  view = "ready" =>
    /\ \A k \in marked : \E c \in Clicks : Under(c) /\ k \in clicks[c].todo
    /\ games = "loading" => \E c \in Clicks : Under(c) /\ clicks[c].what \in {"games", "mutate"}

OpenedHolds == opened # Nothing => opened.incident \in Incidents

PageInv == ClicksHold /\ MessageHolds /\ MarksHold /\ OpenedHolds

-----------------------------------------------------------------------------
\* A page that is built for the first time.
LEMMA PageInitInv == Page!PageInit => PageInv
<1> SUFFICES ASSUME Page!PageInit PROVE PageInv
  OBVIOUS
<1>1. \A c \in Clicks : ClickHolds(c, clicks[c], effects)
  BY DEF Page!PageInit, Page!Idle, ClickHolds, Busy
<1>2. clicks = [c \in Clicks |-> clicks[c]]
  BY DEF Page!PageInit
<1> QED BY <1>1, <1>2 DEF Page!PageInit, PageInv, ClicksHold, MessageHolds, MarksHold, OpenedHolds

\* A handler goes on: what it changes, and what the others changed, stays known.
LEMMA OneClick ==
  ASSUME PageInv, NEW c \in Clicks, NEW new, clicks' = [clicks EXCEPT ![c] = new],
         \/ effects' = effects
         \/ clicks[c].step = "call" /\ \E k \in Page!Things : effects' = effects \cup {<<c, k>>},
         ClickHolds(c, new, effects'),
         clicks[c].step \in HasCalled => new.step \in HasCalled
  PROVE  /\ ClicksHold'
         /\ clicks'[c] = new /\ \A b \in Clicks \ {c} : clicks'[b] = clicks[b]
         /\ message' = message => MessageHolds'
<1>1. clicks'[c] = new /\ \A b \in Clicks \ {c} : clicks'[b] = clicks[b]
  BY DEF PageInv, ClicksHold
<1>2. ASSUME NEW b \in Clicks \ {c}
      PROVE  \A k : <<b, k>> \in effects' <=> <<b, k>> \in effects
  OBVIOUS
<1>3. ASSUME NEW b \in Clicks \ {c} PROVE ClickHolds(b, clicks'[b], effects')
  <2>1. ClickHolds(b, clicks[b], effects)
    BY DEF PageInv, ClicksHold
  <2> QED BY <1>1, <1>2, <2>1 DEF ClickHolds, KnowsChanges
<1>4. ClicksHold'
  <2>1. \A b \in Clicks : ClickHolds(b, clicks'[b], effects')
    BY <1>1, <1>3
  <2>2. clicks' = [b \in Clicks |-> clicks'[b]]
    BY DEF PageInv, ClicksHold
  <2>3. \A b \in Clicks : ClickHolds(b, clicks[b], effects)'
    BY <2>1 DEF ClickHolds, Busy, IsAbout, KnowsChanges
  <2> QED BY <2>2, <2>3 DEF ClicksHold
<1>5. ASSUME message' = message PROVE MessageHolds'
  <2> SUFFICES ASSUME message # Nothing PROVE MessageHolds'
    BY <1>5 DEF MessageHolds
  <2>1. /\ message.click \in Clicks /\ clicks[message.click].step \in HasCalled
        /\ \A k \in message.changed : <<message.click, k>> \in effects
        /\ \A k \in message.refused : <<message.click, k>> \notin effects
    BY DEF PageInv, MessageHolds
  <2>2. clicks'[message.click].step \in HasCalled
    BY <1>1, <2>1
  <2>3. effects' = effects \/ message.click # c
    BY <2>1 DEF HasCalled
  <2>4. \A k : <<message.click, k>> \in effects' <=> <<message.click, k>> \in effects
    BY <1>2, <2>1, <2>3
  <2> QED BY <1>5, <2>1, <2>2, <2>4 DEF MessageHolds
<1> QED BY <1>1, <1>4, <1>5

\* What is marked or loading stays that of somebody, when the handler that goes on stays
\* under way for the same things.
LEMMA MarksStay ==
  ASSUME PageInv, NEW c \in Clicks, UNCHANGED <<view, mount>>, marked' \subseteq marked,
         games' = "loading" => games = "loading" \/ (clicks'[c].what = "mutate" /\ clicks[c].mount = mount),
         \A b \in Clicks \ {c} : clicks'[b] = clicks[b],
         Busy(clicks'[c]),
         \A field \in {"mount", "todo", "what"} : clicks'[c][field] = clicks[c][field]
  PROVE  MarksHold'
<1>0. /\ clicks'[c].mount = clicks[c].mount /\ clicks'[c].todo = clicks[c].todo
      /\ clicks'[c].what = clicks[c].what
  OBVIOUS
<1> SUFFICES ASSUME view = "ready" PROVE MarksHold'
  BY DEF MarksHold
<1>1. \A b \in Clicks : Under(b) => Under(b)'
  BY <1>0 DEF Under, Busy
<1>2. ASSUME NEW k \in marked' PROVE \E b \in Clicks : Under(b)' /\ k \in clicks'[b].todo
  <2>1. PICK b \in Clicks : Under(b) /\ k \in clicks[b].todo
    BY <1>2 DEF PageInv, MarksHold
  <2>2. Under(b)' /\ k \in clicks'[b].todo
    BY <1>0, <1>1, <2>1
  <2> QED BY <2>2
<1>3. ASSUME games' = "loading" PROVE \E b \in Clicks : Under(b)' /\ clicks'[b].what \in {"games", "mutate"}
  <2>1. CASE games = "loading"
    <3>1. PICK b \in Clicks : Under(b) /\ clicks[b].what \in {"games", "mutate"}
      BY <2>1 DEF PageInv, MarksHold
    <3>2. Under(b)' /\ clicks'[b].what \in {"games", "mutate"}
      BY <1>0, <1>1, <3>1
    <3> QED BY <3>2
  <2>2. CASE clicks'[c].what = "mutate" /\ clicks[c].mount = mount
    BY <1>0, <2>2 DEF Under, Busy
  <2> QED BY <1>3, <2>1, <2>2
<1> QED BY <1>2, <1>3 DEF MarksHold

\* A handler that ends takes its own marks with it, if it is one of this page.
LEMMA MarksGo ==
  ASSUME PageInv, NEW c \in Clicks, UNCHANGED <<view, mount>>,
         \A b \in Clicks \ {c} : clicks'[b] = clicks[b],
         ~Page!Here(c) => marked' = marked /\ games' = games,
         Page!Here(c) => /\ marked' \cap clicks[c].todo = {} /\ marked' \subseteq marked
                         /\ games' = "loading" => games = "loading" /\ clicks[c].what \notin {"games", "mutate"}
  PROVE  MarksHold'
<1> SUFFICES ASSUME view = "ready" PROVE MarksHold'
  BY DEF MarksHold
<1>1. \A b \in Clicks \ {c} : Under(b) => Under(b)'
  BY DEF Under, Busy
<1>2. ASSUME NEW k \in marked' PROVE \E b \in Clicks : Under(b)' /\ k \in clicks'[b].todo
  <2>1. PICK b \in Clicks : Under(b) /\ k \in clicks[b].todo
    BY <1>2 DEF PageInv, MarksHold
  <2>2. b # c
    BY <1>2, <2>1 DEF Under, Page!Here
  <2>3. Under(b)' /\ k \in clicks'[b].todo
    BY <1>1, <2>1, <2>2
  <2> QED BY <2>3
<1>3. ASSUME games' = "loading" PROVE \E b \in Clicks : Under(b)' /\ clicks'[b].what \in {"games", "mutate"}
  <2>1. PICK b \in Clicks : Under(b) /\ clicks[b].what \in {"games", "mutate"}
    BY <1>3 DEF PageInv, MarksHold
  <2>2. b # c
    BY <1>3, <2>1 DEF Under, Page!Here
  <2>3. Under(b)' /\ clicks'[b].what \in {"games", "mutate"}
    BY <1>1, <2>1, <2>2
  <2> QED BY <2>3
<1> QED BY <1>2, <1>3 DEF MarksHold

-----------------------------------------------------------------------------
\* What others change, and what the page shows, is nobody's business here.
LEMMA AsideInv ==
  ASSUME PageInv, UNCHANGED <<effects, mount, clicks, message>>,
         view' = "ready" => \/ marked' = {} /\ games' = "idle"
                            \/ view = "ready" /\ UNCHANGED <<marked, games>>,
         OpenedHolds'
  PROVE  PageInv'
<1>1. ClicksHold'
  <2>1. \A c \in Clicks : ClickHolds(c, clicks'[c], effects')
    BY DEF PageInv, ClicksHold
  <2>2. \A c \in Clicks : ClickHolds(c, clicks[c], effects)'
    BY <2>1 DEF ClickHolds, Busy, IsAbout, KnowsChanges
  <2> QED BY <2>2 DEF PageInv, ClicksHold
<1>2. MessageHolds' /\ MarksHold'
  BY DEF PageInv, MessageHolds, MarksHold, Under, Busy
<1> QED BY <1>1, <1>2 DEF PageInv

\* Other changes, the first load, another mount and the form of an incident.
LEMMA AsideSteps ==
  ASSUME PageInv,
         \/ Page!LoadDashboard \/ Page!Remount \/ Page!CloseIncident
         \/ \E k \in Page!Things : Page!Other(k) \/ Page!OpenIncident(k)
  PROVE  PageInv'
<1>1. CASE Page!LoadDashboard
  <2>1. /\ effects' = effects /\ mount' = mount /\ clicks' = clicks
        /\ message' = Nothing /\ opened' = Nothing /\ marked' = {} /\ games' = "idle"
    BY <1>1 DEF Page!LoadDashboard, Page!server
  <2>2. ClicksHold'
    <3>1. \A c \in Clicks : ClickHolds(c, clicks'[c], effects')
      BY <2>1 DEF PageInv, ClicksHold
    <3>2. \A c \in Clicks : ClickHolds(c, clicks[c], effects)'
      BY <3>1 DEF ClickHolds, Busy, IsAbout, KnowsChanges
    <3> QED BY <2>1, <3>2 DEF PageInv, ClicksHold
  <2> QED BY <2>1, <2>2 DEF PageInv, MessageHolds, MarksHold, OpenedHolds
<1>2. CASE Page!Remount
  <2>1. view' = "loading" /\ UNCHANGED <<effects, opened, clicks, message>>
    BY <1>2 DEF Page!Remount, Page!server
  <2>2. ClicksHold'
    <3>1. \A c \in Clicks : ClickHolds(c, clicks'[c], effects')
      BY <2>1 DEF PageInv, ClicksHold
    <3>2. \A c \in Clicks : ClickHolds(c, clicks[c], effects)'
      BY <3>1 DEF ClickHolds, Busy, IsAbout, KnowsChanges
    <3> QED BY <2>1, <3>2 DEF PageInv, ClicksHold
  <2> QED BY <2>1, <2>2 DEF PageInv, MessageHolds, MarksHold, OpenedHolds
<1>3. CASE Page!CloseIncident
  BY <1>3, AsideInv DEF Page!CloseIncident, Page!server, Page!frame, OpenedHolds
<1>4. ASSUME NEW k \in Page!Things, Page!Other(k) PROVE PageInv'
  BY <1>4, AsideInv DEF Page!Other, Page!frame, PageInv, OpenedHolds
<1>5. ASSUME NEW k \in Page!Things, Page!OpenIncident(k) PROVE PageInv'
  BY <1>5, AsideInv DEF Page!OpenIncident, Page!server, Page!frame, OpenedHolds
<1> QED BY <1>1, <1>2, <1>3, <1>4, <1>5

\* A handler that starts has changed nothing, and marks what it is about.
LEMMA StartsInv ==
  ASSUME PageInv, NEW c \in Clicks, NEW what, NEW things \in SUBSET Page!Things,
         what = "save" => things = {Setting},
         what \in {"approve all", "reject all"} => things \subseteq Pending,
         Page!Starts(c, what, things), message' \in {message, Nothing},
         games' = games \/ (games' = "loading" /\ what = "games")
  PROVE  PageInv'
<1>1. PICK new :
        /\ clicks' = [clicks EXCEPT ![c] = new]
        /\ DOMAIN new = Fields /\ new.what = what /\ new.todo = things /\ new.done = {}
        /\ new.mount = mount /\ new.step = IF things = {} THEN "reload" ELSE "call"
  <2> DEFINE new == [what |-> what, todo |-> things, done |-> {}, mount |-> mount,
        shown |-> IF what = "mutate" THEN [seen EXCEPT ![opened.incident] = opened.version] ELSE seen,
        step |-> IF things = {} THEN "reload" ELSE "call", answer |-> "done", at |-> Nothing,
        got |-> <<>>, read |-> FALSE]
  <2>1. clicks' = [clicks EXCEPT ![c] = new]
    BY DEF Page!Starts
  <2>2. /\ DOMAIN new = Fields /\ new.what = what /\ new.todo = things /\ new.done = {}
        /\ new.mount = mount /\ new.step = IF things = {} THEN "reload" ELSE "call"
    BY DEF Fields
  <2> QED BY <2>1, <2>2
<1>2. /\ view = "ready" /\ clicks[c].step = "idle" /\ marked' = marked \cup things
      /\ UNCHANGED <<effects, view, mount, opened>>
  BY DEF Page!Starts, Page!At, Page!server, Page!frame
<1>3. ClickHolds(c, new, effects')
  <2>1. \A k \in Page!Things : <<c, k>> \notin effects'
    BY <1>2 DEF PageInv, ClicksHold, ClickHolds
  <2> QED BY <1>1, <2>1 DEF ClickHolds, Busy, IsAbout, KnowsChanges
<1>4. /\ ClicksHold' /\ clicks'[c] = new /\ \A b \in Clicks \ {c} : clicks'[b] = clicks[b]
      /\ message' = message => MessageHolds'
  BY <1>1, <1>2, <1>3, OneClick DEF HasCalled
<1>5. MessageHolds'
  BY <1>4 DEF MessageHolds
<1>6. Under(c)' /\ \A b \in Clicks : Under(b) => b # c /\ Under(b)' /\ clicks'[b] = clicks[b]
  BY <1>1, <1>2, <1>4 DEF Under, Busy
<1>7. ASSUME NEW k \in marked' PROVE \E b \in Clicks : Under(b)' /\ k \in clicks'[b].todo
  <2>1. CASE k \in things
    BY <1>1, <1>4, <1>6, <2>1
  <2>2. CASE k \in marked
    <3>1. PICK b \in Clicks : Under(b) /\ k \in clicks[b].todo
      BY <1>2, <2>2 DEF PageInv, MarksHold
    <3> QED BY <1>6, <3>1
  <2> QED BY <1>2, <2>1, <2>2
<1>8. ASSUME games' = "loading" PROVE \E b \in Clicks : Under(b)' /\ clicks'[b].what \in {"games", "mutate"}
  <2>1. CASE games = "loading"
    <3>1. PICK b \in Clicks : Under(b) /\ clicks[b].what \in {"games", "mutate"}
      BY <1>2, <2>1 DEF PageInv, MarksHold
    <3> QED BY <1>6, <3>1
  <2>2. CASE what = "games"
    BY <1>1, <1>4, <1>6, <2>2
  <2> QED BY <1>8, <2>1, <2>2
<1>9. MarksHold'
  BY <1>7, <1>8 DEF MarksHold
<1> QED BY <1>2, <1>4, <1>5, <1>9 DEF PageInv, OpenedHolds

\* Every handler of the page begins like this.
LEMMA StartSteps ==
  ASSUME PageInv, NEW c \in Clicks,
         \/ \E k \in Page!Things : \/ \E d \in {"approve", "reject"} : Page!Decide(c, k, d)
                                   \/ Page!RemoveLink(c, k) \/ Page!Adjust(c, k)
         \/ \E d \in {"approve all", "reject all"} : Page!DecideAll(c, d)
         \/ Page!Save(c) \/ Page!MutateIncident(c) \/ Page!LoadGames(c)
  PROVE  PageInv'
<1>1. ASSUME NEW k \in Page!Things, NEW d \in {"approve", "reject"}, Page!Decide(c, k, d) PROVE PageInv'
  BY <1>1, StartsInv DEF Page!Decide
<1>2. ASSUME NEW k \in Page!Things, Page!RemoveLink(c, k) PROVE PageInv'
  BY <1>2, StartsInv DEF Page!RemoveLink
<1>3. ASSUME NEW k \in Page!Things, Page!Adjust(c, k) PROVE PageInv'
  BY <1>3, StartsInv DEF Page!Adjust
<1>4. ASSUME NEW d \in {"approve all", "reject all"}, Page!DecideAll(c, d) PROVE PageInv'
  <2>1. PICK all \in SUBSET Pending :
          Page!Starts(c, d, all) /\ message' = Nothing /\ games' = games
    BY <1>4 DEF Page!DecideAll
  <2>2. all \in SUBSET Page!Things
    BY DEF Page!Things
  <2> QED BY <2>1, <2>2, StartsInv
<1>5. CASE Page!Save(c)
  <2>1. {Setting} \in SUBSET Page!Things
    BY DEF Page!Things
  <2> QED BY <1>5, <2>1, StartsInv DEF Page!Save
<1>6. CASE Page!MutateIncident(c)
  <2>1. {opened.incident} \in SUBSET Page!Things
    BY <1>6 DEF Page!MutateIncident, PageInv, OpenedHolds, Page!Things
  <2> QED BY <1>6, <2>1, StartsInv DEF Page!MutateIncident
<1>7. CASE Page!LoadGames(c)
  <2>1. Page!Starts(c, "games", {}) /\ message' = message /\ games' = "loading"
    BY <1>7 DEF Page!LoadGames
  <2>2. {} \in SUBSET Page!Things
    OBVIOUS
  <2> QED BY <2>1, <2>2, StartsInv
<1> QED BY <1>1, <1>2, <1>3, <1>4, <1>5, <1>6, <1>7

\* A handler under way, of which its other fields are kept.
LEMMA OtherFields ==
  ASSUME PageInv, NEW c \in Clicks, Busy(clicks[c])
  PROVE  /\ DOMAIN clicks[c] = Fields /\ IsAbout(clicks[c])
         /\ KnowsChanges(c, clicks[c], effects)
  BY DEF PageInv, ClicksHold, ClickHolds

\* An answer is that of the server, or is lost.
LEMMA ServeInv == ASSUME PageInv, NEW c \in Clicks, Page!Serve(c) PROVE PageInv'
<1> DEFINE click == clicks[c]
<1>0. /\ click.step = "call" /\ Busy(click) /\ DOMAIN click = Fields
      /\ IsAbout(click) /\ KnowsChanges(c, click, effects)
      /\ UNCHANGED <<view, mount, marked, games, opened, message>>
  BY OtherFields DEF Page!Serve, Page!At, Page!frame, Busy
<1>1. PICK k \in Page!Remaining(c), answer \in {"done", "failed", "conflict"} :
        /\ Page!Answered(c, k, answer)
        /\ \/ effects' = effects \cup {<<c, k>>} /\ answer # "conflict"
           \/ effects' = effects /\ answer # "done"
  BY DEF Page!Serve
<1> DEFINE new == [click EXCEPT !.step = "handle", !.answer = answer, !.at = k]
<1>2. clicks' = [clicks EXCEPT ![c] = new]
  BY <1>1 DEF Page!Answered
<1>3. /\ DOMAIN new = Fields /\ new.step = "handle" /\ new.answer = answer /\ new.at = k
      /\ \A field \in {"what", "todo", "done", "mount"} : new[field] = click[field]
  BY <1>0 DEF Fields
<1>4. new.what = click.what /\ new.todo = click.todo /\ new.done = click.done
  BY <1>3
<1>5. k \in Page!Things /\ k \notin click.done /\ <<c, k>> \notin effects
  BY <1>0, <1>1 DEF Page!Remaining, IsAbout, KnowsChanges
<1> HIDE DEF new
<1>6. ClickHolds(c, new, effects')
  <2>1. KnowsChanges(c, new, effects')
    BY <1>0, <1>1, <1>3, <1>4, <1>5 DEF KnowsChanges
  <2>2. IsAbout(new) /\ Busy(new)
    BY <1>0, <1>3, <1>4 DEF IsAbout, Busy
  <2> QED BY <1>3, <2>1, <2>2 DEF ClickHolds
<1>7. /\ ClicksHold' /\ clicks'[c] = new /\ \A b \in Clicks \ {c} : clicks'[b] = clicks[b]
      /\ message' = message => MessageHolds'
  <2>1. \/ effects' = effects
        \/ clicks[c].step = "call" /\ \E j \in Page!Things : effects' = effects \cup {<<c, j>>}
    BY <1>0, <1>1, <1>5
  <2> QED BY <1>0, <1>2, <1>6, <2>1, OneClick DEF HasCalled
<1>8. MarksHold'
  <2>1. Busy(clicks'[c]) /\ \A field \in {"mount", "todo", "what"} : clicks'[c][field] = clicks[c][field]
    BY <1>3, <1>7 DEF Busy
  <2> QED BY <1>0, <1>7, <2>1, MarksStay
<1> QED BY <1>0, <1>7, <1>8 DEF PageInv, OpenedHolds

\* The marks that a handler takes away are its own, at least.
LEMMA FreesOwn ==
  ASSUME NEW click, IsAbout(click)
  PROVE  click.todo \subseteq Page!Frees(click)
  BY DEF IsAbout, Page!Frees

\* Only these handlers show that incidents are loading, and they load them at last.
LEMMA LoadsIncidents ==
  ASSUME NEW click, click.what \in {"games", "mutate"}
  PROVE  Page!Lists(click) # {}
  BY DEF Page!Lists

\* What a handler says it has changed it has, and what was refused was not changed before.
LEMMA SaysTrue ==
  ASSUME NEW c \in Clicks, NEW click, NEW said, clicks'[c].step \in HasCalled,
         message' = Page!Says(c, click, said),
         \A k \in said : <<c, k>> \in effects',
         click.answer = "conflict" => <<c, click.at>> \notin effects'
  PROVE  MessageHolds'
  BY DEF Page!Says, MessageHolds

\* An answer is counted, and what the page says and marks follows from it.
LEMMA HandleInv == ASSUME PageInv, NEW c \in Clicks, Page!Handle(c) PROVE PageInv'
<1> DEFINE click == clicks[c]
           done == IF click.answer = "done" THEN click.done \cup {click.at} ELSE click.done
           more == click.answer = "done" /\ done # click.todo
           reload == ~more /\ Page!Lists(click) # {}
           next == [click EXCEPT !.step = IF more THEN "call" ELSE "reload", !.done = done]
           new == IF more \/ reload THEN next ELSE [step |-> "over"]
<1>0. /\ click.step = "handle" /\ Busy(click) /\ DOMAIN click = Fields
      /\ IsAbout(click) /\ KnowsChanges(c, click, effects)
      /\ UNCHANGED <<effects, view, mount>>
  BY OtherFields DEF Page!Handle, Page!At, Page!frame, Page!server, Busy
<1>1. clicks' = [clicks EXCEPT ![c] = new]
  BY DEF Page!Handle, Page!Ends
<1>2. IF more \/ ~Page!Here(c) THEN UNCHANGED <<seen, marked, games, opened, message>>
      ELSE /\ message' = IF click.what = "save" /\ reload THEN message ELSE Page!Says(c, click, done)
           /\ marked' = IF reload THEN marked ELSE marked \ Page!Frees(click)
           /\ games' = IF click.what = "mutate" THEN "loading" ELSE games
           /\ opened' = IF click.what = "mutate" /\ click.answer = "done" THEN Nothing ELSE opened
  BY DEF Page!Handle
<1>3. /\ next.step = (IF more THEN "call" ELSE "reload") /\ next.done = done /\ DOMAIN next = Fields
      /\ \A field \in {"what", "todo", "mount", "answer"} : next[field] = click[field]
  BY <1>0 DEF Fields
<1>4. next.what = click.what /\ next.todo = click.todo /\ next.answer = click.answer
  BY <1>3
<1> HIDE DEF next
<1>5. \A k \in done : <<c, k>> \in effects
  BY <1>0 DEF KnowsChanges
<1>6. \A k \in Page!Things : <<c, k>> \in effects /\ click.answer = "done" => k \in done
  BY <1>0 DEF KnowsChanges
<1>7. click.what = "save" /\ reload => click.answer = "done" /\ <<c, Setting>> \in effects
  <2> SUFFICES ASSUME click.what = "save", reload PROVE click.answer = "done" /\ <<c, Setting>> \in effects
    OBVIOUS
  <2>1. click.answer = "done"
    BY DEF Page!Lists
  <2>2. Setting \in done
    BY <1>0, <2>1 DEF IsAbout
  <2> QED BY <1>5, <2>1, <2>2
<1>8. ClickHolds(c, new, effects')
  <2>1. CASE more \/ reload
    <3>1. KnowsChanges(c, next, effects)
      BY <1>3, <1>4, <1>5, <1>6, <1>7, <2>1 DEF KnowsChanges
    <3>2. IsAbout(next) /\ Busy(next)
      BY <1>0, <1>3, <1>4 DEF IsAbout, Busy
    <3> QED BY <1>0, <1>3, <2>1, <3>1, <3>2 DEF ClickHolds, Busy
  <2>2. CASE ~(more \/ reload)
    BY <2>2 DEF ClickHolds, Busy
  <2> QED BY <2>1, <2>2
<1>9. /\ ClicksHold' /\ clicks'[c] = new /\ \A b \in Clicks \ {c} : clicks'[b] = clicks[b]
      /\ message' = message => MessageHolds'
  BY <1>0, <1>1, <1>8, OneClick DEF HasCalled
<1>10. MessageHolds'
  <2>1. CASE message' = message
    BY <1>9, <2>1
  <2>2. CASE ~more /\ message' = Page!Says(c, click, done)
    <3>1. clicks'[c].step \in HasCalled
      BY <1>3, <1>9, <2>2 DEF HasCalled
    <3>2. click.answer = "conflict" => <<c, click.at>> \notin effects
      BY <1>0 DEF KnowsChanges
    <3> HIDE DEF click, done
    <3> QED BY <1>0, <1>5, <2>2, <3>1, <3>2, SaysTrue
  <2> QED BY <1>2, <2>1, <2>2
<1>11. MarksHold'
  <2>1. CASE more \/ reload
    <3>1. Busy(clicks'[c]) /\ \A field \in {"mount", "todo", "what"} : clicks'[c][field] = clicks[c][field]
      BY <1>3, <1>9, <2>1 DEF Busy
    <3>2. /\ marked' \subseteq marked
          /\ games' = "loading" => games = "loading" \/ (clicks'[c].what = "mutate" /\ clicks[c].mount = mount)
      BY <1>2, <2>1, <3>1 DEF Page!Here
    <3> QED BY <1>0, <1>9, <3>1, <3>2, MarksStay
  <2>2. CASE ~(more \/ reload)
    <3>1. click.what \notin {"games", "mutate"}
      BY <2>2, LoadsIncidents
    <3>2. click.todo \subseteq Page!Frees(click)
      BY <1>0, FreesOwn
    <3>3. ~Page!Here(c) => marked' = marked /\ games' = games
      BY <1>2
    <3>4. Page!Here(c) => marked' = marked \ Page!Frees(click) /\ games' = games
      BY <1>2, <2>2, <3>1
    <3> QED BY <1>0, <1>9, <3>1, <3>2, <3>3, <3>4, MarksGo
  <2> QED BY <2>1, <2>2
<1>12. OpenedHolds'
  BY <1>2 DEF PageInv, OpenedHolds
<1> QED BY <1>9, <1>10, <1>11, <1>12 DEF PageInv

\* Lists are read for the page as the handler knows it.
LEMMA ReloadInv == ASSUME PageInv, NEW c \in Clicks, Page!Reload(c) PROVE PageInv'
<1> DEFINE click == clicks[c]
<1>0. /\ click.step = "reload" /\ Busy(click) /\ DOMAIN click = Fields
      /\ IsAbout(click) /\ KnowsChanges(c, click, effects)
      /\ UNCHANGED <<effects, view, mount, marked, games, opened, message>>
  BY OtherFields DEF Page!Reload, Page!At, Page!frame, Page!server, Busy
<1>1. PICK got : \E read \in BOOLEAN : Page!Loaded(c, got, read)
  BY DEF Page!Reload
<1>2. PICK read \in BOOLEAN : Page!Loaded(c, got, read)
  BY <1>1
<1> DEFINE new == [click EXCEPT !.step = "show", !.got = got, !.read = read]
<1>3. clicks' = [clicks EXCEPT ![c] = new]
  BY <1>2 DEF Page!Loaded
<1>4. /\ DOMAIN new = Fields /\ new.step = "show"
      /\ \A field \in {"what", "todo", "done", "mount", "answer"} : new[field] = click[field]
  BY <1>0 DEF Fields
<1>5. /\ new.what = click.what /\ new.todo = click.todo /\ new.done = click.done
      /\ new.answer = click.answer
  BY <1>4
<1> HIDE DEF new
<1>6. ClickHolds(c, new, effects')
  <2>1. KnowsChanges(c, new, effects)
    BY <1>0, <1>2, <1>4, <1>5 DEF KnowsChanges
  <2>2. IsAbout(new) /\ Busy(new)
    BY <1>0, <1>4, <1>5 DEF IsAbout, Busy
  <2> QED BY <1>0, <1>4, <2>1, <2>2 DEF ClickHolds
<1>7. /\ ClicksHold' /\ clicks'[c] = new /\ \A b \in Clicks \ {c} : clicks'[b] = clicks[b]
      /\ message' = message => MessageHolds'
  BY <1>0, <1>4, <1>6, <1>3, OneClick DEF HasCalled
<1>8. MarksHold'
  <2>1. Busy(clicks'[c]) /\ \A field \in {"mount", "todo", "what"} : clicks'[c][field] = clicks[c][field]
    BY <1>4, <1>7 DEF Busy
  <2> QED BY <1>0, <1>7, <2>1, MarksStay
<1> QED BY <1>0, <1>7, <1>8 DEF PageInv, OpenedHolds

\* A handler is over, and what it marked on its page is not marked any more.
LEMMA ShowInv == ASSUME PageInv, NEW c \in Clicks, Page!Show(c) PROVE PageInv'
<1> DEFINE click == clicks[c]
<1>0. /\ click.step = "show" /\ Busy(click) /\ IsAbout(click) /\ KnowsChanges(c, click, effects)
      /\ UNCHANGED <<effects, view, mount, opened>>
      /\ clicks' = [clicks EXCEPT ![c] = [step |-> "over"]]
  BY OtherFields DEF Page!Show, Page!At, Page!frame, Page!server, Page!Ends, Busy
<1>1. IF ~Page!Here(c) THEN UNCHANGED <<seen, marked, games, message>>
      ELSE /\ marked' = marked \ Page!Frees(click)
           /\ games' = IF click.what \notin {"mutate", "games"} THEN games
                       ELSE IF click.read THEN "ready" ELSE "error"
           /\ message' = IF click.what # "save" THEN message
                         ELSE Page!Says(c, click, IF click.read THEN {Setting} ELSE {})
  BY DEF Page!Show
<1>2. ClickHolds(c, [step |-> "over"], effects')
  BY DEF ClickHolds, Busy
<1>3. /\ ClicksHold' /\ clicks'[c] = [step |-> "over"] /\ \A b \in Clicks \ {c} : clicks'[b] = clicks[b]
      /\ message' = message => MessageHolds'
  BY <1>0, <1>2, OneClick DEF HasCalled
<1>4. MessageHolds'
  <2> DEFINE said == IF click.read THEN {Setting} ELSE {}
  <2>1. CASE message' = message
    BY <1>3, <2>1
  <2>2. CASE click.what = "save" /\ message' = Page!Says(c, click, said)
    <3>1. (\A k \in said : <<c, k>> \in effects) /\ click.answer # "conflict"
      BY <1>0, <2>2 DEF KnowsChanges
    <3>2. clicks'[c].step \in HasCalled
      BY <1>3 DEF HasCalled
    <3> HIDE DEF click, said
    <3> QED BY <1>0, <2>2, <3>1, <3>2, SaysTrue
  <2> QED BY <1>1, <2>1, <2>2
<1>5. MarksHold'
  <2>1. click.todo \subseteq Page!Frees(click)
    BY <1>0, FreesOwn
  <2>2. ~Page!Here(c) => marked' = marked /\ games' = games
    BY <1>1
  <2>3. Page!Here(c) => /\ marked' = marked \ Page!Frees(click)
                        /\ games' = "loading" => games = "loading" /\ click.what \notin {"games", "mutate"}
    BY <1>1
  <2> QED BY <1>0, <1>3, <2>1, <2>2, <2>3, MarksGo
<1> QED BY <1>0, <1>3, <1>4, <1>5 DEF PageInv, OpenedHolds

\* No step of the page, and no stutter, breaks the invariant.
LEMMA PageNextInv == PageInv /\ [Page!PageNext]_(Page!pageVars) => PageInv'
<1> SUFFICES ASSUME PageInv, [Page!PageNext]_(Page!pageVars) PROVE PageInv'
  OBVIOUS
<1>1. CASE UNCHANGED Page!pageVars
  BY <1>1, AsideInv DEF Page!pageVars, PageInv, OpenedHolds
<1>2. CASE Page!PageNext
  BY <1>2, AsideSteps, StartSteps, ServeInv, HandleInv, ReloadInv, ShowInv DEF Page!PageNext
<1> QED BY <1>1, <1>2

\* A page on which nothing is under way shows nothing as being processed.
LEMMA PageInvHonest == PageInv => PageIsHonest
<1> SUFFICES ASSUME PageInv PROVE PageIsHonest
  OBVIOUS
<1>1. message # Nothing => /\ \A k \in message.changed : <<message.click, k>> \in effects
                           /\ \A k \in message.refused : <<message.click, k>> \notin effects
  BY DEF PageInv, MessageHolds
<1>2. ASSUME view = "ready",
             \A c \in Clicks : Page!At(c, "idle") \/ Page!At(c, "over") \/ clicks[c].mount # mount
      PROVE  marked = {} /\ games # "loading"
  <2>1. \A c \in Clicks : ~Under(c)
    BY <1>2 DEF Under, Busy, Page!At
  <2> QED BY <1>2, <2>1 DEF PageInv, MarksHold
<1> QED BY <1>1, <1>2 DEF PageIsHonest, Page!PageIsHonest

\* What the page says was done was done, and nothing stays marked, for any number of
\* handlers of web/app.tsx that end in any order, whatever fails and whoever else acts.
THEOREM PageIsHonestTheorem == Page!PageSpec => []PageIsHonest
<1>1. Page!PageInit => PageInv
  BY PageInitInv
<1>2. PageInv /\ [Page!PageNext]_(Page!pageVars) => PageInv'
  BY PageNextInv
<1>3. PageInv => PageIsHonest
  BY PageInvHonest
<1> QED BY <1>1, <1>2, <1>3, PTL DEF Page!PageSpec

-----------------------------------------------------------------------------
AlertState == [severity : Host!Severities, candidate : Host!Severities, count : Nat, since : 0..Reminder]
RunState == [states : [Host!Keys -> AlertState], saw : Host!Sightings, post : SUBSET Host!Keys]

MonitorTypeOK ==
  /\ alerts \in [Host!Keys -> AlertState]
  /\ run = <<>> \/ \E r \in RunState : run = <<r>>
  /\ told \in [Host!Keys -> Host!Severities]
  /\ silence \in [Host!Keys -> 0..Reminder]

\* A run holds what follows from the file and from what it saw, and a notification that it
\* no longer has to post was posted just now.
RunFollows ==
  run # <<>> => \A k \in Host!Keys : LET level == run[1].saw[k] IN
    /\ run[1].states[k] = Host!Applied(k, level)
    /\ k \in run[1].post => Host!Notifies(k, level)
    /\ Host!Notifies(k, level) /\ k \notin run[1].post => told[k] = level /\ silence[k] = 0

\* The file knows of no notification that was not posted.
FileIsNoNewer == \A k \in Host!Keys : silence[k] <= alerts[k].since

MonitorInv == MonitorTypeOK /\ RunFollows /\ FileIsNoNewer

\* A key goes on with one of the severities, and with a time that is bounded.
LEMMA AppliedType ==
  ASSUME alerts \in [Host!Keys -> AlertState], NEW k \in Host!Keys, NEW level \in Host!Severities \cup {"unseen"}
  PROVE  Host!Applied(k, level) \in AlertState
<1> DEFINE prior == alerts[k]
<1>0. prior \in AlertState /\ Reminder \in Nat
  BY OperationConstants DEF Host!MonitorConstants
<1>1. CASE level = "unseen"
  BY <1>0, <1>1 DEF Host!Applied
<1>2. CASE level # "unseen" /\ Host!Changes(k, prior, level)
  BY <1>0, <1>2 DEF Host!Applied, AlertState
<1>3. CASE level # "unseen" /\ ~Host!Changes(k, prior, level)
  <2>0. level \in Host!Severities
    BY <1>3
  <2>1. Host!Count(prior, level) \in Nat
    <3>1. CASE prior.severity = level
      BY <3>1 DEF Host!Count
    <3>2. CASE prior.severity # level /\ prior.candidate = level
      BY <1>0, <3>2 DEF Host!Count, AlertState
    <3>3. CASE prior.severity # level /\ prior.candidate # level
      BY <3>3 DEF Host!Count
    <3> QED BY <3>1, <3>2, <3>3
  <2> DEFINE count == Host!Count(prior, level)
  <2> DEFINE since == IF Host!Reminds(prior, level) THEN 0 ELSE prior.since
  <2>2. since \in 0..Reminder
    BY <1>0 DEF AlertState
  <2>3. Host!Applied(k, level) = [prior EXCEPT !.candidate = level, !.count = count, !.since = since]
    BY <1>3 DEF Host!Applied
  <2> HIDE DEF prior, count, since
  <2> QED BY <1>0, <2>0, <2>1, <2>2, <2>3 DEF AlertState, count
<1> QED BY <1>1, <1>2, <1>3

\* What is written of a key: a severity that changed was notified, and one that is critical
\* was notified or had been within the time of a reminder.
LEMMA AppliedSeverity ==
  ASSUME alerts \in [Host!Keys -> AlertState], NEW k \in Host!Keys, NEW level \in Host!Severities \cup {"unseen"}
  PROVE  LET next == Host!Applied(k, level) IN
         /\ next.severity # alerts[k].severity => Host!Notifies(k, level) /\ next.severity = level
         /\ level = "critical" /\ next.severity = "critical" => Host!Notifies(k, level) \/ alerts[k].since < Reminder
         /\ Host!Notifies(k, level) => next.since = 0
         /\ ~Host!Notifies(k, level) => next.since = alerts[k].since
<1> DEFINE prior == alerts[k]
<1>0. prior \in AlertState /\ Reminder \in Nat
  BY OperationConstants DEF Host!MonitorConstants
<1>1. CASE level = "unseen"
  BY <1>0, <1>1 DEF Host!Applied, Host!Notifies
<1>2. CASE level # "unseen" /\ Host!Changes(k, prior, level)
  BY <1>0, <1>2 DEF Host!Applied, Host!Notifies
<1>3. CASE level # "unseen" /\ ~Host!Changes(k, prior, level)
  <2> DEFINE count == Host!Count(prior, level)
  <2> DEFINE since == IF Host!Reminds(prior, level) THEN 0 ELSE prior.since
  <2>1. Host!Applied(k, level) = [prior EXCEPT !.candidate = level, !.count = count, !.since = since]
    BY <1>3 DEF Host!Applied
  <2>2. Host!Notifies(k, level) <=> Host!Reminds(prior, level)
    BY <1>3 DEF Host!Notifies
  <2>3. prior.severity = "critical" /\ level = "critical" /\ ~Host!Reminds(prior, level) => prior.since < Reminder
    BY <1>0 DEF Host!Reminds, AlertState
  <2>4. Host!Applied(k, level).severity = prior.severity /\ Host!Applied(k, level).since = since
    <3> HIDE DEF prior, count, since
    <3> QED BY <1>0, <2>1 DEF AlertState
  <2> QED BY <2>2, <2>3, <2>4
<1> QED BY <1>1, <1>2, <1>3

\* A monitor that begins has no run and a file that knows of nothing.
LEMMA MonitorInitInv == Host!MonitorInit => MonitorInv
<1> SUFFICES ASSUME Host!MonitorInit PROVE MonitorInv
  OBVIOUS
<1>1. Reminder \in Nat
  BY OperationConstants DEF Host!MonitorConstants
<1>2. MonitorTypeOK
  BY <1>1 DEF Host!MonitorInit, MonitorTypeOK, AlertState, Host!Severities, Host!Forever
<1>3. RunFollows /\ FileIsNoNewer
  BY <1>1 DEF Host!MonitorInit, RunFollows, FileIsNoNewer, Host!Forever
<1> QED BY <1>2, <1>3 DEF MonitorInv

\* Time passes alike for the file and for who reads the notifications.
LEMMA WaitInv == ASSUME MonitorInv, Host!Wait PROVE MonitorInv'
<1>0. Reminder \in Nat /\ run' = <<>> /\ told' = told
  BY OperationConstants DEF Host!MonitorConstants, Host!Wait
<1>1. ASSUME NEW k \in Host!Keys
      PROVE  /\ alerts'[k] \in AlertState /\ silence'[k] \in 0..Reminder
             /\ silence'[k] <= alerts'[k].since
  <2>1. alerts[k] \in AlertState /\ silence[k] \in 0..Reminder /\ silence[k] <= alerts[k].since
    BY DEF MonitorInv, MonitorTypeOK, FileIsNoNewer
  <2> DEFINE since == Host!Later(alerts[k].since)
  <2>2. since \in 0..Reminder /\ Host!Later(silence[k]) \in 0..Reminder /\ Host!Later(silence[k]) <= since
    BY <1>0, <2>1 DEF Host!Later, Host!Forever, AlertState
  <2>3. alerts'[k] = [alerts[k] EXCEPT !.since = since] /\ silence'[k] = Host!Later(silence[k])
    BY DEF Host!Wait, Host!Aged
  <2> HIDE DEF since
  <2> QED BY <2>1, <2>2, <2>3 DEF AlertState
<1>2. alerts' = [k \in Host!Keys |-> alerts'[k]] /\ silence' = [k \in Host!Keys |-> silence'[k]]
  BY DEF Host!Wait, Host!Aged
<1>3. MonitorTypeOK'
  <2>1. alerts' \in [Host!Keys -> AlertState] /\ silence' \in [Host!Keys -> 0..Reminder]
    BY <1>1, <1>2
  <2> QED BY <1>0, <2>1 DEF MonitorInv, MonitorTypeOK
<1> QED BY <1>0, <1>1, <1>3 DEF MonitorInv, RunFollows, FileIsNoNewer

\* A run that begins has all of its notifications before it.
LEMMA ObserveInv == ASSUME MonitorInv, Host!Observe PROVE MonitorInv'
<1> PICK saw \in Host!Sightings :
       run' = <<[states |-> [k \in Host!Keys |-> Host!Applied(k, saw[k])], saw |-> saw,
                 post |-> {k \in Host!Keys : Host!Notifies(k, saw[k])}]>>
  BY DEF Host!Observe
<1> DEFINE states == [k \in Host!Keys |-> Host!Applied(k, saw[k])]
           post == {k \in Host!Keys : Host!Notifies(k, saw[k])}
           r == [states |-> states, saw |-> saw, post |-> post]
<1>0. UNCHANGED <<alerts, told, silence>> /\ run' = <<r>> /\ alerts \in [Host!Keys -> AlertState]
  BY DEF Host!Observe, MonitorInv, MonitorTypeOK
<1>1. \A k \in Host!Keys : Host!Applied(k, saw[k]) \in AlertState
  BY <1>0, AppliedType DEF Host!Sightings
<1>2. r \in RunState
  BY <1>1 DEF RunState
<1>3. MonitorTypeOK'
  BY <1>0, <1>2 DEF MonitorInv, MonitorTypeOK
<1>4. run'[1].states = states /\ run'[1].saw = saw /\ run'[1].post = post
  BY <1>0
<1>5. \A k \in Host!Keys : \A level : /\ Host!Applied(k, level)' = Host!Applied(k, level)
                                      /\ Host!Notifies(k, level)' = Host!Notifies(k, level)
  BY <1>0 DEF Host!Applied, Host!Notifies
<1>6. RunFollows'
  <2> SUFFICES ASSUME NEW k \in Host!Keys
      PROVE  /\ states[k] = Host!Applied(k, saw[k])'
             /\ k \in post => Host!Notifies(k, saw[k])'
             /\ Host!Notifies(k, saw[k])' => k \in post
    BY <1>4 DEF RunFollows
  <2> QED BY <1>5
<1> QED BY <1>0, <1>3, <1>6 DEF MonitorInv, FileIsNoNewer

\* A notification that was posted is remembered by who reads it.
LEMMA DeliverInv == ASSUME MonitorInv, NEW k \in Host!Keys, Host!Deliver(k) PROVE MonitorInv'
<1> PICK r \in RunState : run = <<r>>
  BY DEF MonitorInv, MonitorTypeOK, Host!Deliver, Host!IsNext
<1>0. /\ run[1] = r /\ run # <<>> /\ alerts' = alerts /\ k \in r.post
      /\ told' = [told EXCEPT ![k] = r.saw[k]] /\ silence' = [silence EXCEPT ![k] = 0]
  BY DEF Host!Deliver, Host!IsNext
<1>1. Reminder \in Nat
  BY OperationConstants DEF Host!MonitorConstants
<1>2. \A j \in Host!Keys : /\ r.states[j] = Host!Applied(j, r.saw[j])
                           /\ j \in r.post => Host!Notifies(j, r.saw[j])
                           /\ Host!Notifies(j, r.saw[j]) /\ j \notin r.post => told[j] = r.saw[j] /\ silence[j] = 0
  BY <1>0 DEF MonitorInv, RunFollows
<1>3. r.saw[k] \in Host!Severities
  BY <1>0, <1>2 DEF RunState, Host!Sightings, Host!Notifies
<1>4. told' \in [Host!Keys -> Host!Severities] /\ silence' \in [Host!Keys -> 0..Reminder]
  BY <1>0, <1>1, <1>3 DEF MonitorInv, MonitorTypeOK
<1>5. FileIsNoNewer'
  BY <1>0, <1>1 DEF MonitorInv, MonitorTypeOK, FileIsNoNewer, AlertState
<1>6. \A j \in Host!Keys : \A level : /\ Host!Applied(j, level)' = Host!Applied(j, level)
                                      /\ Host!Notifies(j, level)' = Host!Notifies(j, level)
  BY <1>0 DEF Host!Applied, Host!Notifies
<1>7. CASE run' = <<>>
  BY <1>0, <1>4, <1>5, <1>7 DEF MonitorInv, MonitorTypeOK, RunFollows
<1>8. CASE Host!Posted(k)
  <2> DEFINE s == [r EXCEPT !.post = @ \ {k}]
  <2>1. run' = <<s>> /\ s \in RunState /\ s.states = r.states /\ s.saw = r.saw /\ s.post = r.post \ {k}
    BY <1>0, <1>8 DEF Host!Posted, RunState
  <2> HIDE DEF s
  <2>2. run'[1] = s
    BY <2>1
  <2>3. RunFollows'
    <3> SUFFICES ASSUME NEW j \in Host!Keys
        PROVE  /\ s.states[j] = Host!Applied(j, s.saw[j])'
               /\ j \in s.post => Host!Notifies(j, s.saw[j])'
               /\ Host!Notifies(j, s.saw[j])' /\ j \notin s.post => told'[j] = s.saw[j] /\ silence'[j] = 0
      BY <2>2 DEF RunFollows
    <3> QED BY <1>0, <1>2, <1>6, <2>1 DEF MonitorInv, MonitorTypeOK
  <2> QED BY <1>0, <1>4, <1>5, <2>1, <2>3 DEF MonitorInv, MonitorTypeOK
<1> QED BY <1>7, <1>8 DEF Host!Deliver

\* A run that fails leaves the file as it was.
LEMMA FailsInv == ASSUME MonitorInv, Host!Fails PROVE MonitorInv'
  BY DEF Host!Fails, MonitorInv, MonitorTypeOK, RunFollows, FileIsNoNewer

\* A run that has posted everything knows of every key what the file will say of it.
LEMMA WrittenState ==
  ASSUME MonitorInv, Host!WriteStates, NEW k \in Host!Keys
  PROVE  \E level \in Host!Severities \cup {"unseen"} :
           /\ run[1].saw[k] = level /\ alerts'[k] = Host!Applied(k, level)
           /\ Host!Notifies(k, level) => told[k] = level /\ silence[k] = 0
<1> PICK r \in RunState : run = <<r>>
  BY DEF MonitorInv, MonitorTypeOK, Host!WriteStates
<1>1. run[1] = r /\ r.post = {} /\ alerts' = r.states /\ run # <<>>
  BY DEF Host!WriteStates
<1>2. r.saw[k] \in Host!Severities \cup {"unseen"}
  BY DEF RunState, Host!Sightings
<1> QED BY <1>1, <1>2 DEF MonitorInv, RunFollows

\* A file that is replaced says what was told.
LEMMA WriteInv == ASSUME MonitorInv, Host!WriteStates PROVE MonitorInv'
<1>0. run' = <<>> /\ UNCHANGED <<told, silence>> /\ alerts \in [Host!Keys -> AlertState]
  BY DEF Host!WriteStates, MonitorInv, MonitorTypeOK
<1>1. alerts' \in [Host!Keys -> AlertState]
  <2> PICK r \in RunState : run = <<r>>
    BY DEF MonitorInv, MonitorTypeOK, Host!WriteStates
  <2> QED BY DEF Host!WriteStates, RunState
<1>2. ASSUME NEW k \in Host!Keys PROVE silence'[k] <= alerts'[k].since
  <2>1. PICK level \in Host!Severities \cup {"unseen"} :
          alerts'[k] = Host!Applied(k, level) /\ (Host!Notifies(k, level) => silence[k] = 0)
    BY WrittenState
  <2>2. silence[k] <= alerts[k].since
    BY DEF MonitorInv, FileIsNoNewer
  <2> QED BY <1>0, <2>1, <2>2, AppliedSeverity
<1> QED BY <1>0, <1>1, <1>2 DEF MonitorInv, MonitorTypeOK, RunFollows, FileIsNoNewer

\* No step of the monitor, and no stutter, breaks the invariant.
LEMMA MonitorNextInv == MonitorInv /\ [Host!MonitorNext]_(Host!monitorVars) => MonitorInv'
<1> SUFFICES ASSUME MonitorInv, [Host!MonitorNext]_(Host!monitorVars) PROVE MonitorInv'
  OBVIOUS
<1>1. CASE UNCHANGED Host!monitorVars
  BY <1>1 DEF Host!monitorVars, MonitorInv, MonitorTypeOK, RunFollows, FileIsNoNewer, Host!Applied, Host!Notifies
<1> QED BY <1>1, WaitInv, ObserveInv, DeliverInv, FailsInv, WriteInv DEF Host!MonitorNext

\* Only the end of a run changes both the file and the run.
LEMMA WriteTells == ASSUME MonitorInv, Host!MonitorNext PROVE Host!WrittenWasTold
<1> SUFFICES ASSUME alerts' # alerts, run' # run, NEW k \in Host!Keys
    PROVE  /\ alerts'[k].severity # alerts[k].severity => told[k] = alerts'[k].severity
           /\ run[1].saw[k] = "critical" /\ alerts'[k].severity = "critical" =>
                told[k] = "critical" \/ silence[k] < Reminder
  BY DEF Host!WrittenWasTold
<1>1. Host!WriteStates
  BY DEF Host!MonitorNext, Host!Wait, Host!Observe, Host!Deliver, Host!Fails
<1>2. PICK level \in Host!Severities \cup {"unseen"} :
        /\ run[1].saw[k] = level /\ alerts'[k] = Host!Applied(k, level)
        /\ Host!Notifies(k, level) => told[k] = level
  BY <1>1, WrittenState
<1>3. /\ alerts[k] \in AlertState /\ silence[k] \in 0..Reminder /\ silence[k] <= alerts[k].since
      /\ Reminder \in Nat /\ alerts \in [Host!Keys -> AlertState]
  BY OperationConstants DEF MonitorInv, MonitorTypeOK, FileIsNoNewer, Host!MonitorConstants
<1>4. alerts[k].since < Reminder => silence[k] < Reminder
  BY <1>3 DEF AlertState
<1> QED BY <1>2, <1>3, <1>4, AppliedSeverity

\* What is posted again was changed since, as far as the file knows, or is a reminder.
LEMMA DeliverIsNew == ASSUME MonitorInv PROVE Host!NothingToldTwice
<1> SUFFICES ASSUME NEW k \in Host!Keys, Host!Deliver(k), told[k] = run[1].saw[k], Host!Recorded(k)
    PROVE  silence[k] >= Reminder
  BY DEF Host!NothingToldTwice, MonitorInv, MonitorTypeOK
<1>1. Host!Notifies(k, run[1].saw[k])
  BY DEF Host!Deliver, Host!IsNext, MonitorInv, RunFollows
<1> QED BY <1>1 DEF Host!Recorded, Host!Notifies, Host!Changes, Host!Reminds

\* What the file says was told and what is critical does not stay untold, for any alerts,
\* thresholds and time of reminders, wherever runs fail: evaluateMonitoring and the order in
\* which a run posts and writes.
THEOREM AlertsAreToldTheorem == Host!MonitorSpec => AlertsAreTold
<1>1. Host!MonitorInit => MonitorInv
  BY MonitorInitInv
<1>2. MonitorInv /\ [Host!MonitorNext]_(Host!monitorVars) => MonitorInv'
  BY MonitorNextInv
<1>3. MonitorInv /\ [Host!MonitorNext]_(Host!monitorVars)
        => [Host!WrittenWasTold /\ Host!NothingToldTwice]_(Host!monitorVars)
  BY WriteTells, DeliverIsNew
<1> QED BY <1>1, <1>2, <1>3, PTL DEF Host!MonitorSpec, AlertsAreTold, Host!AlertsAreTold

-----------------------------------------------------------------------------
\* SingletonLease: what the lease file is worth.  Run "lease" refutes OneOwner; what holds of
\* the code is a bound on the owners.
VARIABLES leaseFile, claimant

Lease == INSTANCE SingletonLease WITH
  Processes <- Claimants, None <- Nothing, file <- leaseFile, process <- claimant

LeaseFiles == [creator : Claimants, written : BOOLEAN]
LeaseSteps == {"new", "claim", "write", "read", "judge", "unlink", "owner", "release", "gone"}

ClaimantRecords == [step : LeaseSteps, attempt : 0..3, read : Claimants \cup {Nothing}]

\* There are finitely many processes, and no file is not a file.
LeaseConstants == IsFiniteSet(Claimants) /\ Nothing \notin LeaseFiles

\* Who has created a file and not ended since, and whether the one that is there is theirs.
HasLease(p) == claimant[p].step \in {"write", "owner", "release"}
HasFile(p) == leaseFile # Nothing /\ leaseFile.creator = p

\* Those whose file is not there any more, and every removal of a stale file.
Orphaned == {p \in Claimants : HasLease(p) /\ ~HasFile(p)}
Removals == {x \in Claimants \X {1, 2} : x[2] < claimant[x[1]].attempt}
Owners == {p \in Claimants : Lease!At(p, "owner")}

LeaseTypeOK ==
  /\ leaseFile \in LeaseFiles \cup {Nothing}
  /\ claimant \in [Claimants -> ClaimantRecords]
  /\ \A p \in Claimants :
       /\ claimant[p].step \notin {"new", "gone"} => claimant[p].attempt \in {1, 2}
       /\ claimant[p].step = "new" => claimant[p].attempt = 0
       /\ claimant[p].step \in {"judge", "unlink"} => claimant[p].read \in Claimants

\* Who was found dead is dead.
StaleIsDead == \A p \in Claimants : Lease!At(p, "unlink") => Lease!At(claimant[p].read, "gone")

\* Who is named, or has been read, has been started.
NamedHaveStarted ==
  /\ leaseFile # Nothing => ~Lease!At(leaseFile.creator, "new")
  /\ \A p \in Claimants : claimant[p].step \in {"judge", "unlink"} => ~Lease!At(claimant[p].read, "new")

\* A removal of a stale file costs one owner their file at most.
FewOrphans == Cardinality(Orphaned) <= Cardinality(Removals)

LeaseInv == LeaseTypeOK /\ StaleIsDead /\ NamedHaveStarted /\ FewOrphans

\* What the lease file is worth: a process that is about to remove it has found a process dead
\* that is dead for good, and each such removal makes one owner too many at most.  As long as
\* nobody has removed a stale file there is one owner.
OwnersAreCounted ==
  /\ StaleIsDead
  /\ Cardinality(Owners) <= 1 + Cardinality(Removals)

\* Nothing but the record of one process changes, and what it is then.
ClaimantAt(p, step, n, read) ==
  /\ claimant' = [claimant EXCEPT ![p] = claimant'[p]]
  /\ claimant'[p] \in ClaimantRecords
  /\ claimant'[p].step = step /\ claimant'[p].attempt = n /\ claimant'[p].read = read

\* Most steps change where the process is and nothing else about it.
LEMMA GoesOnly ==
  ASSUME LeaseTypeOK, NEW p \in Claimants, NEW step \in LeaseSteps, Lease!Goes(p, step)
  PROVE  ClaimantAt(p, step, claimant[p].attempt, claimant[p].read)
  BY DEF LeaseTypeOK, ClaimantAt, ClaimantRecords, Lease!Goes

\* A step of a process leaves the others where they are.
LEMMA ClaimantMoves ==
  ASSUME LeaseTypeOK, NEW p \in Claimants, NEW step, NEW n, NEW read, ClaimantAt(p, step, n, read),
         step # "new", step # "gone" => n \in {1, 2},
         step \in {"judge", "unlink"} => read \in Claimants,
         leaseFile' \in LeaseFiles \cup {Nothing}
  PROVE  LeaseTypeOK' /\ \A q \in Claimants \ {p} : claimant'[q] = claimant[q]
  <1>1. /\ claimant' = [claimant EXCEPT ![p] = claimant'[p]] /\ claimant'[p] \in ClaimantRecords
        /\ claimant'[p].step = step /\ claimant'[p].attempt = n /\ claimant'[p].read = read
    BY DEF ClaimantAt
  <1>2. claimant \in [Claimants -> ClaimantRecords]
    BY DEF LeaseTypeOK
  <1>3. claimant' \in [Claimants -> ClaimantRecords] /\ \A q \in Claimants \ {p} : claimant'[q] = claimant[q]
    BY <1>1, <1>2
  <1> QED
    BY <1>1, <1>3 DEF LeaseTypeOK

\* The tokens are finitely many.
LEMMA LeaseSets ==
  ASSUME LeaseConstants
  PROVE  /\ IsFiniteSet(Orphaned) /\ IsFiniteSet(Removals) /\ IsFiniteSet(Owners)
         /\ IsFiniteSet(Orphaned') /\ IsFiniteSet(Removals')
  <1>1. IsFiniteSet(Claimants) /\ IsFiniteSet({1, 2})
    <2>1. IsFiniteSet({1, 2})
      <3>1. IsFiniteSet({1} \cup {2})
        BY FS_Singleton, FS_AddElement
      <3>2. {1} \cup {2} = {1, 2}
        OBVIOUS
      <3> QED
        BY <3>1, <3>2, Zenon
    <2> QED
      BY <2>1 DEF LeaseConstants
  <1>2. IsFiniteSet(Claimants \X {1, 2})
    BY <1>1, FS_Product
  <1>3. /\ Orphaned \subseteq Claimants /\ Owners \subseteq Claimants /\ Orphaned' \subseteq Claimants
        /\ Removals \subseteq Claimants \X {1, 2} /\ Removals' \subseteq Claimants \X {1, 2}
    BY DEF Orphaned, Owners, Removals
  <1> QED
    BY <1>1, <1>2, <1>3, FS_Subset

\* No file was lost and no removal is forgotten.
LEMMA NobodyOrphaned ==
  ASSUME LeaseConstants, FewOrphans, Orphaned' \subseteq Orphaned, Removals \subseteq Removals'
  PROVE  FewOrphans'
  <1>1. Cardinality(Orphaned') <= Cardinality(Orphaned) /\ Cardinality(Removals) <= Cardinality(Removals')
    BY LeaseSets, FS_Subset
  <1>2. {Cardinality(Orphaned), Cardinality(Orphaned'), Cardinality(Removals), Cardinality(Removals')} \subseteq Nat
    BY LeaseSets, FS_CardinalityType
  <1> QED
    BY <1>1, <1>2 DEF FewOrphans

\* At the start there is no file.
LEMMA LeaseInitInv == LeaseConstants /\ Lease!LeaseInit => LeaseInv
  <1> SUFFICES ASSUME LeaseConstants, Lease!LeaseInit PROVE LeaseInv
    OBVIOUS
  <1>1. Orphaned = {}
    BY DEF Orphaned, HasLease, Lease!LeaseInit
  <1>2. Cardinality(Orphaned) = 0 /\ Cardinality(Removals) \in Nat
    BY <1>1, LeaseSets, FS_EmptySet, FS_CardinalityType
  <1> QED
    BY <1>2 DEF LeaseInv, LeaseTypeOK, ClaimantRecords, LeaseSteps, StaleIsDead, NamedHaveStarted, FewOrphans, Lease!LeaseInit, Lease!At

\* What every step keeps, whatever becomes of the file: who is started or dead stays so.
LEMMA ClaimantStep ==
  ASSUME LeaseInv, NEW p \in Claimants, NEW step, NEW n, NEW read, ClaimantAt(p, step, n, read),
         step # "new", ~Lease!At(p, "gone"),
         step # "gone" => n \in {1, 2},
         step \in {"judge", "unlink"} => read \in Claimants /\ ~Lease!At(read, "new"),
         step = "unlink" => Lease!At(read, "gone"),
         leaseFile' \in LeaseFiles \cup {Nothing},
         leaseFile' = Nothing \/ leaseFile'.creator = p \/ (leaseFile # Nothing /\ leaseFile'.creator = leaseFile.creator)
  PROVE  /\ claimant'[p].step = step /\ claimant'[p].attempt = n /\ claimant'[p].read = read
         /\ \A q \in Claimants \ {p} : claimant'[q] = claimant[q]
         /\ LeaseTypeOK' /\ StaleIsDead' /\ NamedHaveStarted'
  <1>1. /\ LeaseTypeOK' /\ \A q \in Claimants \ {p} : claimant'[q] = claimant[q]
        /\ claimant'[p].step = step /\ claimant'[p].attempt = n /\ claimant'[p].read = read
    BY ClaimantMoves DEF LeaseInv, ClaimantAt
  <1>2. StaleIsDead'
    BY <1>1 DEF LeaseInv, LeaseTypeOK, StaleIsDead, Lease!At
  <1>3. NamedHaveStarted'
    BY <1>1 DEF LeaseInv, LeaseTypeOK, NamedHaveStarted, LeaseFiles, Lease!At
  <1> QED
    BY <1>1, <1>2, <1>3

\* The removals so far are not forgotten.
LEMMA RemovalsGrow ==
  ASSUME LeaseTypeOK, NEW p \in Claimants, claimant'[p].attempt \in 0..3,
         claimant[p].attempt <= claimant'[p].attempt,
         \A q \in Claimants \ {p} : claimant'[q] = claimant[q]
  PROVE  Removals \subseteq Removals'
  BY DEF Removals, LeaseTypeOK, ClaimantRecords

\* One more makes one more at most.
LEMMA OneMore ==
  ASSUME NEW S, IsFiniteSet(S), NEW x
  PROVE  IsFiniteSet(S \cup {x}) /\ Cardinality(S \cup {x}) <= Cardinality(S) + 1
  <1>1. CASE x \in S
    <2> DEFINE T == S \cup {x}
    <2>1. T = S
      BY <1>1
    <2> HIDE DEF T
    <2>2. Cardinality(S) \in Nat
      BY FS_CardinalityType
    <2>3. IsFiniteSet(T) /\ Cardinality(T) <= Cardinality(S) + 1
      BY <2>1, <2>2
    <2> QED
      BY <2>3 DEF T
  <1>2. CASE x \notin S
    <2>1. Cardinality(S) \in Nat
      BY FS_CardinalityType
    <2>2. IsFiniteSet(S \cup {x}) /\ Cardinality(S \cup {x}) = Cardinality(S) + 1
      BY <1>2, FS_AddElement
    <2> QED
      BY <2>1, <2>2
  <1> QED
    BY <1>1, <1>2

\* A step of a process that neither takes a file away nor loses its own.
LEMMA QuietClaimant ==
  ASSUME LeaseConstants, LeaseInv, NEW p \in Claimants,
         NEW step \in LeaseSteps, NEW n \in 0..3, NEW read \in Claimants \cup {Nothing},
         ClaimantAt(p, step, n, read),
         step # "new", ~Lease!At(p, "gone"),
         step # "gone" => n \in {1, 2},
         step \in {"judge", "unlink"} => read \in Claimants /\ ~Lease!At(read, "new"),
         step = "unlink" => Lease!At(read, "gone"),
         claimant[p].attempt <= n,
         step \in {"write", "owner", "release"} => HasLease(p) \/ HasFile(p)',
         leaseFile' \in LeaseFiles \cup {Nothing},
         (leaseFile = Nothing /\ leaseFile' = Nothing)
           \/ (leaseFile = Nothing /\ leaseFile'.creator = p)
           \/ (leaseFile # Nothing /\ leaseFile' # Nothing /\ leaseFile'.creator = leaseFile.creator)
  PROVE  LeaseInv'
  <1>1. /\ claimant'[p].step = step /\ claimant'[p].attempt = n
        /\ \A q \in Claimants \ {p} : claimant'[q] = claimant[q]
        /\ LeaseTypeOK' /\ StaleIsDead' /\ NamedHaveStarted'
    BY ClaimantStep
  <1>2. Orphaned' \subseteq Orphaned
    BY <1>1 DEF Orphaned, HasLease, HasFile
  <1>3. Removals \subseteq Removals'
    BY <1>1, RemovalsGrow DEF LeaseInv
  <1> QED
    BY <1>1, <1>2, <1>3, NobodyOrphaned DEF LeaseInv

\* Starting, judging, claiming, writing, and ending without touching the file.
LEMMA QuietClaimantSteps ==
  ASSUME LeaseConstants, LeaseInv, NEW p \in Claimants,
         Lease!Start(p) \/ Lease!CreateFile(p) \/ Lease!WriteOwner(p) \/ Lease!ReadFile(p)
           \/ Lease!JudgeOwner(p) \/ Lease!Release(p) \/ Lease!Die(p)
  PROVE  LeaseInv'
  <1> DEFINE n == claimant[p].attempt
             read == claimant[p].read
  <1>0. LeaseTypeOK /\ claimant[p] \in ClaimantRecords
    BY DEF LeaseInv, LeaseTypeOK
  <1>a. /\ n \in 0..3 /\ claimant[p].attempt <= n /\ read \in Claimants \cup {Nothing}
        /\ claimant[p].step \notin {"new", "gone"} => n \in {1, 2}
        /\ claimant[p].step \in {"judge", "unlink"} => read \in Claimants /\ ~Lease!At(read, "new")
    BY <1>0 DEF LeaseInv, LeaseTypeOK, ClaimantRecords, NamedHaveStarted
  <1>b. /\ leaseFile \in LeaseFiles \cup {Nothing}
        /\ leaseFile # Nothing => leaseFile.creator \in Claimants /\ ~Lease!At(leaseFile.creator, "new")
    BY DEF LeaseInv, LeaseTypeOK, NamedHaveStarted, LeaseFiles
  <1>c. \A step \in LeaseSteps : Lease!Goes(p, step) => ClaimantAt(p, step, n, read)
    BY <1>0, GoesOnly
  <1>d. {"claim", "write", "read", "judge", "unlink", "owner", "release", "gone"} \subseteq LeaseSteps
    BY DEF LeaseSteps
  <1> USE DEF Lease!At
  <1>1. CASE Lease!Start(p)
    <2>2. ClaimantAt(p, "claim", 1, read)
      <3>1. claimant \in [Claimants -> ClaimantRecords] /\ claimant' = [claimant EXCEPT ![p].step = "claim", ![p].attempt = 1]
        BY <1>0, <1>1 DEF Lease!Start, LeaseTypeOK
      <3>2. claimant'[p] = [claimant[p] EXCEPT !.step = "claim", !.attempt = 1] /\ claimant' = [claimant EXCEPT ![p] = claimant'[p]]
        BY <3>1
      <3>3. claimant'[p] \in ClaimantRecords /\ claimant'[p].step = "claim" /\ claimant'[p].attempt = 1 /\ claimant'[p].read = read
        <4> DEFINE c == claimant[p]
                   d == [c EXCEPT !.step = "claim", !.attempt = 1]
        <4>1. c \in ClaimantRecords /\ "claim" \in LeaseSteps
          BY <1>0, <1>d
        <4> HIDE DEF c
        <4>2. ASSUME NEW n1 \in 0..3, NEW s1 \in LeaseSteps
              PROVE  LET x == [c EXCEPT !.step = s1, !.attempt = n1] IN
                     x \in ClaimantRecords /\ x.step = s1 /\ x.attempt = n1 /\ x.read = c.read
          BY <4>1 DEF ClaimantRecords
        <4>3. d \in ClaimantRecords /\ d.step = "claim" /\ d.attempt = 1 /\ d.read = c.read
          <5>1. 1 \in 0..3
            OBVIOUS
          <5> QED
            BY <4>1, <4>2, <5>1, Zenon DEF d
        <4> HIDE DEF d
        <4> QED
          BY <3>2, <4>3 DEF c, d
      <3> QED
        BY <3>2, <3>3 DEF ClaimantAt
    <2>3. n <= 1
      BY <1>1 DEF Lease!Start, LeaseInv, LeaseTypeOK
    <2>4. claimant[p].attempt <= 1 /\ read \in Claimants \cup {Nothing} /\ 1 \in 0..3 /\ "claim" \in LeaseSteps
      BY <1>a, <1>d, <2>3
    <2> HIDE DEF n, read
    <2> QED
      BY <1>1, <1>b, <2>2, <2>4, QuietClaimant DEF Lease!Start
  <1> HIDE DEF n, read
  <1>2. CASE Lease!CreateFile(p)
    <2>1. CASE leaseFile = Nothing
      <3>1. leaseFile' = [creator |-> p, written |-> FALSE] /\ ClaimantAt(p, "write", n, read)
        BY <1>2, <1>c, <1>d, <2>1 DEF Lease!CreateFile
      <3>2. leaseFile' \in LeaseFiles /\ leaseFile'.creator = p
        BY <3>1 DEF LeaseFiles
      <3>3. HasFile(p)'
        BY <3>2 DEF HasFile, LeaseConstants
      <3> QED
        BY <1>2, <1>a, <1>d, <2>1, <3>1, <3>2, <3>3, QuietClaimant DEF Lease!CreateFile
    <2>2. CASE leaseFile # Nothing
      <3>1. UNCHANGED leaseFile /\ ClaimantAt(p, "read", n, read)
        BY <1>2, <1>c, <1>d, <2>2 DEF Lease!CreateFile
      <3> QED
        BY <1>2, <1>a, <1>b, <1>d, <2>2, <3>1, QuietClaimant DEF Lease!CreateFile
    <2> QED
      BY <2>1, <2>2
  <1>3. CASE Lease!WriteOwner(p)
    <2>1. HasLease(p) /\ ClaimantAt(p, "owner", n, read)
      BY <1>3, <1>c, <1>d DEF HasLease, Lease!WriteOwner
    <2>2. /\ leaseFile' \in LeaseFiles \cup {Nothing}
          /\ leaseFile = Nothing => leaseFile' = Nothing
          /\ leaseFile # Nothing => leaseFile' # Nothing /\ leaseFile'.creator = leaseFile.creator
      BY <1>3, <1>b DEF Lease!WriteOwner, LeaseFiles, LeaseConstants
    <2> QED
      BY <1>3, <1>a, <1>d, <2>1, <2>2, QuietClaimant DEF Lease!WriteOwner
  <1>4. CASE Lease!ReadFile(p)
    <2>1. CASE leaseFile = Nothing \/ ~leaseFile.written
      <3>1. ClaimantAt(p, "gone", n, read)
        BY <1>4, <1>c, <1>d, <2>1 DEF Lease!ReadFile
      <3> QED
        BY <1>4, <1>a, <1>b, <1>d, <3>1, QuietClaimant DEF Lease!ReadFile
    <2>2. CASE leaseFile # Nothing /\ leaseFile.written
      <3>2. ClaimantAt(p, "judge", n, leaseFile.creator)
        BY <1>0, <1>4, <1>b, <1>d, <2>2 DEF Lease!ReadFile, ClaimantAt, ClaimantRecords, LeaseTypeOK, n
      <3> QED
        BY <1>4, <1>a, <1>b, <1>d, <2>2, <3>2, QuietClaimant DEF Lease!ReadFile, n
    <2> QED
      BY <2>1, <2>2
  <1>5. CASE Lease!JudgeOwner(p)
    <2>1. CASE Lease!Alive(read)
      <3>1. ClaimantAt(p, "gone", n, read)
        BY <1>5, <1>c, <1>d, <2>1 DEF Lease!JudgeOwner, read
      <3> QED
        BY <1>5, <1>a, <1>b, <1>d, <3>1, QuietClaimant DEF Lease!JudgeOwner
    <2>2. CASE ~Lease!Alive(read)
      <3>1. ClaimantAt(p, "unlink", n, read)
        BY <1>5, <1>c, <1>d, <2>2 DEF Lease!JudgeOwner, read
      <3>2. Lease!At(read, "gone")
        BY <1>5, <1>a, <2>2 DEF Lease!JudgeOwner, Lease!Alive
      <3> QED
        BY <1>5, <1>a, <1>b, <1>d, <3>1, <3>2, QuietClaimant DEF Lease!JudgeOwner
    <2> QED
      BY <2>1, <2>2
  <1>6. CASE Lease!Release(p)
    <2>1. HasLease(p) /\ ClaimantAt(p, "release", n, read)
      BY <1>6, <1>c, <1>d DEF HasLease, Lease!Release
    <2> QED
      BY <1>6, <1>a, <1>b, <1>d, <2>1, QuietClaimant DEF Lease!Release
  <1>7. CASE Lease!Die(p)
    <2>1. ClaimantAt(p, "gone", n, read)
      BY <1>7, <1>c, <1>d DEF Lease!Die
    <2> QED
      BY <1>7, <1>a, <1>b, <1>d, <2>1, QuietClaimant DEF Lease!Die, Lease!Alive
  <1> QED
    BY <1>1, <1>2, <1>3, <1>4, <1>5, <1>6, <1>7

\* Whoever loses a file pays for it: with a removal of a stale one ...
LEMMA RemoveStaleInv ==
  ASSUME LeaseConstants, LeaseInv, NEW p \in Claimants, Lease!RemoveStale(p)
  PROVE  LeaseInv'
  <1> DEFINE n == claimant[p].attempt
             step == IF n = 1 THEN "claim" ELSE "gone"
  <1>1. /\ claimant \in [Claimants -> ClaimantRecords] /\ n \in {1, 2}
        /\ claimant[p].step = "unlink" /\ leaseFile \in LeaseFiles \cup {Nothing}
    BY DEF LeaseInv, LeaseTypeOK, Lease!RemoveStale, Lease!At
  <1>2. ClaimantAt(p, step, n + 1, claimant[p].read) /\ leaseFile' = Nothing
    BY <1>1 DEF Lease!RemoveStale, ClaimantAt, ClaimantRecords, LeaseSteps
  <1>3. step \in {"claim", "gone"} /\ n + 1 \in 0..3 /\ (step # "gone" => n + 1 \in {1, 2})
    BY <1>1
  <1> HIDE DEF step
  <1>4. /\ claimant'[p].step = step /\ claimant'[p].attempt = n + 1
        /\ \A q \in Claimants \ {p} : claimant'[q] = claimant[q]
        /\ LeaseTypeOK' /\ StaleIsDead' /\ NamedHaveStarted'
    BY <1>1, <1>2, <1>3, ClaimantStep DEF Lease!At
  <1>5. Removals \subseteq Removals' /\ <<p, n>> \in Removals' \ Removals
    <2>1. Removals \subseteq Removals'
      BY <1>1, <1>3, <1>4, RemovalsGrow DEF LeaseInv
    <2> QED
      BY <1>1, <1>4, <2>1 DEF Removals
  <1>6. Cardinality(Removals) + 1 <= Cardinality(Removals')
    <2>1. Cardinality(Removals \cup {<<p, n>>}) = Cardinality(Removals) + 1
      BY <1>5, LeaseSets, FS_AddElement
    <2>2. Removals \cup {<<p, n>>} \subseteq Removals'
      BY <1>5
    <2> QED
      BY <2>1, <2>2, LeaseSets, FS_Subset
  <1>7. Cardinality(Orphaned') <= Cardinality(Orphaned) + 1
    <2>1. CASE leaseFile = Nothing
      <3>1. Orphaned' \subseteq Orphaned
        BY <1>2, <1>3, <1>4, <2>1 DEF Orphaned, HasLease, HasFile
      <3> QED
        BY <3>1, LeaseSets, FS_Subset, FS_CardinalityType
    <2>2. CASE leaseFile # Nothing
      <3>1. Orphaned' \subseteq Orphaned \cup {leaseFile.creator}
        BY <1>2, <1>3, <1>4, <2>2 DEF Orphaned, HasLease, HasFile
      <3>2. /\ IsFiniteSet(Orphaned \cup {leaseFile.creator})
            /\ Cardinality(Orphaned \cup {leaseFile.creator}) <= Cardinality(Orphaned) + 1
        BY LeaseSets, OneMore
      <3> QED
        BY <3>1, <3>2, LeaseSets, FS_Subset, FS_CardinalityType
    <2> QED
      BY <2>1, <2>2
  <1>8. {Cardinality(Orphaned), Cardinality(Orphaned'), Cardinality(Removals), Cardinality(Removals')} \subseteq Nat
    BY LeaseSets, FS_CardinalityType
  <1> QED
    BY <1>4, <1>6, <1>7, <1>8 DEF LeaseInv, FewOrphans

\* ... or, when it removes what it takes for its own, with its own place among those who have lost theirs.
LEMMA RemoveOwnInv ==
  ASSUME LeaseConstants, LeaseInv, NEW p \in Claimants, Lease!RemoveOwn(p)
  PROVE  LeaseInv'
  <1>1. /\ claimant \in [Claimants -> ClaimantRecords] /\ LeaseTypeOK
        /\ claimant[p].step = "release" /\ leaseFile \in LeaseFiles \cup {Nothing}
    BY DEF LeaseInv, LeaseTypeOK, Lease!RemoveOwn, Lease!At
  <1>2. ClaimantAt(p, "gone", claimant[p].attempt, claimant[p].read) /\ leaseFile' = Nothing
    BY <1>1, GoesOnly, "gone" \in LeaseSteps DEF Lease!RemoveOwn, LeaseSteps
  <1>4. /\ claimant'[p].step = "gone" /\ claimant'[p].attempt = claimant[p].attempt
        /\ \A q \in Claimants \ {p} : claimant'[q] = claimant[q]
        /\ LeaseTypeOK' /\ StaleIsDead' /\ NamedHaveStarted'
    BY <1>1, <1>2, ClaimantStep DEF Lease!At
  <1>3. claimant[p].attempt \in 0..3 /\ claimant'[p].attempt \in 0..3
    BY <1>1, <1>4 DEF ClaimantRecords
  <1>5. Removals \subseteq Removals'
    BY <1>3, <1>4, RemovalsGrow DEF LeaseInv
  <1>6. CASE leaseFile = Nothing \/ HasFile(p)
    <2>1. Orphaned' \subseteq Orphaned
      BY <1>2, <1>3, <1>4, <1>6 DEF Orphaned, HasLease, HasFile
    <2> QED
      BY <1>4, <1>5, <2>1, NobodyOrphaned DEF LeaseInv
  <1>7. CASE leaseFile # Nothing /\ ~HasFile(p)
    <2> DEFINE rest == Orphaned \ {p}
    <2>1. p \in Orphaned
      BY <1>1, <1>7 DEF Orphaned, HasLease
    <2>2. Orphaned' \subseteq rest \cup {leaseFile.creator}
      BY <1>2, <1>3, <1>4, <1>7 DEF Orphaned, HasLease, HasFile
    <2>3. IsFiniteSet(rest) /\ Cardinality(rest) = Cardinality(Orphaned) - 1
      BY <2>1, LeaseSets, FS_RemoveElement
    <2>4. Cardinality(rest) \in Nat /\ Cardinality(Orphaned) \in Nat
      BY <2>3, LeaseSets, FS_CardinalityType
    <2>5. /\ IsFiniteSet(rest \cup {leaseFile.creator})
          /\ Cardinality(rest \cup {leaseFile.creator}) <= Cardinality(rest) + 1
      BY <2>3, <2>4, FS_AddElement
    <2>6. Cardinality(Orphaned') <= Cardinality(Orphaned)
      <3>1. Cardinality(Orphaned') <= Cardinality(rest \cup {leaseFile.creator})
        BY <2>2, <2>5, FS_Subset
      <3>2. Cardinality(rest \cup {leaseFile.creator}) \in Nat /\ Cardinality(Orphaned') \in Nat
        BY <2>5, LeaseSets, FS_CardinalityType
      <3> HIDE DEF rest
      <3> QED
        BY <2>3, <2>4, <2>5, <3>1, <3>2
    <2>7. Cardinality(Removals) <= Cardinality(Removals')
      BY <1>5, LeaseSets, FS_Subset
    <2>8. {Cardinality(Orphaned'), Cardinality(Removals), Cardinality(Removals')} \subseteq Nat
      BY LeaseSets, FS_CardinalityType
    <2> QED
      BY <1>4, <2>4, <2>6, <2>7, <2>8 DEF LeaseInv, FewOrphans
  <1> QED
    BY <1>6, <1>7

\* The invariant is kept by every step.
LEMMA LeaseNextInv == LeaseConstants /\ LeaseInv /\ [Lease!LeaseNext]_(Lease!leaseVars) => LeaseInv'
  <1> SUFFICES ASSUME LeaseConstants, LeaseInv, [Lease!LeaseNext]_(Lease!leaseVars) PROVE LeaseInv'
    OBVIOUS
  <1>1. CASE Lease!LeaseNext
    BY <1>1, QuietClaimantSteps, RemoveStaleInv, RemoveOwnInv DEF Lease!LeaseNext
  <1>2. CASE UNCHANGED Lease!leaseVars
    BY <1>2 DEF Lease!leaseVars, LeaseInv, LeaseTypeOK, StaleIsDead, NamedHaveStarted, FewOrphans, Lease!At,
       Orphaned, Removals, HasLease, HasFile
  <1> QED
    BY <1>1, <1>2

\* The owners but one have lost their file.
LEMMA CountOwners == LeaseConstants /\ LeaseInv => OwnersAreCounted
  <1> SUFFICES ASSUME LeaseConstants, LeaseInv PROVE OwnersAreCounted
    OBVIOUS
  <1>1. Cardinality(Owners) <= Cardinality(Orphaned) + 1
    <2>1. CASE leaseFile = Nothing
      <3>1. Owners \subseteq Orphaned
        BY <2>1 DEF Owners, Orphaned, HasLease, HasFile, Lease!At
      <3> QED
        BY <3>1, LeaseSets, FS_Subset, FS_CardinalityType
    <2>2. CASE leaseFile # Nothing
      <3>1. Owners \subseteq Orphaned \cup {leaseFile.creator}
        BY <2>2 DEF Owners, Orphaned, HasLease, HasFile, Lease!At
      <3>2. /\ IsFiniteSet(Orphaned \cup {leaseFile.creator})
            /\ Cardinality(Orphaned \cup {leaseFile.creator}) <= Cardinality(Orphaned) + 1
        BY LeaseSets, OneMore
      <3> QED
        BY <3>1, <3>2, LeaseSets, FS_Subset, FS_CardinalityType
    <2> QED
      BY <2>1, <2>2
  <1>2. {Cardinality(Owners), Cardinality(Orphaned), Cardinality(Removals)} \subseteq Nat
    BY LeaseSets, FS_CardinalityType
  <1> QED
    BY <1>1, <1>2 DEF LeaseInv, FewOrphans, OwnersAreCounted

\* SingletonLease: with any number of processes that claim the lease together, each removal of a
\* stale file leaves at most one owner more (claimSingletonLease removes whatever is there by
\* then), the process it was taken from is dead, and without one there is a single owner.
THEOREM LeaseTheorem == LeaseConstants => (Lease!LeaseSpec => []OwnersAreCounted)
  <1> SUFFICES ASSUME LeaseConstants PROVE Lease!LeaseSpec => []OwnersAreCounted
    OBVIOUS
  <1>1. Lease!LeaseInit => LeaseInv
    BY LeaseInitInv
  <1>2. LeaseInv /\ [Lease!LeaseNext]_(Lease!leaseVars) => LeaseInv'
    BY LeaseNextInv
  <1>3. LeaseInv => OwnersAreCounted
    BY CountOwners
  <1> QED
    BY <1>1, <1>2, <1>3, PTL DEF Lease!LeaseSpec
=============================================================================
