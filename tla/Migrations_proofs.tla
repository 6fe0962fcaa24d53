-------------------------- MODULE Migrations_proofs --------------------------
(***************************************************************************)
(* Every migration applies once and in order (runMigrations in             *)
(* internal/store/migrate.go), for any number of processes and migrations. *)
(***************************************************************************)
EXTENDS Migrations, WellFoundedInduction, TLAPS

USE MigrationsAssumption

\* A non-empty set of natural numbers has a least element.
LEMMA Least ==
    ASSUME NEW S \in SUBSET Nat, S # {}
    PROVE  \E m \in S : \A x \in S : m <= x
<1> DEFINE R == OpToRel(<, Nat)
<1>1. IsWellFoundedOn(R, Nat)
    BY NatLessThanWellFounded
<1>2. PICK m \in S : \A y \in S : ~(<<y, m>> \in R)
    <2> HIDE DEF R
    <2> QED BY <1>1, WFMin
<1>3. \A y \in S : y < m => <<y, m>> \in R
    BY DEF OpToRel
<1> HIDE DEF R
<1>4. \A y \in S : ~(y < m)
    BY <1>2, <1>3, Zenon
<1>5. \A y \in S : y \in Nat /\ m \in Nat
    OBVIOUS
<1> QED
    BY <1>4, <1>5

\* NextVersion is the first version that is left, with all between recorded.
LEMMA NextVersionIsNext ==
    ASSUME NEW v \in 0 .. MaxVersion, NEW applied \in SUBSET (1 .. MaxVersion)
    PROVE  /\ NextVersion(v, applied) \in (v + 1) .. (MaxVersion + 1)
           /\ \A w \in (v + 1) .. (NextVersion(v, applied) - 1) : w \in applied
<1> DEFINE left == {w \in 1 .. MaxVersion : w > v /\ w \notin applied}
           n == NextVersion(v, applied)
<1>1. n = IF left = {} THEN MaxVersion + 1 ELSE CHOOSE w \in left : \A x \in left : w <= x
    BY DEF NextVersion, Versions, migrations, pgMigrations
<1>2. CASE left = {}
    BY <1>1, <1>2
<1>3. CASE left # {}
    <2>1. \E m \in left : \A x \in left : m <= x
        <3>1. left \in SUBSET Nat
            OBVIOUS
        <3> HIDE DEF left
        <3> QED BY <1>3, <3>1, Least
    <2>2. n \in left /\ \A x \in left : n <= x
        BY <1>1, <1>3, <2>1
    <2> QED
        BY <2>2
<1> QED
    BY <1>2, <1>3

-----------------------------------------------------------------------------
(* The inductive invariant. *)

InTx == {"check", "run", "commit"}

MigCall == [pc : {"begin", "check", "run", "commit", "list", "done", "failed"},
            version : 0 .. (MaxVersion + 1),
            applied : SUBSET (1 .. MaxVersion),
            snapshot : SUBSET (1 .. MaxVersion)]

\* Who is inside the critical section of its dialect holds the lock.
Locked ==
    \A p \in Procs :
        \/ dialect = "postgres" /\ mig[p].pc \in InTx
        \/ dialect = "sqlite" /\ mig[p].pc = "commit"
        => lockHolder = p

\* A call has before it a version of the list, with every earlier one recorded;
\* what it saw applied still is.
Progress ==
    \A p \in Procs :
        /\ mig[p].applied \subseteq recorded
        /\ mig[p].pc \in {"begin"} \cup InTx =>
              mig[p].version <= MaxVersion /\ 1 .. (mig[p].version - 1) \subseteq recorded
        /\ mig[p].pc = "list" => mig[p].version = 0
        /\ mig[p].pc = "done" => recorded = 1 .. MaxVersion

\* A call that runs a migration has found it missing, and still does once it
\* holds the lock.
Missing ==
    \A p \in Procs : mig[p].version # 0 =>
        /\ mig[p].pc = "run" => mig[p].version \notin mig[p].snapshot
        /\ mig[p].pc = "run" /\ dialect = "postgres" => mig[p].snapshot = recorded
        /\ mig[p].pc = "commit" => mig[p].version \notin recorded

\* The log of versions has no gap, and each was executed once.
Once ==
    /\ \A v \in 1 .. MaxVersion : executed[v] = IF v \in recorded THEN 1 ELSE 0
    /\ \A v \in recorded : 1 .. v \subseteq recorded

MigInv == MigrationsTypeOK /\ Locked /\ Progress /\ Missing /\ Once

LEMMA InitInv ==
    ASSUME MigrationsInit PROVE MigInv
<1>1. \A p \in Procs : mig[p] = NewCall
    BY DEF MigrationsInit
<1>2. MigrationsTypeOK
    <2>1. NewCall \in MigCall
        BY DEF NewCall, MigCall
    <2> QED
        BY <2>1 DEF MigrationsInit, MigrationsTypeOK, MigCall
<1>3. Locked
    BY <1>1 DEF Locked, NewCall, InTx
<1>4. Progress
    BY <1>1 DEF Progress, NewCall, InTx
<1>5. Missing
    BY <1>1 DEF Missing, NewCall
<1>6. Once
    BY DEF MigrationsInit, Once
<1> QED
    BY <1>2, <1>3, <1>4, <1>5, <1>6 DEF MigInv

\* Where Proceed(p) takes a call whose version is recorded: back to the list, to the
\* next version that is missing, or to the end with all recorded.
LEMMA ProceedInv ==
    ASSUME NEW p \in Procs, NEW R \in SUBSET (1 .. MaxVersion),
           MigrationsTypeOK, mig[p].version <= MaxVersion,
           1 .. mig[p].version \subseteq R, mig[p].applied \subseteq R, Proceed(p)
    PROVE  LET pc == mig'[p].pc
               v == mig'[p].version
           IN  /\ mig' = [mig EXCEPT ![p].pc = pc, ![p].version = v]
               /\ v \in 0 .. (MaxVersion + 1) /\ pc \in {"list", "begin", "done"}
               /\ pc = "list" => v = 0
               /\ pc = "begin" => v <= MaxVersion /\ 1 .. (v - 1) \subseteq R
               /\ pc = "done" => R = 1 .. MaxVersion
<1> DEFINE v0 == mig[p].version
           n == NextVersion(v0, mig[p].applied)
<1>1. v0 \in 0 .. MaxVersion /\ mig[p].applied \in SUBSET (1 .. MaxVersion)
    BY DEF MigrationsTypeOK
<1>2. n \in (v0 + 1) .. (MaxVersion + 1) /\ \A w \in (v0 + 1) .. (n - 1) : w \in mig[p].applied
    BY <1>1, NextVersionIsNext
<1>3. n \in Versions <=> n <= MaxVersion
    BY <1>1, <1>2 DEF Versions, migrations, pgMigrations
<1>4. 1 .. (n - 1) \subseteq R
    <2> SUFFICES ASSUME NEW w \in 1 .. (n - 1) PROVE w \in R
        OBVIOUS
    <2>1. CASE w <= v0
        BY <1>1, <2>1
    <2>2. CASE w > v0
        BY <1>1, <1>2, <2>2
    <2> QED
        BY <1>1, <1>2, <2>1, <2>2
<1>5. mig' = [mig EXCEPT ![p].pc = IF v0 = 0 THEN "list" ELSE IF n \in Versions THEN "begin" ELSE "done",
                         ![p].version = IF v0 = 0 THEN 0 ELSE n]
    BY DEF Proceed
<1>6. /\ mig'[p].pc = IF v0 = 0 THEN "list" ELSE IF n \in Versions THEN "begin" ELSE "done"
      /\ mig'[p].version = IF v0 = 0 THEN 0 ELSE n
    BY <1>5 DEF MigrationsTypeOK
<1> HIDE DEF n, v0
<1>7. mig' = [mig EXCEPT ![p].pc = mig'[p].pc, ![p].version = mig'[p].version]
    BY <1>5, <1>6
<1>8. mig'[p].pc = "done" => R = 1 .. MaxVersion
    <2> SUFFICES ASSUME mig'[p].pc = "done" PROVE 1 .. MaxVersion \subseteq R
        OBVIOUS
    <2>1. n = MaxVersion + 1
        BY <1>1, <1>2, <1>3, <1>6
    <2> QED
        BY <1>4, <2>1
<1>9. mig'[p].version \in 0 .. (MaxVersion + 1) /\ mig'[p].pc \in {"list", "begin", "done"}
    BY <1>1, <1>2, <1>6
<1>10. mig'[p].pc = "list" => mig'[p].version = 0
    BY <1>6
<1>11. mig'[p].pc = "begin" => mig'[p].version <= MaxVersion /\ 1 .. (mig'[p].version - 1) \subseteq R
    BY <1>3, <1>4, <1>6
<1> QED
    BY <1>7, <1>8, <1>9, <1>10, <1>11

-----------------------------------------------------------------------------
(* One lemma per step of a process. *)

\* Only the call of p changes, and of it only pc and snapshot.
LEMMA BeginTxInv ==
    ASSUME MigInv, NEW p \in Procs, BeginTx(p) PROVE MigInv'
<1> USE DEF MigInv
<1>1. MigrationsTypeOK'
    BY DEF BeginTx, MigrationsTypeOK
<1>2. Locked'
    BY DEF BeginTx, MigrationsTypeOK, Locked, InTx
<1>3. Progress'
    BY DEF BeginTx, MigrationsTypeOK, Progress, InTx
<1>4. Missing'
    BY DEF BeginTx, MigrationsTypeOK, Missing
<1>5. Once'
    BY DEF BeginTx, Once
<1> QED
    BY <1>1, <1>2, <1>3, <1>4, <1>5

LEMMA NotAppliedInv ==
    ASSUME MigInv, NEW p \in Procs, NotApplied(p) PROVE MigInv'
<1> USE DEF MigInv
<1>1. MigrationsTypeOK'
    BY DEF NotApplied, MigrationsTypeOK
<1>2. Locked'
    BY DEF NotApplied, MigrationsTypeOK, Locked, InTx
<1>3. Progress'
    BY DEF NotApplied, MigrationsTypeOK, Progress, InTx
<1>4. Missing'
    BY DEF NotApplied, MigrationsTypeOK, Missing, Recorded
<1>5. Once'
    BY DEF NotApplied, Once
<1> QED
    BY <1>1, <1>2, <1>3, <1>4, <1>5

\* The write finds the version missing: the snapshot is what is recorded now.
LEMMA RunSQLInv ==
    ASSUME MigInv, NEW p \in Procs, RunSQL(p) PROVE MigInv'
<1> USE DEF MigInv
<1>1. MigrationsTypeOK'
    BY DEF RunSQL, MigrationsTypeOK
<1>2. Locked'
    BY DEF RunSQL, MigrationsTypeOK, Locked, InTx
<1>3. Progress'
    BY DEF RunSQL, MigrationsTypeOK, Progress, InTx
<1>4. Missing'
    BY DEF RunSQL, MigrationsTypeOK, Missing, StaleSnapshot
<1>5. Once'
    BY DEF RunSQL, Once
<1> QED
    BY <1>1, <1>2, <1>3, <1>4, <1>5

\* A process that gives up, dies or starts again leaves the database as it was.
LEMMA FailureInv ==
    ASSUME MigInv, NEW p \in Procs, WriteRefused(p) \/ Crash(p) \/ Restart(p) PROVE MigInv'
<1> USE DEF MigInv
<1>1. /\ mig' \in {[mig EXCEPT ![p].pc = "failed"], [mig EXCEPT ![p] = [NewCall EXCEPT !.pc = "failed"]],
                   [mig EXCEPT ![p] = NewCall]}
      /\ UNCHANGED <<dialect, table, recorded, executed>>
      /\ lockHolder' \in {lockHolder, Release(p)}
    BY DEF WriteRefused, Crash, Restart
<1> DEFINE dead == [NewCall EXCEPT !.pc = "failed"]
<1>2. mig \in [Procs -> MigCall]
    BY DEF MigrationsTypeOK, MigCall
<1>3. /\ NewCall \in MigCall /\ dead \in MigCall /\ dead.pc = "failed" /\ NewCall.pc = "begin"
      /\ dead.applied = {} /\ NewCall.applied = {} /\ NewCall.version = 0
    BY DEF NewCall, MigCall
<1> HIDE DEF dead
<1>4. MigrationsTypeOK'
    <2>1. mig' \in [Procs -> MigCall]
        BY <1>1, <1>2, <1>3 DEF dead, MigCall
    <2> QED
        BY <1>1, <2>1 DEF MigrationsTypeOK, MigCall, Release
<1>5. /\ \A q \in Procs \ {p} : mig'[q] = mig[q]
      /\ mig'[p].pc \in {"failed", "begin"}
    <2>1. \A q \in Procs \ {p} : mig'[q] = mig[q]
        BY <1>1, <1>2
    <2>2. mig'[p].pc \in {"failed", "begin"}
        BY <1>1, <1>2, <1>3 DEF dead, MigCall
    <2> QED
        BY <2>1, <2>2
<1>6. /\ mig'[p].applied \in {mig[p].applied, {}}
      /\ mig'[p].pc = "begin" => mig'[p].version = 0
    BY <1>1, <1>2, <1>3 DEF dead, MigCall
<1>7. Locked'
    BY <1>1, <1>5 DEF Locked, InTx, Release
<1>8. Progress'
    BY <1>1, <1>5, <1>6 DEF Progress, InTx
<1>9. Missing'
    BY <1>1, <1>5 DEF Missing
<1>10. Once'
    BY <1>1 DEF Once
<1> QED
    BY <1>4, <1>7, <1>8, <1>9, <1>10

LEMMA AppliedVersionsInv ==
    ASSUME MigInv, NEW p \in Procs, appliedVersions(p) PROVE MigInv'
<1> USE DEF MigInv
<1> DEFINE n == NextVersion(0, recorded)
<1>1. n \in 1 .. (MaxVersion + 1) /\ \A w \in 1 .. (n - 1) : w \in recorded
    BY NextVersionIsNext DEF MigrationsTypeOK
<1>2. n \in Versions <=> n <= MaxVersion
    BY <1>1 DEF Versions, migrations, pgMigrations
<1>3. /\ mig' = [mig EXCEPT ![p].applied = recorded, ![p].version = n,
                            ![p].pc = IF n \in Versions THEN "begin" ELSE "done"]
      /\ UNCHANGED <<dialect, table, recorded, executed, lockHolder>>
    BY DEF appliedVersions
<1> HIDE DEF n
<1>4. MigrationsTypeOK'
    <2>1. mig' \in [Procs -> MigCall]
        <3>1. mig \in [Procs -> MigCall] /\ recorded \in SUBSET (1 .. MaxVersion)
            BY DEF MigrationsTypeOK, MigCall
        <3> DEFINE next == IF n \in Versions THEN "begin" ELSE "done"
        <3>2. next \in {"begin", "done"}
            OBVIOUS
        <3>3. mig' = [mig EXCEPT ![p].applied = recorded, ![p].version = n, ![p].pc = next]
            BY <1>3
        <3> HIDE DEF next
        <3>4. \A q \in Procs : q # p => mig'[q] = mig[q]
            BY <3>1, <3>3
        <3>5. mig'[p] = [pc |-> next, version |-> n, applied |-> recorded, snapshot |-> mig[p].snapshot]
            BY <3>1, <3>3 DEF MigCall
        <3>6. mig'[p] \in MigCall
            BY <1>1, <3>1, <3>2, <3>5 DEF MigCall
        <3>7. mig' = [q \in Procs |-> mig'[q]]
            BY <3>1, <3>3
        <3> QED
            BY <3>1, <3>4, <3>6, <3>7
    <2> QED
        BY <1>3, <2>1 DEF MigrationsTypeOK, MigCall
<1>5. Locked'
    BY <1>3 DEF MigrationsTypeOK, Locked, InTx
<1>6. Progress'
    <2>1. ~(n \in Versions) => recorded = 1 .. MaxVersion
        <3>1. recorded \subseteq 1 .. MaxVersion
            BY DEF MigrationsTypeOK
        <3>2. ~(n \in Versions) => n - 1 = MaxVersion
            BY <1>1, <1>2
        <3> QED
            BY <1>1, <3>1, <3>2
    <2> QED
        BY <1>1, <1>2, <1>3, <2>1 DEF MigrationsTypeOK, Progress, InTx
<1>7. Missing'
    BY <1>3 DEF MigrationsTypeOK, Missing
<1>8. Once'
    BY <1>3 DEF Once
<1> QED
    BY <1>4, <1>5, <1>6, <1>7, <1>8

LEMMA AlreadyAppliedInv ==
    ASSUME MigInv, NEW p \in Procs, AlreadyApplied(p) PROVE MigInv'
<1> USE DEF MigInv
<1>1. /\ mig[p].pc = "check" /\ Recorded(mig[p].version) /\ lockHolder' = Release(p) /\ Proceed(p)
      /\ UNCHANGED <<dialect, table, recorded, executed>>
    BY DEF AlreadyApplied
<1>2. mig[p].version <= MaxVersion /\ mig[p].version \in Nat /\ mig[p].applied \subseteq recorded
    BY <1>1 DEF Progress, InTx, MigrationsTypeOK
<1>3. 1 .. mig[p].version \subseteq recorded
    BY <1>1, <1>2 DEF Recorded, Once
<1> DEFINE pc == mig'[p].pc
           v == mig'[p].version
<1>4. /\ mig' = [mig EXCEPT ![p].pc = pc, ![p].version = v]
      /\ v \in 0 .. (MaxVersion + 1) /\ pc \in {"list", "begin", "done"}
      /\ pc = "list" => v = 0
      /\ pc = "begin" => v <= MaxVersion /\ 1 .. (v - 1) \subseteq recorded
      /\ pc = "done" => recorded = 1 .. MaxVersion
    BY <1>1, <1>2, <1>3, ProceedInv DEF MigrationsTypeOK
<1> HIDE DEF pc, v
<1>5. MigrationsTypeOK'
    BY <1>1, <1>4 DEF MigrationsTypeOK, Release
<1>6. Locked'
    BY <1>1, <1>4 DEF MigrationsTypeOK, Locked, InTx, Release
<1>7. Progress'
    BY <1>1, <1>4 DEF MigrationsTypeOK, Progress, InTx
<1>8. Missing'
    BY <1>1, <1>4 DEF MigrationsTypeOK, Missing
<1>9. Once'
    BY <1>1 DEF Once
<1> QED
    BY <1>5, <1>6, <1>7, <1>8, <1>9

\* The commit records a version that nobody has recorded, the next one of the log:
\* the lock kept everyone else out since the version was found missing.
LEMMA CommitInv ==
    ASSUME MigInv, NEW p \in Procs, Commit(p) PROVE MigInv'
<1> USE DEF MigInv
<1> DEFINE v0 == mig[p].version
           R == IF v0 = 0 THEN recorded ELSE recorded \cup {v0}
<1>1. /\ mig[p].pc = "commit" /\ table' = TRUE /\ recorded' = R /\ UNCHANGED dialect
      /\ executed' = IF v0 = 0 THEN executed ELSE [executed EXCEPT ![v0] = @ + 1]
      /\ lockHolder' = Release(p) /\ Proceed(p)
    BY DEF Commit
<1>2. /\ v0 \in 0 .. MaxVersion /\ 1 .. (v0 - 1) \subseteq recorded
      /\ v0 # 0 => v0 \notin recorded
    BY <1>1 DEF Progress, Missing, InTx, MigrationsTypeOK
<1>3. /\ R \in SUBSET (1 .. MaxVersion) /\ recorded \subseteq R
      /\ 1 .. v0 \subseteq R
    <2>1. recorded \subseteq 1 .. MaxVersion
        BY DEF MigrationsTypeOK
    <2>2. CASE v0 = 0
        BY <2>1, <2>2
    <2>3. CASE v0 # 0
        <3>1. \A w \in 1 .. v0 : w \in 1 .. (v0 - 1) \/ w = v0
            BY <1>2
        <3>2. R = recorded \cup {v0} /\ v0 \in 1 .. MaxVersion
            BY <1>2, <2>3
        <3> HIDE DEF R, v0
        <3> QED
            BY <1>2, <2>1, <3>1, <3>2
    <2> QED
        BY <2>2, <2>3
<1>4. lockHolder = p
    BY <1>1 DEF Locked, InTx, MigrationsTypeOK
<1>5. \A q \in Procs \ {p} : mig[q].pc # "commit" /\ ~(dialect = "postgres" /\ mig[q].pc \in InTx)
    BY <1>4 DEF Locked, InTx, MigrationsTypeOK
<1> DEFINE pc == mig'[p].pc
           v == mig'[p].version
<1>6. /\ mig' = [mig EXCEPT ![p].pc = pc, ![p].version = v]
      /\ v \in 0 .. (MaxVersion + 1) /\ pc \in {"list", "begin", "done"}
      /\ pc = "list" => v = 0
      /\ pc = "begin" => v <= MaxVersion /\ 1 .. (v - 1) \subseteq R
      /\ pc = "done" => R = 1 .. MaxVersion
    <2> HIDE DEF R
    <2>1. mig[p].applied \subseteq R
        BY <1>3 DEF Progress
    <2> QED
        BY <1>1, <1>2, <1>3, <2>1, ProceedInv DEF MigrationsTypeOK
<1> HIDE DEF pc, v
<1>7. MigrationsTypeOK'
    <2>1. executed' \in [1 .. MaxVersion -> Nat]
        BY <1>1, <1>2 DEF MigrationsTypeOK
    <2> HIDE DEF R
    <2>2. mig' \in [Procs -> MigCall]
        BY <1>6 DEF MigrationsTypeOK, MigCall
    <2> QED
        BY <1>1, <1>3, <2>1, <2>2 DEF MigrationsTypeOK, MigCall, Release
<1>8. Locked'
    BY <1>1, <1>5, <1>6 DEF MigrationsTypeOK, Locked, InTx, Release
<1>9. Progress'
    <2> HIDE DEF R
    <2>1. recorded = 1 .. MaxVersion => R = 1 .. MaxVersion
        BY <1>3
    <2> QED
        BY <1>1, <1>3, <1>6, <2>1 DEF MigrationsTypeOK, Progress, InTx
<1>10. Missing'
    BY <1>1, <1>5, <1>6 DEF MigrationsTypeOK, Missing, InTx
<1>11. Once'
    <2>1. \A w \in 1 .. MaxVersion : executed'[w] = IF w \in R THEN 1 ELSE 0
        BY <1>1, <1>2 DEF Once, MigrationsTypeOK
    <2>2. \A w \in R : 1 .. w \subseteq R
        BY <1>2, <1>3 DEF Once
    <2> QED
        BY <1>1, <2>1, <2>2 DEF Once
<1> QED
    BY <1>7, <1>8, <1>9, <1>10, <1>11

-----------------------------------------------------------------------------
LEMMA StepInv ==
    ASSUME MigInv, [MigrationsNext]_migVars PROVE MigInv'
<1>1. CASE UNCHANGED migVars
    BY <1>1 DEF migVars, MigInv, MigrationsTypeOK, Locked, Progress, Missing, Once
<1>2. ASSUME NEW p \in Procs,
             \/ BeginTx(p) \/ AlreadyApplied(p) \/ NotApplied(p) \/ RunSQL(p)
             \/ WriteRefused(p) \/ Commit(p) \/ appliedVersions(p)
             \/ Crash(p) \/ Restart(p)
      PROVE  MigInv'
    BY <1>2, BeginTxInv, AlreadyAppliedInv, NotAppliedInv, RunSQLInv, CommitInv, AppliedVersionsInv,
       FailureInv
<1> QED
    BY <1>1, <1>2 DEF MigrationsNext

\* However many processes open the database at once, crash and start again, every
\* migration of the list is committed exactly once, none before its predecessors, and
\* a process that opens the store finds them all (runMigrations), on both dialects.
THEOREM MigrationsApplyOnce == MigrationsSpec => []MigratedOnce
<1>1. MigrationsInit => MigInv
    BY InitInv
<1>2. MigInv /\ [MigrationsNext]_migVars => MigInv'
    BY StepInv
<1>3. MigInv => MigratedOnce
    BY DEF MigInv, Once, Progress, MigratedOnce
<1> QED
    BY <1>1, <1>2, <1>3, PTL DEF MigrationsSpec

\* The calls, the log of versions and the lock keep their types.
THEOREM MigrationsTypeCorrect == MigrationsSpec => []MigrationsTypeOK
<1>1. MigrationsInit => MigInv
    BY InitInv
<1>2. MigInv /\ [MigrationsNext]_migVars => MigInv'
    BY StepInv
<1>3. MigInv => MigrationsTypeOK
    BY DEF MigInv
<1> QED
    BY <1>1, <1>2, <1>3, PTL DEF MigrationsSpec
==============================================================================
