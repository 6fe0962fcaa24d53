----------------------------- MODULE Migrations -----------------------------
(***************************************************************************)
(* Schema migrations (internal/store/migrate.go) run by several processes  *)
(* that open one database at the same time.  A migration is one            *)
(* transaction: take the dialect's lock when it has one, look again whether *)
(* the version is recorded, run the SQL, record the version, commit.       *)
(*                                                                         *)
(* Postgres serialises the transactions with an advisory lock.  SQLite has *)
(* no such lock: a transaction begins with a read, and its first write     *)
(* fails when another process has committed since that read, or when the   *)
(* other still holds the write lock after busy_timeout.                    *)
(***************************************************************************)
EXTENDS Naturals, FiniteSets

CONSTANTS
    Procs,          \* processes that open the store
    MaxVersion,     \* number of migrations in the list
    NoProc          \* nobody holds the lock

ASSUME MigrationsAssumption ==
    /\ MaxVersion \in Nat
    /\ NoProc \notin Procs

VARIABLES
    dialect,        \* the database the processes share
    table,          \* schema_migrations exists
    recorded,       \* versions recorded in schema_migrations
    executed,       \* history: how often the SQL of a version was committed
    lockHolder,     \* advisory lock or SQLite write lock
    mig             \* the runMigrations call of each process

migVars == <<dialect, table, recorded, executed, lockHolder, mig>>

\* The two lists of migrations have the same versions.
migrations == 1..MaxVersion
pgMigrations == 1..MaxVersion
Versions == IF dialect = "sqlite" THEN migrations ELSE pgMigrations

\* Version 0 stands for the transaction that creates schema_migrations.
NewCall == [pc |-> "begin", version |-> 0, applied |-> {}, snapshot |-> {}]

MigrationsInit ==
    /\ dialect \in {"sqlite", "postgres"}
    /\ table = FALSE
    /\ recorded = {}
    /\ executed = [v \in 1..MaxVersion |-> 0]
    /\ lockHolder = NoProc
    /\ mig = [p \in Procs |-> NewCall]

\* The first version after v that the call did not see recorded.
NextVersion(v, applied) ==
    LET left == {w \in Versions : w > v /\ w \notin applied}
    IN  IF left = {} THEN MaxVersion + 1 ELSE CHOOSE w \in left : \A x \in left : w <= x

\* inMigrationTx has committed version v of process p; runMigrations goes on,
\* after the bootstrap by reading what is applied.
Proceed(p) ==
    LET v == mig[p].version
        next == NextVersion(v, mig[p].applied)
    IN  mig' = [mig EXCEPT ![p].pc = IF v = 0 THEN "list"
                                     ELSE IF next \in Versions THEN "begin" ELSE "done",
                           ![p].version = IF v = 0 THEN 0 ELSE next]

\* BeginTx, and the dialect's Lock when it has one.
BeginTx(p) ==
    /\ mig[p].pc = "begin"
    /\ IF dialect = "postgres"
       THEN lockHolder = NoProc /\ lockHolder' = p
       ELSE UNCHANGED lockHolder
    /\ mig' = [mig EXCEPT ![p].pc = "check"]
    /\ UNCHANGED <<dialect, table, recorded, executed>>

\* (mutant) The version is not looked up again inside the transaction.
NoRecheck(v) == v = 0 /\ table

Recorded(v) == IF v = 0 THEN table ELSE v \in recorded

Release(p) == IF lockHolder = p THEN NoProc ELSE lockHolder

\* applyMigration: another process recorded the version meanwhile (for the
\* bootstrap: IF NOT EXISTS).  The transaction commits nothing.
AlreadyApplied(p) ==
    /\ mig[p].pc = "check"
    /\ Recorded(mig[p].version)
    /\ lockHolder' = Release(p)
    /\ Proceed(p)
    /\ UNCHANGED <<dialect, table, recorded, executed>>

\* applyMigration: not recorded.  On SQLite this read fixes the snapshot the
\* transaction sees; the bootstrap reads nothing before it writes.
NotApplied(p) ==
    /\ mig[p].pc = "check"
    /\ ~Recorded(mig[p].version)
    /\ mig' = [mig EXCEPT ![p].pc = "run", ![p].snapshot = recorded]
    /\ UNCHANGED <<dialect, table, recorded, executed, lockHolder>>

StaleSnapshot(p) == mig[p].version # 0 /\ mig[p].snapshot # recorded

\* The first write of the transaction: m.SQL, or CREATE TABLE.
RunSQL(p) ==
    /\ mig[p].pc = "run"
    /\ IF dialect = "sqlite"
       THEN ~StaleSnapshot(p) /\ lockHolder = NoProc /\ lockHolder' = p
       ELSE UNCHANGED lockHolder
    /\ mig' = [mig EXCEPT ![p].pc = "commit"]
    /\ UNCHANGED <<dialect, table, recorded, executed>>

\* SQLITE_BUSY: the snapshot is stale, or the write lock was not free in time.
WriteRefused(p) ==
    /\ mig[p].pc = "run"
    /\ dialect = "sqlite"
    /\ StaleSnapshot(p) \/ lockHolder # NoProc
    /\ mig' = [mig EXCEPT ![p].pc = "failed"]
    /\ UNCHANGED <<dialect, table, recorded, executed, lockHolder>>

\* INSERT INTO schema_migrations and Commit.  A table that appeared while the
\* bootstrap waited for the write lock is left alone.
Commit(p) ==
    LET v == mig[p].version IN
    /\ mig[p].pc = "commit"
    /\ table' = TRUE
    /\ recorded' = IF v = 0 THEN recorded ELSE recorded \cup {v}
    /\ executed' = IF v = 0 THEN executed ELSE [executed EXCEPT ![v] = @ + 1]
    /\ lockHolder' = Release(p)
    /\ Proceed(p)
    /\ UNCHANGED dialect

\* appliedVersions: read once, outside any transaction.
appliedVersions(p) ==
    LET next == NextVersion(0, recorded) IN
    /\ mig[p].pc = "list"
    /\ mig' = [mig EXCEPT ![p].applied = recorded,
                          ![p].version = next,
                          ![p].pc = IF next \in Versions THEN "begin" ELSE "done"]
    /\ UNCHANGED <<dialect, table, recorded, executed, lockHolder>>

\* The process is killed or loses its connection: the transaction rolls back
\* and its lock is released.  It may start again.
Crash(p) ==
    /\ mig[p].pc \notin {"done", "failed"}
    /\ lockHolder' = Release(p)
    /\ mig' = [mig EXCEPT ![p] = [NewCall EXCEPT !.pc = "failed"]]
    /\ UNCHANGED <<dialect, table, recorded, executed>>

Restart(p) ==
    /\ mig[p].pc = "failed"
    /\ mig' = [mig EXCEPT ![p] = NewCall]
    /\ UNCHANGED <<dialect, table, recorded, executed, lockHolder>>

MigrationsNext ==
    \E p \in Procs :
        \/ BeginTx(p) \/ AlreadyApplied(p) \/ NotApplied(p) \/ RunSQL(p)
        \/ WriteRefused(p) \/ Commit(p) \/ appliedVersions(p)
        \/ Crash(p) \/ Restart(p)

MigrationsSpec == MigrationsInit /\ [][MigrationsNext]_migVars

-----------------------------------------------------------------------------
MigrationsTypeOK ==
    /\ dialect \in {"sqlite", "postgres"}
    /\ table \in BOOLEAN
    /\ recorded \subseteq 1..MaxVersion
    /\ executed \in [1..MaxVersion -> Nat]
    /\ lockHolder \in Procs \cup {NoProc}
    /\ mig \in [Procs -> [pc : {"begin", "check", "run", "commit", "list", "done", "failed"},
                          version : 0..(MaxVersion + 1),
                          applied : SUBSET (1..MaxVersion),
                          snapshot : SUBSET (1..MaxVersion)]]

\* Every version applies exactly once, in the order of the list, whatever the
\* interleaving of processes and crashes; and a process that has finished
\* finds every version applied.  (runMigrations: "every version applies
\* exactly once".)
MigratedOnce ==
    /\ \A v \in 1..MaxVersion : executed[v] = IF v \in recorded THEN 1 ELSE 0
    /\ \A v \in recorded : 1..v \subseteq recorded
    /\ \A p \in Procs : mig[p].pc = "done" => recorded = 1..MaxVersion
=============================================================================
