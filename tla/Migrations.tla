------------------------------ MODULE Migrations -------------------------------
(***************************************************************************)
(* runMigrations() of packages/cos-plus/src/migrations.ts, run by the jobs *)
(* of ConnectionPool, and the database it works on.                        *)
(*                                                                         *)
(* PostgreSQL is external.  The statements of one query are one            *)
(* transaction unless they say otherwise.  Files 001 to 006 begin and      *)
(* commit a transaction themselves: with them the runner's transaction is  *)
(* over before the row of schema_migrations is inserted, which is then a   *)
(* transaction of its own.  The names are unique: an insert waits for a    *)
(* transaction that has inserted the same name, and fails after it.  A     *)
(* statement whose connection breaks or whose process ends may still take  *)
(* effect, at any later time.                                              *)
(***************************************************************************)
EXTENDS ConnectionPool

CONSTANTS
    NumFiles,           \* the files, in the order of their names
    SelfCommitting,     \* those with a COMMIT of their own
    MaxFaults           \* statements that fail, answers that are lost, and crashes, at most

ASSUME MigrationsAssumption ==
    /\ NumFiles \in Nat
    /\ SelfCommitting \subseteq 1 .. NumFiles
    /\ MaxFaults \in Nat

VARIABLES
    table,          \* schema_migrations exists
    recorded,       \* the names in it
    executed,       \* file -> how often its statements took effect
    appliedNames,   \* job -> the names that were there when it looked
    file,           \* job -> the index of its loop
    told,           \* a job returned without a failed file
    orphans,        \* statements that nobody waits for
    faults,         \* bounded
    shared          \* history: two jobs migrated at once

migrationVars == <<table, recorded, executed, appliedNames, file, told, orphans, faults, shared>>
vars == <<poolVars, migrationVars>>

Files == 1 .. NumFiles

Init ==
    /\ PoolInit
    /\ table = FALSE
    /\ recorded = {}
    /\ executed = [f \in Files |-> 0]
    /\ appliedNames = [j \in Jobs |-> {}]
    /\ file = [j \in Jobs |-> 1]
    /\ told = FALSE
    /\ orphans = {}
    /\ faults = 0
    /\ shared = FALSE

Migrating == { j \in Jobs : pc[j] \in {"status", "next", "content", "insert", "commit", "rollback"} }

\* pg refuses a query and a client of a pool that is ending: runMigrations() throws.
Refused(j) ==
    /\ At(j, "ready") \/ At(j, "status") \/ (At(j, "next") /\ file[j] \in Files \ appliedNames[j])
    /\ ~ IsOpen(using[j])
    /\ Goto(j, "finished")
    /\ UNCHANGED <<attempt, using, pool, held, poolInstance, poolConfig, overlapped, migrationVars>>

-------------------------------------------------------------------------------
(* Before the loop.                                                        *)

CreateMigrationTable(j) ==
    /\ At(j, "ready") /\ IsOpen(using[j])
    /\ table' = TRUE
    /\ Goto(j, "status")
    /\ shared' = (shared \/ Migrating # {})
    /\ UNCHANGED <<attempt, using, pool, held, poolInstance, poolConfig, overlapped>>
    /\ UNCHANGED <<recorded, executed, appliedNames, file, told, orphans, faults>>

GetMigrationStatus(j) ==
    /\ At(j, "status") /\ IsOpen(using[j])
    /\ table
    /\ appliedNames' = [appliedNames EXCEPT ![j] = recorded]
    /\ Goto(j, "next")
    /\ UNCHANGED <<attempt, using, pool, held, poolInstance, poolConfig, overlapped>>
    /\ UNCHANGED <<table, recorded, executed, file, told, orphans, faults, shared>>

-------------------------------------------------------------------------------
(* The loop.                                                               *)

Current(j, label) == At(j, label) /\ file[j] \in Files

Skip(j) ==
    /\ Current(j, "next") /\ file[j] \in appliedNames[j]
    /\ file' = [file EXCEPT ![j] = @ + 1]
    /\ UNCHANGED <<poolVars, table, recorded, executed, appliedNames, told, orphans, faults, shared>>

\* connect() and BEGIN, which changes nothing that others see.
Begin(j) ==
    /\ Current(j, "next") /\ file[j] \notin appliedNames[j]
    /\ IsOpen(using[j])
    /\ held' = [held EXCEPT ![using[j]] = @ \cup {j}]
    /\ Goto(j, "content")
    /\ UNCHANGED <<attempt, using, pool, poolInstance, poolConfig, overlapped, migrationVars>>

\* The statements of a file without COMMIT take effect with the COMMIT of the runner.
Execute(j) ==
    /\ At(j, "content")
    /\ executed' = IF file[j] \in SelfCommitting THEN [executed EXCEPT ![file[j]] = @ + 1] ELSE executed
    /\ Goto(j, "insert")
    /\ UNCHANGED <<attempt, using, pool, held, poolInstance, poolConfig, overlapped>>
    /\ UNCHANGED <<table, recorded, appliedNames, file, told, orphans, faults, shared>>

\* Somebody has inserted the name and not yet committed.
NameLocked(f) ==
    /\ f \notin SelfCommitting
    /\ \/ \E k \in Jobs : At(k, "commit") /\ file[k] = f
       \/ \E o \in orphans : o.file = f

\* Mutant: the names are not unique.
InsertAnyway(j) ==
    /\ At(j, "insert")
    /\ recorded' = IF file[j] \in SelfCommitting THEN recorded \cup {file[j]} ELSE recorded
    /\ Goto(j, "commit")
    /\ UNCHANGED <<attempt, using, pool, held, poolInstance, poolConfig, overlapped>>
    /\ UNCHANGED <<table, executed, appliedNames, file, told, orphans, faults, shared>>

InsertRow(j) ==
    /\ At(j, "insert")
    /\ ~ NameLocked(file[j]) /\ file[j] \notin recorded
    /\ recorded' = IF file[j] \in SelfCommitting THEN recorded \cup {file[j]} ELSE recorded
    /\ Goto(j, "commit")
    /\ UNCHANGED <<attempt, using, pool, held, poolInstance, poolConfig, overlapped>>
    /\ UNCHANGED <<table, executed, appliedNames, file, told, orphans, faults, shared>>

NameTaken(j) ==
    /\ At(j, "insert")
    /\ ~ NameLocked(file[j]) /\ file[j] \in recorded
    /\ Goto(j, "rollback")
    /\ UNCHANGED <<attempt, using, pool, held, poolInstance, poolConfig, overlapped, migrationVars>>

\* Executes what is still open of the transaction for f.
TakesEffect(f) ==
    /\ executed' = IF f \in SelfCommitting THEN executed ELSE [executed EXCEPT ![f] = @ + 1]
    /\ recorded' = recorded \cup {f}

Releases(j) == held' = [held EXCEPT ![using[j]] = @ \ {j}]

Commit(j) ==
    /\ At(j, "commit")
    /\ TakesEffect(file[j])
    /\ Releases(j)
    /\ file' = [file EXCEPT ![j] = @ + 1]
    /\ Goto(j, "next")
    /\ UNCHANGED <<attempt, using, pool, poolInstance, poolConfig, overlapped>>
    /\ UNCHANGED <<table, appliedNames, told, orphans, faults, shared>>

\* Mutant: a failure keeps the client.
RollbackAndKeep(j) ==
    /\ At(j, "rollback")
    /\ Goto(j, "finished")
    /\ UNCHANGED <<attempt, using, pool, held, poolInstance, poolConfig, overlapped, migrationVars>>

\* Mutant: a failure does not end the loop.
RollbackAndGoOn(j) ==
    /\ At(j, "rollback")
    /\ Releases(j)
    /\ file' = [file EXCEPT ![j] = @ + 1]
    /\ Goto(j, "next")
    /\ UNCHANGED <<attempt, using, pool, poolInstance, poolConfig, overlapped>>
    /\ UNCHANGED <<table, recorded, executed, appliedNames, told, orphans, faults, shared>>

Rollback(j) ==
    /\ At(j, "rollback")
    /\ Releases(j)
    /\ Goto(j, "finished")
    /\ UNCHANGED <<attempt, using, pool, poolInstance, poolConfig, overlapped, migrationVars>>

Return(j) ==
    /\ At(j, "next") /\ file[j] \notin Files
    /\ told' = TRUE
    /\ Goto(j, "finished")
    /\ UNCHANGED <<attempt, using, pool, held, poolInstance, poolConfig, overlapped>>
    /\ UNCHANGED <<table, recorded, executed, appliedNames, file, orphans, faults, shared>>

-------------------------------------------------------------------------------
(* Failures.                                                               *)

Fault == faults < MaxFaults /\ faults' = faults + 1

\* The statement of j in flight, if it can change something after j has gone.
InFlight(j) ==
    CASE At(j, "content") /\ file[j] \in SelfCommitting ->
            {[job |-> j, file |-> file[j], does |-> "execute"]}
      [] At(j, "insert") /\ file[j] \in SelfCommitting ->
            {[job |-> j, file |-> file[j], does |-> "record"]}
      [] At(j, "commit") /\ file[j] \notin SelfCommitting ->
            {[job |-> j, file |-> file[j], does |-> "commit"]}
      [] OTHER -> {}

\* The answer says so, or does not come: then the statement may take effect later.
StatementFails(j) ==
    /\ pc[j] \in {"content", "insert", "commit"}
    /\ Fault
    /\ orphans' \in {orphans, orphans \cup InFlight(j)}
    /\ Goto(j, "rollback")
    /\ UNCHANGED <<attempt, using, pool, held, poolInstance, poolConfig, overlapped>>
    /\ UNCHANGED <<table, recorded, executed, appliedNames, file, told, shared>>

OrphanActs(o) ==
    /\ orphans' = orphans \ {o}
    /\ IF o.does = "execute"
       THEN executed' = [executed EXCEPT ![o.file] = @ + 1] /\ UNCHANGED recorded
       ELSE TakesEffect(o.file)
    /\ UNCHANGED <<poolVars, table, appliedNames, file, told, faults, shared>>

OrphanFails(o) ==
    /\ orphans' = orphans \ {o}
    /\ UNCHANGED <<poolVars, table, recorded, executed, appliedNames, file, told, faults, shared>>

\* Queries before the loop that fail: runMigrations() throws.
QueryFails(j) ==
    /\ At(j, "ready") \/ At(j, "status")
    /\ Fault
    /\ Goto(j, "finished")
    /\ UNCHANGED <<attempt, using, pool, held, poolInstance, poolConfig, overlapped>>
    /\ UNCHANGED <<table, recorded, executed, appliedNames, file, told, orphans, shared>>

Crash ==
    /\ Fault
    /\ ProcessEnds
    /\ orphans' = orphans \cup UNION { InFlight(j) : j \in Jobs }
    /\ UNCHANGED <<table, recorded, executed, appliedNames, file, told, shared>>

-------------------------------------------------------------------------------

Advance(j) ==
    \/ PoolStep(j) /\ UNCHANGED migrationVars
    \/ Refused(j) \/ CreateMigrationTable(j) \/ GetMigrationStatus(j)
    \/ Skip(j) \/ Begin(j) \/ Execute(j) \/ InsertRow(j) \/ NameTaken(j) \/ Commit(j)
    \/ Rollback(j) \/ Return(j)

OrphanEnds == \E o \in orphans : OrphanActs(o) \/ OrphanFails(o)

Next ==
    \/ \E j \in Jobs : Advance(j) \/ StatementFails(j) \/ QueryFails(j)
    \/ OrphanEnds
    \/ Crash

\* Timers, the network and PostgreSQL go on; nothing has to fail.
Fairness == WF_vars(OrphanEnds) /\ \A j \in Jobs : WF_vars(Advance(j))

Spec == Init /\ [][Next]_vars /\ Fairness

================================================================================
