---------------------------- MODULE MigrationsProofs ----------------------------
(***************************************************************************)
(* Proofs about Migrations and the ConnectionPool it extends, for every    *)
(* number of jobs, files, retries and faults.                              *)
(***************************************************************************)
EXTENDS MigrationsProperties, FiniteSetTheorems, TLAPS

LoopLabels == {"next", "content", "insert", "commit"}

Labels == {"idle", "connecting", "ready", "status", "rollback", "finished", "closing", "done", "hangs"}
              \cup LoopLabels

PoolStates == {"none", "trying", "open", "ending", "ended"}

Orphan == [job : Jobs, file : Files, does : {"execute", "record", "commit"}]

\* Every variable that the proofs read keeps its type.
TypeOK ==
    /\ pc \in [Jobs -> Labels]
    /\ using \in [Jobs -> Jobs \cup {None}]
    /\ pool \in [Jobs -> PoolStates]
    /\ poolInstance \in Jobs \cup {None}
    /\ overlapped \subseteq Jobs
    /\ recorded \subseteq Files
    /\ executed \in [Files -> Nat]
    /\ appliedNames \in [Jobs -> SUBSET Files]
    /\ file \in [Jobs -> Nat \ {0}]
    /\ orphans \subseteq Orphan
    /\ faults \in Nat
    /\ shared \in BOOLEAN

-------------------------------------------------------------------------------
(* The pool.                                                               *)

(***************************************************************************)
(* Two jobs that connect at once are known to overlap; while a pool that   *)
(* did not is open, it is the one of getPool() and nobody connects; what   *)
(* getPool() returns is open, or about to be reset.                        *)
(***************************************************************************)
PoolInv ==
    /\ \A j \in Connecting : pool[j] = "trying"
    /\ \A j, k \in Connecting : j # k => j \in overlapped
    /\ \A p \in Jobs \ overlapped : IsOpen(p) => poolInstance = p /\ Connecting = {}
    /\ poolInstance # None =>
          IsOpen(poolInstance) \/ \E j \in Jobs : At(j, "closing") /\ using[j] = poolInstance

-------------------------------------------------------------------------------
(* The order of the files.                                                 *)

\* Whoever works on a file has those before it recorded.
InOrder ==
    /\ \A j \in Jobs : 1 .. (file[j] - 1) \subseteq recorded /\ appliedNames[j] \subseteq recorded
    /\ \A j \in Jobs : pc[j] \in {"content", "insert", "commit"} =>
          file[j] \in Files \ appliedNames[j]
    /\ \A o \in orphans : 1 .. (o.file - 1) \subseteq recorded

\* What is inserted, by a job or behind its back, was executed.
ExecutedFirst ==
    /\ \A j \in Jobs : file[j] \in SelfCommitting =>
          /\ At(j, "insert") => executed[file[j]] > 0
          /\ At(j, "commit") => file[j] \in recorded
    /\ \A o \in orphans :
          /\ o.does = "commit" <=> o.file \notin SelfCommitting
          /\ o.does = "record" => executed[o.file] > 0

-------------------------------------------------------------------------------
(* How often a file is executed.                                           *)

Committing(f) == { j \in Jobs : At(j, "commit") /\ file[j] = f }
Abandoned(f) == { o \in orphans : o.file = f }

(***************************************************************************)
(* The unique name stands for the file: at most one transaction that holds *)
(* it is open, with a job or without one, and only before it is recorded.  *)
(***************************************************************************)
NamesUnique ==
    \A f \in Files \ SelfCommitting :
        /\ executed[f] = IF f \in recorded THEN 1 ELSE 0
        /\ f \in recorded => Committing(f) = {} /\ Abandoned(f) = {}
        /\ \A j, k \in Committing(f) : j = k
        /\ \A o, q \in Abandoned(f) : o = q
        /\ Committing(f) = {} \/ Abandoned(f) = {}

\* Executions of f that nobody waits for.
Executing(f) == { o \in orphans : o.file = f /\ o.does = "execute" }

\* Job j has f still before it.
Ahead(j, f) ==
    /\ pc[j] \in LoopLabels /\ f \notin appliedNames[j]
    /\ file[j] < f \/ (file[j] = f /\ pc[j] \in {"next", "content"})

\* Somebody may execute f again.
Open(f) ==
    \/ f \notin recorded /\ ~ \E j \in Jobs : At(j, "insert") /\ file[j] = f
    \/ \E j \in Jobs : Ahead(j, f)

(***************************************************************************)
(* While jobs migrate one at a time, an execution is the last one of its   *)
(* file or a fault follows it or has gone before.                          *)
(***************************************************************************)
FaultsCount ==
    ~ shared =>
        /\ \A j, k \in Migrating : j = k
        /\ \A f \in SelfCommitting :
              /\ IsFiniteSet(Executing(f))
              /\ executed[f] + Cardinality(Executing(f)) <= faults + 1
              /\ Open(f) => executed[f] + Cardinality(Executing(f)) <= faults

IndInv == TypeOK /\ PoolInv /\ InOrder /\ ExecutedFirst /\ NamesUnique /\ FaultsCount

-------------------------------------------------------------------------------
(* Types.                                                                  *)

\* What a statement in flight can still do.
LEMMA InFlightIs ==
    ASSUME TypeOK, InOrder, NEW j \in Jobs, NEW o \in InFlight(j)
    PROVE  /\ o \in Orphan /\ o.job = j /\ o.file = file[j]
           /\ \/ o.does = "execute" /\ At(j, "content") /\ file[j] \in SelfCommitting
              \/ o.does = "record" /\ At(j, "insert") /\ file[j] \in SelfCommitting
              \/ o.does = "commit" /\ At(j, "commit") /\ file[j] \notin SelfCommitting
<1>1. CASE At(j, "content") /\ file[j] \in SelfCommitting
  BY <1>1 DEF InFlight, At, Orphan, InOrder
<1>2. CASE At(j, "insert") /\ file[j] \in SelfCommitting
  BY <1>2 DEF InFlight, At, Orphan, InOrder
<1>3. CASE At(j, "commit") /\ file[j] \notin SelfCommitting
  BY <1>3 DEF InFlight, At, Orphan, InOrder
<1>4. CASE /\ ~ (At(j, "content") /\ file[j] \in SelfCommitting)
           /\ ~ (At(j, "insert") /\ file[j] \in SelfCommitting)
           /\ ~ (At(j, "commit") /\ file[j] \notin SelfCommitting)
  BY <1>4 DEF InFlight
<1>5. QED
  BY <1>1, <1>2, <1>3, <1>4

LEMMA PoolTypeStep ==
    ASSUME TypeOK, NEW j \in Jobs, PoolStep(j), UNCHANGED migrationVars
    PROVE  TypeOK'
<1> USE DEF TypeOK, Labels, LoopLabels, PoolStates, Goto, migrationVars
<1>1. CASE CreatePool(j) \/ GetPool(j) \/ Leave(j) \/ PoolEnds(j)
  BY <1>1 DEF CreatePool, GetPool, Leave, PoolEnds, Connecting
<1>2. CASE ConnectFails(j) \/ FirstQueryFails(j) \/ Connected(j)
  BY <1>2 DEF ConnectFails, FirstQueryFails, Connected
<1>3. CASE ClosePool(j)
  BY <1>3 DEF ClosePool, EndPool
<1>4. CASE ClosePoolEnds(j)
  BY <1>4 DEF ClosePoolEnds
<1>5. QED
  BY <1>1, <1>2, <1>3, <1>4 DEF PoolStep

\* The steps of a job that migrates.
MigrationStep(j) ==
    \/ Refused(j) \/ CreateMigrationTable(j) \/ GetMigrationStatus(j)
    \/ Skip(j) \/ Begin(j) \/ Execute(j) \/ InsertRow(j) \/ NameTaken(j) \/ Commit(j)
    \/ Rollback(j) \/ Return(j)
    \/ StatementFails(j) \/ QueryFails(j)

LEMMA MigrationTypeStep ==
    ASSUME TypeOK, InOrder, NEW j \in Jobs, MigrationStep(j)
    PROVE  TypeOK'
<1> USE DEF TypeOK, Labels, LoopLabels, Goto, At, migrationVars, poolVars
<1>1. CASE Refused(j) \/ GetMigrationStatus(j) \/ Skip(j) \/ Begin(j) \/ NameTaken(j) \/ Rollback(j) \/ Return(j)
  BY <1>1 DEF Refused, GetMigrationStatus, Skip, Begin, NameTaken, Rollback, Return
<1>2. CASE CreateMigrationTable(j)
  <2>1. shared' \in BOOLEAN
    BY <1>2 DEF CreateMigrationTable
  <2>2. QED
    BY <1>2, <2>1 DEF CreateMigrationTable
<1>3. CASE QueryFails(j)
  BY <1>3 DEF QueryFails, Fault
<1>4. CASE Execute(j)
  BY <1>4 DEF Execute, InOrder
<1>5. CASE InsertRow(j)
  BY <1>5 DEF InsertRow, InOrder
<1>6. CASE Commit(j)
  BY <1>6 DEF Commit, TakesEffect, InOrder
<1>7. CASE StatementFails(j)
  <2>1. orphans' \subseteq Orphan
    BY <1>7, InFlightIs DEF StatementFails
  <2>2. QED
    BY <1>7, <2>1 DEF StatementFails, Fault
<1>8. QED
  BY <1>1, <1>2, <1>3, <1>4, <1>5, <1>6, <1>7 DEF MigrationStep

LEMMA NextCases ==
    ASSUME Next
    PROVE  \/ \E j \in Jobs : PoolStep(j) /\ UNCHANGED migrationVars
           \/ \E j \in Jobs : MigrationStep(j)
           \/ \E o \in orphans : OrphanActs(o) \/ OrphanFails(o)
           \/ Crash
BY DEF Next, Advance, OrphanEnds, MigrationStep

LEMMA TypeStep == TypeOK /\ InOrder /\ [Next]_vars => TypeOK'
<1> SUFFICES ASSUME TypeOK, InOrder, [Next]_vars PROVE TypeOK'
  OBVIOUS
<1> USE DEF TypeOK
<1>1. ASSUME NEW o \in orphans, OrphanActs(o) \/ OrphanFails(o) PROVE TypeOK'
  BY <1>1 DEF OrphanActs, OrphanFails, TakesEffect, Orphan, poolVars
<1>2. CASE Crash
  <2>1. orphans' \subseteq Orphan
    BY <1>2, InFlightIs DEF Crash
  <2>2. QED
    BY <1>2, <2>1 DEF Crash, Fault, ProcessEnds, Labels, PoolStates
<1>3. CASE UNCHANGED vars
  BY <1>3 DEF vars, poolVars, migrationVars
<1>4. QED
  BY <1>1, <1>2, <1>3, NextCases, PoolTypeStep, MigrationTypeStep

-------------------------------------------------------------------------------
(* The pool.                                                               *)

\* A step that neither connects nor closes leaves the pool alone.
LEMMA PoolKept ==
    ASSUME TypeOK, PoolInv, UNCHANGED <<using, pool, poolInstance, overlapped>>,
           \A j \in Jobs : pc'[j] = pc[j] \/ {pc[j], pc'[j]} \cap {"connecting", "closing"} = {}
    PROVE  PoolInv'
<1>1. Connecting' = Connecting
  BY DEF Connecting
<1>2. \A j \in Jobs : At(j, "closing") => At(j, "closing")'
  BY DEF At
<1>3. QED
  BY <1>1, <1>2 DEF PoolInv, IsOpen

LEMMA PoolInvStep ==
    ASSUME TypeOK, PoolInv, NEW j \in Jobs, PoolStep(j)
    PROVE  PoolInv'
<1> USE ConnectionPoolAssumption DEF TypeOK, At, Goto, IsOpen
<1>1. CASE CreatePool(j)
  <2>1. Connecting' = Connecting \cup {j} /\ poolInstance = None /\ poolInstance' = None
    BY <1>1 DEF CreatePool, Connecting
  <2>2. \A p \in Jobs \ overlapped' : ~ IsOpen(p)'
    BY <1>1 DEF CreatePool, PoolInv
  <2>3. \A k \in Connecting' : pool'[k] = "trying"
    BY <1>1, <2>1 DEF CreatePool, PoolInv, Connecting
  <2>4. \A k, l \in Connecting' : k # l => k \in overlapped'
    BY <1>1, <2>1 DEF CreatePool, PoolInv
  <2>5. QED
    BY <2>1, <2>2, <2>3, <2>4 DEF PoolInv
<1>2. CASE GetPool(j) \/ Leave(j)
  <2>1. Connecting' = Connecting
    BY <1>2 DEF GetPool, Leave, Connecting
  <2>2. QED
    BY <1>2, <2>1 DEF GetPool, Leave, PoolInv
<1>3. CASE ConnectFails(j)
  <2>1. CASE attempt[j] < MaxRetries
    BY <1>3, <2>1, PoolKept DEF ConnectFails
  <2>2. CASE ~ (attempt[j] < MaxRetries)
    <3>1. Connecting' = Connecting \ {j} /\ j \in Connecting
      BY <1>3, <2>2 DEF ConnectFails, Connecting
    <3>2. QED
      BY <1>3, <2>2, <3>1 DEF ConnectFails, PoolInv, Connecting
  <2>3. QED
    BY <2>1, <2>2
<1>4. CASE FirstQueryFails(j)
  <2>1. Connecting' = Connecting \ {j} /\ j \in Connecting
    BY <1>4 DEF FirstQueryFails, Connecting
  <2>2. QED
    BY <1>4, <2>1 DEF FirstQueryFails, PoolInv, Connecting
<1>5. CASE Connected(j)
  <2>1. Connecting' = Connecting \ {j} /\ j \in Connecting
    BY <1>5 DEF Connected, Connecting
  <2>2. \A p \in Jobs \ overlapped : ~ IsOpen(p)
    BY <2>1 DEF PoolInv
  <2>3. j \notin overlapped => Connecting = {j}
    BY <2>1 DEF PoolInv
  <2>4. QED
    BY <1>5, <2>1, <2>2, <2>3 DEF Connected, PoolInv, Connecting
<1>6. CASE ClosePool(j)
  <2>1. Connecting' = Connecting
    BY <1>6 DEF ClosePool, EndPool, Connecting
  <2>2. PICK p \in Jobs : \/ IsOpen(p) /\ EndPool(j, p)
                          \/ Goto(j, "done") /\ UNCHANGED <<pool, using>>
    BY <1>6 DEF ClosePool
  <2>3. UNCHANGED <<poolInstance, overlapped>> /\ At(j, "finished")
    BY <1>6 DEF ClosePool
  <2>4. CASE IsOpen(p) /\ EndPool(j, p)
    BY <2>1, <2>3, <2>4 DEF EndPool, PoolInv, Connecting
  <2>5. CASE Goto(j, "done") /\ UNCHANGED <<pool, using>>
    BY <2>1, <2>3, <2>5, PoolKept
  <2>6. QED
    BY <2>2, <2>4, <2>5
<1>7. CASE PoolEnds(j)
  <2>1. Connecting' = Connecting
    BY <1>7 DEF PoolEnds, Connecting
  <2>2. QED
    BY <1>7, <2>1 DEF PoolEnds, PoolInv, Connecting
<1>8. CASE ClosePoolEnds(j)
  <2>1. Connecting' = Connecting
    BY <1>8 DEF ClosePoolEnds, Connecting
  <2>2. CASE using[j] = poolInstance
    BY <1>8, <2>1, <2>2 DEF ClosePoolEnds, PoolInv
  <2>3. CASE using[j] # poolInstance
    BY <1>8, <2>1, <2>3 DEF ClosePoolEnds, PoolInv
  <2>4. QED
    BY <2>2, <2>3
<1>9. QED
  BY <1>1, <1>2, <1>3, <1>4, <1>5, <1>6, <1>7, <1>8 DEF PoolStep

\* What a step of a job that migrates leaves alone.
LEMMA MigrationFrame ==
    ASSUME TypeOK, NEW j \in Jobs, MigrationStep(j)
    PROVE  /\ UNCHANGED <<using, pool, poolInstance, overlapped>>
           /\ \A k \in Jobs \ {j} : pc'[k] = pc[k] /\ file'[k] = file[k] /\ appliedNames'[k] = appliedNames[k]
           /\ pc[j] \in Labels \ {"connecting", "closing"} /\ pc'[j] \in Labels \ {"connecting", "closing"}
BY DEF TypeOK, MigrationStep, Refused, CreateMigrationTable, GetMigrationStatus, Skip, Begin, Execute,
       InsertRow, NameTaken, Commit, Rollback, Return, StatementFails, QueryFails, At, Goto, Current,
       Labels, LoopLabels, migrationVars, poolVars

LEMMA PoolInvAlways == TypeOK /\ PoolInv /\ [Next]_vars => PoolInv'
<1> SUFFICES ASSUME TypeOK, PoolInv, [Next]_vars PROVE PoolInv'
  OBVIOUS
<1>1. ASSUME NEW j \in Jobs, MigrationStep(j) PROVE PoolInv'
  BY <1>1, MigrationFrame, PoolKept
<1>2. ASSUME NEW o \in orphans, OrphanActs(o) \/ OrphanFails(o) PROVE PoolInv'
  BY <1>2, PoolKept DEF OrphanActs, OrphanFails, poolVars
<1>3. CASE Crash
  BY <1>3 DEF Crash, ProcessEnds, PoolInv, Connecting, At, IsOpen, TypeOK
<1>4. CASE UNCHANGED vars
  BY <1>4, PoolKept DEF vars, poolVars
<1>5. QED
  BY <1>1, <1>2, <1>3, <1>4, PoolInvStep, NextCases

-------------------------------------------------------------------------------
(* The order.                                                              *)

\* Nothing is ever unrecorded, and no execution undone.
LEMMA Monotone ==
    ASSUME TypeOK, InOrder, [Next]_vars
    PROVE  /\ recorded \subseteq recorded'
           /\ \A f \in Files : executed[f] <= executed'[f]
<1> USE DEF TypeOK
<1>1. ASSUME NEW j \in Jobs, MigrationStep(j) PROVE recorded \subseteq recorded' /\ \A f \in Files : executed[f] <= executed'[f]
  <2>1. CASE Execute(j)
    BY <2>1 DEF Execute
  <2>2. CASE Commit(j)
    BY <2>2 DEF Commit, TakesEffect
  <2>3. CASE InsertRow(j)
    BY <2>3 DEF InsertRow
  <2>4. CASE UNCHANGED <<recorded, executed>>
    BY <2>4
  <2>5. QED
    BY <1>1, <2>1, <2>2, <2>3, <2>4
       DEF MigrationStep, Refused, CreateMigrationTable, GetMigrationStatus, Skip, Begin, NameTaken, Rollback, Return,
           StatementFails, QueryFails, migrationVars
<1>2. ASSUME NEW o \in orphans, OrphanActs(o) \/ OrphanFails(o) PROVE recorded \subseteq recorded' /\ \A f \in Files : executed[f] <= executed'[f]
  BY <1>2 DEF OrphanActs, OrphanFails, TakesEffect
<1>3. CASE Crash \/ UNCHANGED vars \/ UNCHANGED migrationVars
  BY <1>3 DEF Crash, vars, migrationVars
<1>4. QED
  BY <1>1, <1>2, <1>3, NextCases

\* A step after which every job and every orphan is where it may be.
LEMMA InOrderKept ==
    ASSUME TypeOK, InOrder, recorded \subseteq recorded',
           \A j \in Jobs : \/ pc'[j] = pc[j] \/ pc'[j] \notin {"content", "insert", "commit"}
                           \/ pc[j] \in {"content", "insert", "commit"},
           UNCHANGED <<file, appliedNames>>,
           \A o \in orphans' : o \in orphans \/ \E j \in Jobs : o \in InFlight(j)
    PROVE  InOrder'
<1>1. \A o \in orphans' : 1 .. (o.file - 1) \subseteq recorded
  BY InFlightIs DEF InOrder
<1>2. QED
  BY <1>1 DEF InOrder, Files

LEMMA InOrderMigration ==
    ASSUME TypeOK, TypeOK', InOrder, NEW j \in Jobs, MigrationStep(j), recorded \subseteq recorded'
    PROVE  InOrder'
<1> USE DEF TypeOK, At, Goto, Files
<1>1. CASE Refused(j) \/ CreateMigrationTable(j) \/ Rollback(j) \/ Return(j) \/ QueryFails(j) \/ NameTaken(j) \/ Execute(j) \/ InsertRow(j) \/ StatementFails(j)
  BY <1>1, InOrderKept, Zenon DEF Refused, CreateMigrationTable, Rollback, Return, QueryFails, NameTaken, Execute, InsertRow, StatementFails, migrationVars
<1>2. CASE GetMigrationStatus(j)
  BY <1>2 DEF GetMigrationStatus, InOrder
<1>3. CASE Begin(j)
  BY <1>3 DEF Begin, Current, InOrder, migrationVars
<1>4. CASE Skip(j)
  BY <1>4 DEF Skip, Current, InOrder, poolVars
<1>5. CASE Commit(j)
  BY <1>5 DEF Commit, TakesEffect, InOrder
<1>6. QED
  BY <1>1, <1>2, <1>3, <1>4, <1>5 DEF MigrationStep

\* A step of the pool moves one job, outside of runMigrations().
LEMMA PoolFrame ==
    ASSUME TypeOK, NEW j \in Jobs, PoolStep(j)
    PROVE  /\ \A k \in Jobs \ {j} : pc'[k] = pc[k]
           /\ \/ pc'[j] = pc[j]
              \/ {pc[j], pc'[j]} \cap ({"status", "rollback"} \cup LoopLabels) = {}
BY DEF TypeOK, PoolStep, CreatePool, GetPool, ConnectFails, FirstQueryFails, Connected, ClosePool, EndPool,
       Leave, PoolEnds, ClosePoolEnds, Goto, At, LoopLabels

LEMMA InOrderStep == TypeOK /\ TypeOK' /\ InOrder /\ [Next]_vars => InOrder'
<1> SUFFICES ASSUME TypeOK, TypeOK', InOrder, [Next]_vars PROVE InOrder'
  OBVIOUS
<1>1. recorded \subseteq recorded'
  BY Monotone
<1>2. ASSUME NEW j \in Jobs, PoolStep(j), UNCHANGED migrationVars PROVE InOrder'
  BY <1>1, <1>2, PoolFrame, InOrderKept DEF migrationVars, LoopLabels
<1>3. ASSUME NEW o \in orphans, OrphanActs(o) \/ OrphanFails(o) PROVE InOrder'
  BY <1>1, <1>3, InOrderKept DEF OrphanActs, OrphanFails, poolVars
<1>4. CASE Crash
  <2>1. \A k \in Jobs : pc'[k] \notin {"content", "insert", "commit"}
    BY <1>4 DEF Crash, ProcessEnds
  <2>2. QED
    BY <1>1, <1>4, <2>1, InOrderKept DEF Crash
<1>5. CASE UNCHANGED vars
  BY <1>1, <1>5, InOrderKept DEF vars, poolVars, migrationVars
<1>6. QED
  BY <1>1, <1>2, <1>3, <1>4, <1>5, InOrderMigration, NextCases

\* A step that brings nobody to an insert or a commit, and leaves no new orphan but those of its jobs.
LEMMA ExecutedFirstKept ==
    ASSUME TypeOK, TypeOK', InOrder, ExecutedFirst, recorded \subseteq recorded',
           \A f \in Files : executed[f] <= executed'[f],
           \A j \in Jobs : pc'[j] \in {"insert", "commit"} => pc'[j] = pc[j] /\ file'[j] = file[j],
           \A o \in orphans' : o \in orphans \/ \E j \in Jobs : o \in InFlight(j)
    PROVE  ExecutedFirst'
<1>1. \A j \in Jobs : file'[j] \in SelfCommitting =>
          /\ At(j, "insert")' => executed'[file'[j]] > 0
          /\ At(j, "commit")' => file'[j] \in recorded'
  BY DEF ExecutedFirst, InOrder, At, TypeOK
<1>2. \A o \in orphans' : (o.does = "commit" <=> o.file \notin SelfCommitting) /\ (o.does = "record" => executed'[o.file] > 0)
  <2>1. SUFFICES ASSUME NEW o \in orphans'
                 PROVE  (o.does = "commit" <=> o.file \notin SelfCommitting) /\ (o.does = "record" => executed'[o.file] > 0)
    OBVIOUS
  <2>2. (o.does = "commit" <=> o.file \notin SelfCommitting) /\ (o.does = "record" => executed[o.file] > 0)
    BY InFlightIs DEF ExecutedFirst
  <2>3. o.file \in Files
    BY DEF TypeOK, Orphan
  <2>4. QED
    BY <2>2, <2>3 DEF TypeOK
<1>3. QED
  BY <1>1, <1>2 DEF ExecutedFirst

LEMMA ExecutedFirstStep == TypeOK /\ TypeOK' /\ InOrder /\ ExecutedFirst /\ [Next]_vars => ExecutedFirst'
<1> SUFFICES ASSUME TypeOK, TypeOK', InOrder, ExecutedFirst, [Next]_vars PROVE ExecutedFirst'
  OBVIOUS
<1>1. recorded \subseteq recorded' /\ \A f \in Files : executed[f] <= executed'[f]
  BY Monotone
<1>2. ASSUME NEW j \in Jobs, PoolStep(j), UNCHANGED migrationVars PROVE ExecutedFirst'
  <2>1. \A k \in Jobs : pc'[k] \in {"insert", "commit"} => pc'[k] = pc[k]
    BY <1>2, PoolFrame DEF LoopLabels
  <2>2. QED
    BY <1>1, <1>2, <2>1, ExecutedFirstKept DEF migrationVars
<1>3. ASSUME NEW o \in orphans, OrphanActs(o) \/ OrphanFails(o) PROVE ExecutedFirst'
  BY <1>1, <1>3, ExecutedFirstKept DEF OrphanActs, OrphanFails, poolVars
<1>4. CASE Crash
  <2>1. \A k \in Jobs : pc'[k] \notin {"insert", "commit"}
    BY <1>4 DEF Crash, ProcessEnds
  <2>2. QED
    BY <1>1, <1>4, <2>1, ExecutedFirstKept DEF Crash
<1>5. CASE UNCHANGED vars
  BY <1>1, <1>5, ExecutedFirstKept DEF vars, poolVars, migrationVars
<1>6. ASSUME NEW j \in Jobs, MigrationStep(j) PROVE ExecutedFirst'
  <2>1. CASE Execute(j)
    <3>1. file[j] \in SelfCommitting => executed'[file[j]] > 0
      BY <2>1 DEF Execute, TypeOK, InOrder, At
    <3>2. \A k \in Jobs : /\ pc'[k] = "commit" => pc[k] = "commit"
                          /\ pc'[k] = "insert" => pc[k] = "insert" \/ k = j
      BY <2>1 DEF Execute, TypeOK, Goto
    <3>3. file' = file /\ orphans' = orphans
      BY <2>1 DEF Execute
    <3>4. \A o \in orphans : o.file \in Files
      BY DEF TypeOK, Orphan
    <3>5. \A k \in Jobs : pc[k] = "insert" => file[k] \in Files
      BY DEF InOrder
    <3>6. QED
      BY <1>1, <3>1, <3>2, <3>3, <3>4, <3>5 DEF ExecutedFirst, At, TypeOK
  <2>2. CASE InsertRow(j)
    BY <2>2 DEF InsertRow, ExecutedFirst, At, TypeOK, Goto
  <2>3. CASE ~ Execute(j) /\ ~ InsertRow(j)
    <3>1. \A k \in Jobs : pc'[k] \in {"insert", "commit"} => pc'[k] = pc[k] /\ file'[k] = file[k]
      BY <1>6, <2>3 DEF TypeOK, MigrationStep, Refused, CreateMigrationTable, GetMigrationStatus, Skip, Begin,
         NameTaken, Commit, Rollback, Return, StatementFails, QueryFails, At, Goto, Current, migrationVars, poolVars
    <3>2. \A o \in orphans' : o \in orphans \/ o \in InFlight(j)
      BY <1>6, <2>3 DEF MigrationStep, Refused, CreateMigrationTable, GetMigrationStatus, Skip, Begin,
         NameTaken, Commit, Rollback, Return, StatementFails, QueryFails, migrationVars
    <3>3. QED
      BY <1>1, <3>1, <3>2, ExecutedFirstKept
  <2>4. QED
    BY <2>1, <2>2, <2>3
<1>7. QED
  BY <1>2, <1>3, <1>4, <1>5, <1>6, NextCases

-------------------------------------------------------------------------------
(* The unique names.                                                       *)

NameFits(f) ==
    /\ executed[f] = IF f \in recorded THEN 1 ELSE 0
    /\ f \in recorded => Committing(f) = {} /\ Abandoned(f) = {}
    /\ \A j, k \in Committing(f) : j = k
    /\ \A o, q \in Abandoned(f) : o = q
    /\ Committing(f) = {} \/ Abandoned(f) = {}

LEMMA NamesFitEach == NamesUnique <=> \A f \in Files \ SelfCommitting : NameFits(f)
BY DEF NamesUnique, NameFits

LEMMA NamesStep ==
    ASSUME TypeOK, TypeOK', InOrder, ExecutedFirst, NamesUnique, [Next]_vars
    PROVE  NamesUnique'
<1> SUFFICES ASSUME NEW f \in Files \ SelfCommitting PROVE NameFits(f)'
  BY DEF NamesUnique, NameFits
<1>1. NameFits(f)
  BY DEF NamesUnique, NameFits
<1>2. ASSUME executed'[f] = executed[f], f \in recorded' <=> f \in recorded,
             Committing(f)' = Committing(f), Abandoned(f)' = Abandoned(f)
      PROVE  NameFits(f)'
  BY <1>1, <1>2 DEF NameFits
<1>3. ASSUME UNCHANGED <<executed, recorded, orphans>>, Committing(f)' = Committing(f) PROVE NameFits(f)'
  BY <1>2, <1>3 DEF Abandoned
<1>4. ASSUME NEW j \in Jobs, PoolStep(j), UNCHANGED migrationVars PROVE NameFits(f)'
  <2>1. Committing(f)' = Committing(f)
    BY <1>4, PoolFrame DEF Committing, At, migrationVars, LoopLabels
  <2>2. QED
    BY <1>3, <1>4, <2>1 DEF migrationVars
<1>5. ASSUME NEW j \in Jobs, MigrationStep(j) PROVE NameFits(f)'
  <2> USE DEF TypeOK, At, Goto
  <2>1. \A k \in Jobs \ {j} : pc'[k] = pc[k] /\ file'[k] = file[k]
    BY <1>5, MigrationFrame
  <2>2. CASE /\ pc[j] # "commit" /\ pc'[j] # "commit"
             /\ UNCHANGED <<executed, recorded, orphans>>
    <3>1. Committing(f)' = Committing(f)
      BY <2>1, <2>2 DEF Committing
    <3>2. QED
      BY <1>3, <2>2, <3>1
  <2>3. CASE Execute(j)
    <3>1. Committing(f)' = Committing(f)
      BY <2>3 DEF Execute, Committing
    <3>2. executed'[f] = executed[f] /\ recorded' = recorded /\ Abandoned(f)' = Abandoned(f)
      BY <2>3 DEF Execute, Abandoned
    <3>3. QED
      BY <1>2, <3>1, <3>2
  <2>4. CASE InsertRow(j)
    <3>1. UNCHANGED <<executed, orphans>> /\ (f \in recorded' <=> f \in recorded)
      BY <2>4 DEF InsertRow
    <3>2. CASE file[j] # f
      <4>1. Committing(f)' = Committing(f)
        BY <2>1, <2>4, <3>2 DEF InsertRow, Committing
      <4>2. QED
        BY <1>2, <3>1, <4>1 DEF Abandoned
    <3>3. CASE file[j] = f
      <4>1. Committing(f) = {} /\ Abandoned(f) = {} /\ f \notin recorded
        BY <2>4, <3>3 DEF InsertRow, NameLocked, Committing, Abandoned
      <4>2. Committing(f)' = {j} /\ Abandoned(f)' = {}
        BY <2>1, <2>4, <3>1, <3>3, <4>1 DEF InsertRow, Committing, Abandoned
      <4>3. QED
        BY <1>1, <3>1, <4>1, <4>2 DEF NameFits
    <3>4. QED
      BY <3>2, <3>3
  <2>5. CASE Commit(j)
    <3>1. CASE file[j] # f
      <4>1. Committing(f)' = Committing(f) /\ Abandoned(f)' = Abandoned(f)
        BY <2>1, <2>5, <3>1 DEF Commit, Committing, Abandoned
      <4>2. QED
        BY <1>2, <2>5, <3>1, <4>1 DEF Commit, TakesEffect
    <3>2. CASE file[j] = f
      <4>1. j \in Committing(f)
        BY <2>5, <3>2 DEF Commit, Committing
      <4>2. Committing(f) = {j} /\ Abandoned(f) = {} /\ f \notin recorded /\ executed[f] = 0
        BY <1>1, <4>1 DEF NameFits
      <4>3. Committing(f)' = {} /\ Abandoned(f)' = {}
        BY <2>1, <2>5, <4>2 DEF Commit, Committing, Abandoned
      <4>4. QED
        BY <2>5, <3>2, <4>2, <4>3 DEF Commit, TakesEffect, NameFits
    <3>3. QED
      BY <3>1, <3>2
  <2>6. CASE StatementFails(j)
    <3>1. UNCHANGED <<executed, recorded, file>>
      BY <2>6 DEF StatementFails
    <3>2. CASE j \notin Committing(f)
      <4>1. Committing(f)' = Committing(f)
        BY <2>1, <2>6, <3>2 DEF StatementFails, Committing
      <4>2. Abandoned(f)' = Abandoned(f)
        BY <2>6, <3>2, InFlightIs DEF StatementFails, Committing, Abandoned
      <4>3. QED
        BY <1>2, <3>1, <4>1, <4>2
    <3>3. CASE j \in Committing(f)
      <4>1. Committing(f) = {j} /\ Abandoned(f) = {} /\ f \notin recorded
        BY <1>1, <3>3 DEF NameFits
      <4>2. Committing(f)' = {}
        BY <2>1, <2>6, <4>1 DEF StatementFails, Committing
      <4>3. \A o, q \in InFlight(j) : o = q
        BY <3>3, InFlightIs DEF Orphan, Committing
      <4>4. \A o, q \in Abandoned(f)' : o = q
        BY <2>6, <4>1, <4>3 DEF StatementFails, Abandoned
      <4>5. QED
        BY <1>1, <3>1, <4>1, <4>2, <4>4 DEF NameFits
    <3>4. QED
      BY <3>2, <3>3
  <2>7. QED
    BY <1>5, <2>2, <2>3, <2>4, <2>5, <2>6
       DEF MigrationStep, Refused, CreateMigrationTable, GetMigrationStatus, Skip, Begin, Rollback, Return,
           NameTaken, QueryFails, Current, migrationVars, poolVars
<1>6. ASSUME NEW o \in orphans, OrphanActs(o) \/ OrphanFails(o) PROVE NameFits(f)'
  <2>1. Committing(f)' = Committing(f) /\ o.file \in Files
    BY <1>6 DEF OrphanActs, OrphanFails, Committing, At, poolVars, TypeOK, Orphan
  <2>2. CASE o.file # f
    <3>1. Abandoned(f)' = Abandoned(f)
      BY <1>6, <2>2 DEF OrphanActs, OrphanFails, Abandoned
    <3>2. QED
      BY <1>2, <1>6, <2>1, <2>2, <3>1 DEF OrphanActs, OrphanFails, TakesEffect, TypeOK
  <2>3. CASE o.file = f
    <3>1. o.does = "commit" /\ o \in Abandoned(f)
      BY <2>3 DEF ExecutedFirst, Abandoned
    <3>2. Abandoned(f) = {o} /\ Committing(f) = {} /\ f \notin recorded /\ executed[f] = 0
      BY <1>1, <3>1 DEF NameFits
    <3>3. Abandoned(f)' = {}
      BY <1>6, <3>2 DEF OrphanActs, OrphanFails, Abandoned
    <3>4. QED
      BY <1>6, <2>1, <2>3, <3>1, <3>2, <3>3 DEF OrphanActs, OrphanFails, TakesEffect, NameFits, TypeOK
  <2>4. QED
    BY <2>2, <2>3
<1>7. CASE Crash
  <2>1. Committing(f)' = {} /\ UNCHANGED <<executed, recorded>>
    BY <1>7 DEF Crash, ProcessEnds, Committing, At
  <2>2. \A o \in Abandoned(f)' : o \in Abandoned(f) \/ \E j \in Committing(f) : o \in InFlight(j)
    BY <1>7, InFlightIs DEF Crash, Abandoned, Committing
  <2>3. \A j \in Jobs : \A o, q \in InFlight(j) : o = q
    BY InFlightIs DEF Orphan, At
  <2>4. \A j \in Committing(f) : j \in Jobs
    BY DEF Committing
  <2>5. \A o, q \in Abandoned(f)' : o = q
    BY <1>1, <2>2, <2>3, <2>4 DEF NameFits
  <2>6. QED
    BY <1>1, <2>1, <2>2, <2>5 DEF NameFits
<1>8. CASE UNCHANGED vars
  <2>1. Committing(f)' = Committing(f)
    BY <1>8 DEF Committing, At, vars, poolVars, migrationVars
  <2>2. QED
    BY <1>3, <1>8, <2>1 DEF vars, migrationVars
<1>9. QED
  BY <1>4, <1>5, <1>6, <1>7, <1>8, NextCases

-------------------------------------------------------------------------------
(* The executions.                                                         *)

Total(f) == executed[f] + Cardinality(Executing(f))

FaultFits(f) ==
    /\ IsFiniteSet(Executing(f))
    /\ Total(f) <= faults + 1
    /\ Open(f) => Total(f) <= faults

LEMMA FaultsFitEach ==
    FaultsCount <=> (~ shared => (\A j, k \in Migrating : j = k) /\ \A f \in SelfCommitting : FaultFits(f))
BY DEF FaultsCount, FaultFits, Total

\* A step that executes nothing, abandons no execution and opens nothing.
LEMMA FaultKept ==
    ASSUME TypeOK, TypeOK', NEW f \in Files, FaultFits(f),
           executed'[f] = executed[f], Executing(f)' \subseteq Executing(f), faults <= faults',
           Open(f)' => Open(f) \/ faults < faults'
    PROVE  FaultFits(f)'
<1>1. IsFiniteSet(Executing(f)')
  BY FS_Subset DEF FaultFits
<1>2. Cardinality(Executing(f)') <= Cardinality(Executing(f))
  BY FS_Subset DEF FaultFits
<1>3. Cardinality(Executing(f)') \in Nat /\ Cardinality(Executing(f)) \in Nat
  BY <1>1, FS_CardinalityType DEF FaultFits
<1>4. QED
  BY <1>1, <1>2, <1>3 DEF FaultFits, Total, TypeOK

\* A step that leaves one execution to itself spends a fault for it.
LEMMA FaultSpent ==
    ASSUME TypeOK, TypeOK', NEW f \in Files, FaultFits(f), Open(f), NEW o,
           executed'[f] = executed[f], Executing(f)' \subseteq Executing(f) \cup {o}, faults' = faults + 1
    PROVE  FaultFits(f)'
<1>1. IsFiniteSet(Executing(f) \cup {o}) /\ Cardinality(Executing(f) \cup {o}) <= Cardinality(Executing(f)) + 1
  <2>1. IsFiniteSet(Executing(f)) /\ Cardinality(Executing(f)) \in Nat
    BY FS_CardinalityType DEF FaultFits
  <2>2. /\ IsFiniteSet(Executing(f) \cup {o})
        /\ Cardinality(Executing(f) \cup {o}) = IF o \in Executing(f) THEN Cardinality(Executing(f))
                                                                       ELSE Cardinality(Executing(f)) + 1
    BY <2>1, FS_AddElement, Zenon
  <2>3. QED
    BY <2>1, <2>2
<1>2. IsFiniteSet(Executing(f)') /\ Cardinality(Executing(f)') <= Cardinality(Executing(f) \cup {o})
  BY <1>1, FS_Subset
<1>3. /\ Cardinality(Executing(f)') \in Nat /\ Cardinality(Executing(f)) \in Nat
      /\ Cardinality(Executing(f) \cup {o}) \in Nat
  BY <1>1, <1>2, FS_CardinalityType DEF FaultFits
<1>4. QED
  BY <1>1, <1>2, <1>3 DEF FaultFits, Total, TypeOK

\* While jobs migrate one at a time, the one that does is the only one.
LEMMA OneMigrates ==
    ASSUME TypeOK, FaultsCount, ~ shared', [Next]_vars
    PROVE  /\ ~ shared
           /\ \A j, k \in Migrating : j = k
           /\ \A j, k \in Migrating' : j = k
<1> DEFINE One == ~ shared /\ (\A j, k \in Migrating : j = k) /\ (\A j, k \in Migrating' : j = k)
<1>1. CASE shared' = shared /\ Migrating' \subseteq Migrating
  BY <1>1 DEF FaultsCount
<1>2. ASSUME NEW j \in Jobs, CreateMigrationTable(j) PROVE One
  <2>1. ~ shared /\ Migrating = {}
    BY <1>2 DEF CreateMigrationTable
  <2>2. Migrating' \subseteq {j}
    BY <1>2, <2>1 DEF CreateMigrationTable, Migrating, Goto, TypeOK
  <2>3. QED
    BY <2>1, <2>2
<1>3. ASSUME NEW j \in Jobs, PoolStep(j), UNCHANGED migrationVars PROVE One
  <2>1. Migrating' \subseteq Migrating
    BY <1>3, PoolFrame DEF Migrating, LoopLabels
  <2>2. QED
    BY <1>1, <1>3, <2>1 DEF migrationVars
<1>4. ASSUME NEW j \in Jobs, MigrationStep(j), ~ CreateMigrationTable(j) PROVE One
  <2>1. shared' = shared /\ (j \in Migrating' => j \in Migrating)
    BY <1>4 DEF MigrationStep, Refused, GetMigrationStatus, Skip, Begin, Execute, InsertRow, NameTaken, Commit, Rollback,
          Return, StatementFails, QueryFails, Current, At, Goto, Migrating, migrationVars, poolVars, TypeOK
  <2>2. Migrating' \subseteq Migrating
    BY <1>4, <2>1, MigrationFrame DEF Migrating
  <2>3. QED
    BY <1>1, <2>1, <2>2
<1>5. ASSUME NEW o \in orphans, OrphanActs(o) \/ OrphanFails(o) PROVE One
  BY <1>1, <1>5 DEF OrphanActs, OrphanFails, poolVars, Migrating
<1>6. CASE Crash
  BY <1>1, <1>6 DEF Crash, ProcessEnds, Migrating, At
<1>7. CASE UNCHANGED vars
  BY <1>1, <1>7 DEF vars, poolVars, migrationVars, Migrating
<1>8. QED
  BY <1>2, <1>3, <1>4, <1>5, <1>6, <1>7, NextCases

LEMMA FaultsMigration ==
    ASSUME TypeOK, TypeOK', InOrder, ExecutedFirst, NEW j \in Jobs, MigrationStep(j), FaultsCount,
           ~ shared', ~ shared, \A k, l \in Migrating : k = l, \A k, l \in Migrating' : k = l,
           NEW f \in SelfCommitting
    PROVE  FaultFits(f)'
<1> USE DEF TypeOK, At, Goto
<1>1. FaultFits(f) /\ f \in Files /\ faults \in Nat
  BY MigrationsAssumption DEF FaultsCount, FaultFits, Total, Files
<1>2. \A k \in Jobs \ {j} : pc'[k] = pc[k] /\ file'[k] = file[k] /\ appliedNames'[k] = appliedNames[k]
  BY MigrationFrame
<1>3. \A k \in Jobs \ {j} : j \in Migrating \/ j \in Migrating' => pc[k] \notin LoopLabels
  BY <1>2 DEF Migrating, LoopLabels
<1>4. ASSUME pc[j] \in {"next", "commit"}, pc'[j] = "next", file'[j] = file[j] + 1,
             appliedNames' = appliedNames, recorded \subseteq recorded'
      PROVE  Open(f)' => Open(f)
  <2>1. f \in Nat /\ file[j] \in Nat
    BY <1>1, MigrationsAssumption DEF Files
  <2>2. Ahead(j, f)' => Ahead(j, f)
    BY <1>4, <2>1 DEF Ahead, LoopLabels
  <2>3. \A k \in Jobs \ {j} : Ahead(k, f)' => Ahead(k, f)
    BY <1>2, <1>4 DEF Ahead
  <2>4. \A k \in Jobs : At(k, "insert") /\ file[k] = f => At(k, "insert")' /\ file'[k] = f
    BY <1>2, <1>4
  <2>5. QED
    BY <1>4, <2>2, <2>3, <2>4 DEF Open
<1>5. CASE UNCHANGED <<executed, orphans>>
  <2>1. Executing(f)' = Executing(f) /\ executed'[f] = executed[f]
    BY <1>5 DEF Executing
  <2>2. faults' = faults \/ faults' = faults + 1
    BY DEF MigrationStep, Refused, CreateMigrationTable, GetMigrationStatus, Skip, Begin, Execute, InsertRow, NameTaken,
       Commit, Rollback, Return, StatementFails, QueryFails, Fault, migrationVars
  <2>3. Open(f)' => Open(f) \/ faults < faults'
    <3>1. CASE GetMigrationStatus(j)
      <4>1. \A k \in Jobs : ~ (At(k, "insert") /\ file[k] = f)
        BY <1>3, <3>1 DEF GetMigrationStatus, Migrating, LoopLabels
      <4>2. QED
        BY <1>2, <3>1, <4>1 DEF GetMigrationStatus, Open, Ahead, LoopLabels
    <3>2. CASE Refused(j) \/ CreateMigrationTable(j)
      BY <1>2, <3>2 DEF Refused, CreateMigrationTable, Open, Ahead, LoopLabels, migrationVars, Current
    <3>3. CASE Begin(j)
      BY <1>2, <3>3 DEF Begin, Open, Ahead, LoopLabels, migrationVars, Current
    <3>4. CASE Skip(j) \/ Commit(j)
      BY <1>4, <3>4 DEF Skip, Commit, TakesEffect, Current, poolVars
    <3>5. CASE Execute(j)
      BY <1>2, <3>5 DEF Execute, Open, Ahead, LoopLabels
    <3>6. CASE InsertRow(j)
      BY <1>2, <3>6 DEF InsertRow, Open, Ahead, LoopLabels
    <3>7. CASE NameTaken(j)
      BY <1>2, <3>7 DEF NameTaken, Open, Ahead, LoopLabels, migrationVars
    <3>8. CASE Rollback(j) \/ Return(j)
      BY <1>2, <3>8 DEF Rollback, Return, Open, Ahead, LoopLabels, migrationVars
    <3>9. CASE StatementFails(j) \/ QueryFails(j)
      BY <3>9 DEF StatementFails, QueryFails, Fault
    <3>10. QED
      BY <3>1, <3>2, <3>3, <3>4, <3>5, <3>6, <3>7, <3>8, <3>9 DEF MigrationStep
  <2>4. QED
    BY <1>1, <2>1, <2>2, <2>3, FaultKept
<1>6. CASE Execute(j)
  <2>1. Executing(f)' = Executing(f) /\ faults' = faults
    BY <1>6 DEF Execute, Executing
  <2>2. CASE executed'[f] = executed[f]
    <3>1. file[j] = f => f \notin SelfCommitting
      BY <1>6, <2>2 DEF Execute
    <3>2. Open(f)' => Open(f)
      BY <1>1, <1>2, <1>6, <3>1 DEF Execute, Open, Ahead, LoopLabels
    <3>3. QED
      BY <1>1, <2>1, <2>2, <3>2, FaultKept
  <2>3. CASE executed'[f] # executed[f]
    <3>1. file[j] = f /\ executed'[f] = executed[f] + 1 /\ pc[j] = "content"
      BY <1>6, <2>3 DEF Execute
    <3>2. Open(f)
      BY <3>1 DEF Open, Ahead, InOrder, LoopLabels
    <3>3. ~ Open(f)'
      <4>1. j \in Migrating /\ pc'[j] = "insert" /\ file'[j] = f
        BY <1>6, <3>1 DEF Execute, Migrating
      <4>2. \A k \in Jobs : ~ Ahead(k, f)'
        BY <1>2, <1>3, <4>1 DEF Ahead
      <4>3. QED
        BY <4>1, <4>2 DEF Open
    <3>4. Cardinality(Executing(f)) \in Nat
      BY <1>1, FS_CardinalityType DEF FaultFits
    <3>5. QED
      BY <1>1, <2>1, <3>1, <3>2, <3>3, <3>4 DEF FaultFits, Total
  <2>4. QED
    BY <2>2, <2>3
<1>7. CASE Commit(j) /\ file[j] \notin SelfCommitting
  <2>1. Executing(f)' = Executing(f) /\ faults' = faults /\ executed'[f] = executed[f]
    BY <1>1, <1>7 DEF Commit, TakesEffect, Executing
  <2>2. Open(f)' => Open(f)
    BY <1>7, <1>4 DEF Commit, TakesEffect
  <2>3. QED
    BY <1>1, <2>1, <2>2, FaultKept
<1>8. CASE StatementFails(j)
  <2>1. faults' = faults + 1 /\ executed' = executed
    BY <1>8 DEF StatementFails, Fault
  <2>2. CASE Executing(f)' \subseteq Executing(f)
    BY <1>1, <2>1, <2>2, FaultKept
  <2>3. CASE ~ (Executing(f)' \subseteq Executing(f))
    <3>1. PICK o \in InFlight(j) : o \in Executing(f)'
      BY <1>8, <2>3 DEF StatementFails, Executing
    <3>2. pc[j] = "content" /\ file[j] = f
      BY <3>1, InFlightIs DEF Executing
    <3>3. Open(f)
      BY <3>2 DEF Open, Ahead, InOrder, LoopLabels
    <3>4. \A q \in InFlight(j) : q = o
      BY <3>1, <3>2, InFlightIs DEF Orphan
    <3>5. Executing(f)' \subseteq Executing(f) \cup {o}
      BY <1>8, <3>4 DEF StatementFails, Executing
    <3>6. QED
      BY <1>1, <2>1, <3>3, <3>5, FaultSpent
  <2>4. QED
    BY <2>2, <2>3
<1>9. QED
  <2>1. CASE Commit(j) /\ file[j] \in SelfCommitting
    BY <1>5, <2>1 DEF Commit, TakesEffect
  <2>2. QED
    BY <1>5, <1>6, <1>7, <1>8, <2>1 DEF MigrationStep, Refused, CreateMigrationTable, GetMigrationStatus, Skip, Begin, InsertRow,
       NameTaken, Rollback, Return, QueryFails, migrationVars

LEMMA FaultsStep ==
    ASSUME TypeOK, TypeOK', InOrder, ExecutedFirst, FaultsCount, [Next]_vars
    PROVE  FaultsCount'
<1> SUFFICES ASSUME ~ shared' PROVE (\A j, k \in Migrating' : j = k) /\ \A f \in SelfCommitting : FaultFits(f)'
  BY DEF FaultsCount, FaultFits, Total
<1>1. ~ shared /\ (\A j, k \in Migrating : j = k) /\ (\A j, k \in Migrating' : j = k)
  BY OneMigrates
<1> SUFFICES ASSUME NEW f \in SelfCommitting PROVE FaultFits(f)'
  BY <1>1
<1>2. FaultFits(f) /\ f \in Files /\ faults \in Nat
  BY <1>1, MigrationsAssumption DEF FaultsCount, FaultFits, Total, Files, TypeOK
<1>3. ASSUME NEW j \in Jobs, PoolStep(j), UNCHANGED migrationVars PROVE FaultFits(f)'
  <2>1. Executing(f)' = Executing(f) /\ executed'[f] = executed[f] /\ faults' = faults
    BY <1>3 DEF Executing, migrationVars
  <2>2. Open(f)' => Open(f)
    BY <1>3, PoolFrame DEF Open, Ahead, LoopLabels, At, migrationVars
  <2>3. QED
    BY <1>2, <2>1, <2>2, FaultKept
<1>4. ASSUME NEW o \in orphans, OrphanActs(o) PROVE FaultFits(f)'
  <2>1. Open(f)' => Open(f)
    BY <1>4 DEF OrphanActs, TakesEffect, Open, Ahead, At, poolVars
  <2>2. faults' = faults /\ orphans' = orphans \ {o}
    BY <1>4 DEF OrphanActs
  <2>3. CASE o.does = "execute" /\ o.file = f
    <3>1. Executing(f)' = Executing(f) \ {o} /\ o \in Executing(f)
      BY <2>2, <2>3 DEF Executing
    <3>2. executed'[f] = executed[f] + 1
      BY <1>2, <1>4, <2>3 DEF OrphanActs, TypeOK
    <3>3. IsFiniteSet(Executing(f) \ {o}) /\ Cardinality(Executing(f) \ {o}) = Cardinality(Executing(f)) - 1
      BY <1>2, <3>1, FS_RemoveElement DEF FaultFits
    <3>4. Cardinality(Executing(f)) \in Nat
      BY <1>2, FS_CardinalityType DEF FaultFits
    <3>5. QED
      BY <1>2, <2>1, <2>2, <3>1, <3>2, <3>3, <3>4 DEF FaultFits, Total, TypeOK
  <2>4. CASE ~ (o.does = "execute" /\ o.file = f)
    <3>1. Executing(f)' = Executing(f)
      BY <2>2, <2>4 DEF Executing
    <3>2. o.does # "execute" /\ o.file = f => o.file \in SelfCommitting
      OBVIOUS
    <3>3. executed'[f] = executed[f]
      BY <1>2, <1>4, <2>4 DEF OrphanActs, TakesEffect, TypeOK
    <3>4. QED
      BY <1>2, <2>1, <2>2, <3>1, <3>3, FaultKept
  <2>5. QED
    BY <2>3, <2>4
<1>5. ASSUME NEW o \in orphans, OrphanFails(o) PROVE FaultFits(f)'
  <2>1. Executing(f)' \subseteq Executing(f) /\ executed'[f] = executed[f] /\ faults' = faults
    BY <1>5 DEF OrphanFails, Executing
  <2>2. Open(f)' => Open(f)
    BY <1>5 DEF OrphanFails, Open, Ahead, At, poolVars
  <2>3. QED
    BY <1>2, <2>1, <2>2, FaultKept
<1>6. CASE Crash
  <2>1. faults' = faults + 1 /\ executed' = executed
    BY <1>6 DEF Crash, Fault
  <2>2. CASE Executing(f)' \subseteq Executing(f)
    BY <1>2, <2>1, <2>2, FaultKept
  <2>3. CASE ~ (Executing(f)' \subseteq Executing(f))
    <3>0. PICK j \in Jobs : \E o \in InFlight(j) : o \in Executing(f)'
      BY <1>6, <2>3 DEF Crash, Executing
    <3>1. PICK o \in InFlight(j) : o \in Executing(f)'
      BY <3>0
    <3>2. pc[j] = "content" /\ file[j] = f
      BY <3>1, InFlightIs DEF Executing, At
    <3>3. Open(f)
      BY <3>2 DEF Open, Ahead, InOrder, LoopLabels
    <3>4. \A k \in Jobs : \A q \in InFlight(k) : k = j
      BY <1>1, <3>2, InFlightIs DEF Migrating, At
    <3>5. \A q \in InFlight(j) : q = o
      BY <3>1, <3>2, InFlightIs DEF Orphan, At
    <3>6. Executing(f)' \subseteq Executing(f) \cup {o}
      BY <1>6, <3>4, <3>5 DEF Crash, Executing
    <3>7. QED
      BY <1>2, <2>1, <3>3, <3>6, FaultSpent
  <2>4. QED
    BY <2>2, <2>3
<1>7. CASE UNCHANGED vars
  <2>1. Executing(f)' = Executing(f) /\ executed'[f] = executed[f] /\ faults' = faults /\ (Open(f)' => Open(f))
    BY <1>7 DEF Executing, Open, Ahead, At, vars, poolVars, migrationVars
  <2>2. QED
    BY <1>2, <2>1, FaultKept
<1>8. QED
  BY <1>1, <1>3, <1>4, <1>5, <1>6, <1>7, FaultsMigration, NextCases

-------------------------------------------------------------------------------
(* The theorems.                                                           *)

(***************************************************************************)
(* The state of the pool, the order of the files, the unique names of      *)
(* schema_migrations and the count of the executions fit together in every *)
(* reachable state.                                                        *)
(***************************************************************************)
THEOREM MigrationsInvariant == Spec => []IndInv
<1>1. Init => IndInv
  <2>1. SUFFICES ASSUME Init PROVE IndInv
    OBVIOUS
  <2> USE <2>1 DEF Init, PoolInit
  <2>2. TypeOK
    <3>1. pc \in [Jobs -> Labels] /\ pool \in [Jobs -> PoolStates]
      BY DEF Labels, PoolStates
    <3>2. executed \in [Files -> Nat] /\ appliedNames \in [Jobs -> SUBSET Files] /\ file \in [Jobs -> Nat \ {0}]
      OBVIOUS
    <3>3. using \in [Jobs -> Jobs \cup {None}]
      OBVIOUS
    <3>4. QED
      BY <3>1, <3>2, <3>3 DEF TypeOK
  <2>3. PoolInv
    BY DEF PoolInv, Connecting, IsOpen
  <2>4. InOrder /\ ExecutedFirst
    BY DEF InOrder, ExecutedFirst, At
  <2>5. \A f : Committing(f) = {} /\ Abandoned(f) = {} /\ Executing(f) = {}
    BY DEF Committing, Abandoned, Executing, At
  <2>6. NamesUnique
    BY <2>5 DEF NamesUnique
  <2>7. Migrating = {}
    BY DEF Migrating
  <2>8. FaultsCount
    <3>1. \A f \in SelfCommitting : executed[f] = 0
      BY MigrationsAssumption DEF Files
    <3>2. IsFiniteSet({}) /\ Cardinality({}) = 0
      BY FS_EmptySet
    <3>3. QED
      BY <2>5, <2>7, <3>1, <3>2 DEF FaultsCount
  <2>9. QED
    BY <2>2, <2>3, <2>4, <2>6, <2>8 DEF IndInv
<1>2. IndInv /\ [Next]_vars => IndInv'
  BY TypeStep, PoolInvAlways, InOrderStep, ExecutedFirstStep, NamesStep, FaultsStep DEF IndInv
<1>3. QED
  BY <1>1, <1>2, PTL DEF Spec

(***************************************************************************)
(* createPool(), closePool(): no open pool gets out of reach of getPool()  *)
(* unless two createPool() overlapped, and getPool() never returns a pool  *)
(* that is closed and that nobody will reset.                              *)
(***************************************************************************)
THEOREM PoolNeverLost == Spec => []NoPoolLost
<1>1. IndInv => NoPoolLost
  BY DEF IndInv, PoolInv, NoPoolLost
<1>2. QED
  BY <1>1, MigrationsInvariant, PTL

(***************************************************************************)
(* runMigrations(): a file whose transaction is the runner's is executed   *)
(* once whatever overlaps, fails or is cut off; another one is executed    *)
(* again only if a fault explains it, while jobs migrate one at a time.    *)
(***************************************************************************)
THEOREM RepeatsAlwaysExplained == Spec => []RepeatsExplained
<1>1. IndInv => RepeatsExplained
  <2>1. SUFFICES ASSUME IndInv, NEW f \in Files
                 PROVE  /\ f \notin SelfCommitting => executed[f] <= 1
                        /\ ~ shared => executed[f] <= 1 + faults
    BY DEF RepeatsExplained
  <2>2. executed[f] \in Nat /\ faults \in Nat
    BY <2>1 DEF IndInv, TypeOK
  <2>3. f \notin SelfCommitting => executed[f] <= 1
    BY <2>1 DEF IndInv, NamesUnique
  <2>4. f \in SelfCommitting /\ ~ shared => executed[f] <= 1 + faults
    <3>1. SUFFICES ASSUME f \in SelfCommitting, ~ shared PROVE executed[f] <= 1 + faults
      OBVIOUS
    <3>2. IsFiniteSet(Executing(f)) /\ executed[f] + Cardinality(Executing(f)) <= faults + 1
      BY <2>1, <3>1 DEF IndInv, FaultsCount
    <3>3. QED
      BY <2>2, <3>2, FS_CardinalityType
  <2>5. QED
    BY <2>2, <2>3, <2>4
<1>2. QED
  BY <1>1, MigrationsInvariant, PTL

-------------------------------------------------------------------------------
(* The refinement.                                                         *)

LEMMA HistoryStep == IndInv /\ [Next]_vars => [History!Next]_(History!vars)
<1> SUFFICES ASSUME IndInv, [Next]_vars PROVE [History!Next]_(History!vars)
  OBVIOUS
<1> USE DEF History!Next, History!vars, History!Files, Files
<1>1. CASE UNCHANGED <<executed, recorded, told>>
  BY <1>1
<1>2. \A f \in Files : 1 .. (f - 1) \subseteq recorded => History!InTurn(f)
  BY DEF History!InTurn
<1>3. ASSUME NEW j \in Jobs, MigrationStep(j) PROVE [History!Next]_(History!vars)
  <2> USE DEF IndInv, TypeOK, At
  <2>1. CASE Execute(j)
    <3>1. CASE file[j] \in SelfCommitting
      <4>1. History!Execute(file[j]) /\ file[j] \in Files
        BY <1>2, <2>1, <3>1 DEF Execute, History!Execute, InOrder
      <4>2. QED
        BY <4>1
    <3>2. CASE file[j] \notin SelfCommitting
      BY <1>1, <2>1, <3>2 DEF Execute
    <3>3. QED
      BY <3>1, <3>2
  <2>2. CASE InsertRow(j)
    <3>1. CASE file[j] \in SelfCommitting
      <4>1. History!Record(file[j]) /\ file[j] \in Files
        BY <2>2, <3>1 DEF InsertRow, History!Record, InOrder, ExecutedFirst
      <4>2. QED
        BY <4>1
    <3>2. CASE file[j] \notin SelfCommitting
      BY <1>1, <2>2, <3>2 DEF InsertRow
    <3>3. QED
      BY <3>1, <3>2
  <2>3. CASE Commit(j)
    <3>1. CASE file[j] \in SelfCommitting
      <4>1. file[j] \in recorded
        BY <2>3, <3>1 DEF Commit, ExecutedFirst
      <4>2. UNCHANGED <<executed, recorded, told>>
        BY <2>3, <3>1, <4>1 DEF Commit, TakesEffect
      <4>3. QED
        BY <1>1, <4>2
    <3>2. CASE file[j] \notin SelfCommitting
      <4>1. file[j] \in Files /\ j \in Committing(file[j])
        BY <2>3 DEF Commit, InOrder, Committing
      <4>2. file[j] \notin recorded
        BY <3>2, <4>1 DEF NamesUnique
      <4>3. History!ExecuteAndRecord(file[j])
        BY <1>2, <2>3, <3>2, <4>1, <4>2 DEF Commit, TakesEffect, History!ExecuteAndRecord, InOrder
      <4>4. QED
        BY <4>1, <4>3
    <3>3. QED
      BY <3>1, <3>2
  <2>4. CASE Return(j)
    <3>1. recorded = Files
      <4>1. NumFiles \in Nat /\ file[j] \in Nat \ {0} /\ file[j] \notin 1 .. NumFiles
        BY <2>4, MigrationsAssumption DEF Return
      <4>2. 1 .. NumFiles \subseteq 1 .. (file[j] - 1)
        BY <4>1
      <4>3. QED
        BY <4>2 DEF InOrder
    <3>2. History!Tell
      BY <2>4, <3>1 DEF Return, History!Tell
    <3>3. QED
      BY <3>2
  <2>5. QED
    BY <1>1, <1>3, <2>1, <2>2, <2>3, <2>4
       DEF MigrationStep, Refused, CreateMigrationTable, GetMigrationStatus, Skip, Begin, NameTaken, Rollback,
           StatementFails, QueryFails, migrationVars
<1>4. ASSUME NEW o \in orphans, OrphanActs(o) \/ OrphanFails(o) PROVE [History!Next]_(History!vars)
  <2> USE DEF IndInv, TypeOK
  <2>1. o.file \in Files /\ o.does \in {"execute", "record", "commit"} /\ History!InTurn(o.file)
    BY <1>2 DEF Orphan, InOrder
  <2>2. CASE OrphanFails(o)
    BY <1>1, <2>2 DEF OrphanFails
  <2>3. CASE OrphanActs(o) /\ o.does = "execute"
    <3>1. History!Execute(o.file)
      BY <2>1, <2>3 DEF OrphanActs, ExecutedFirst, History!Execute
    <3>2. QED
      BY <2>1, <3>1
  <2>4. CASE OrphanActs(o) /\ o.does = "record"
    <3>1. o.file \in SelfCommitting /\ executed[o.file] > 0
      BY <2>4 DEF ExecutedFirst
    <3>2. CASE o.file \in recorded
      <4>1. UNCHANGED <<executed, recorded, told>>
        BY <2>4, <3>1, <3>2 DEF OrphanActs, TakesEffect
      <4>2. QED
        BY <1>1, <4>1
    <3>3. CASE o.file \notin recorded
      <4>1. History!Record(o.file)
        BY <2>4, <3>1, <3>3 DEF OrphanActs, TakesEffect, History!Record
      <4>2. QED
        BY <2>1, <4>1
    <3>4. QED
      BY <3>2, <3>3
  <2>5. CASE OrphanActs(o) /\ o.does = "commit"
    <3>1. o.file \notin SelfCommitting /\ o \in Abandoned(o.file)
      BY <2>5 DEF ExecutedFirst, Abandoned
    <3>2. o.file \notin recorded
      BY <2>1, <3>1 DEF NamesUnique
    <3>3. History!ExecuteAndRecord(o.file)
      BY <2>1, <2>5, <3>1, <3>2 DEF OrphanActs, TakesEffect, History!ExecuteAndRecord
    <3>4. QED
      BY <2>1, <3>3
  <2>6. QED
    BY <1>4, <2>1, <2>2, <2>3, <2>4, <2>5
<1>5. CASE Crash \/ UNCHANGED vars \/ UNCHANGED migrationVars
  BY <1>1, <1>5 DEF Crash, vars, migrationVars
<1>6. QED
  BY <1>3, <1>4, <1>5, NextCases

(***************************************************************************)
(* runMigrations() keeps its promise: executed in order, recorded only     *)
(* when executed, and a caller is told that all is done only when it is.   *)
(***************************************************************************)
THEOREM HistoryImplemented == Spec => ImplementsHistory
<1>1. Init => History!Init
  BY DEF Init, History!Init, Files, History!Files
<1>2. QED
  BY <1>1, HistoryStep, MigrationsInvariant, PTL DEF Spec, ImplementsHistory, History!Spec


================================================================================
