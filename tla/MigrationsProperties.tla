------------------------- MODULE MigrationsProperties --------------------------
(***************************************************************************)
(* What makes the pool and the migrations correct, over the specification  *)
(* Migrations.                                                             *)
(***************************************************************************)
EXTENDS Migrations

(***************************************************************************)
(* createPool(), closePool(): a pool that is open can be reached through   *)
(* getPool(), unless its createPool() overlapped another one; and what     *)
(* getPool() returns is open, or somebody is closing it and will reset it. *)
(***************************************************************************)
NoPoolLost ==
    /\ \A p \in Jobs \ overlapped : IsOpen(p) => poolInstance = p
    /\ poolInstance # None =>
          IsOpen(poolInstance) \/ \E j \in Jobs : At(j, "closing") /\ using[j] = poolInstance

(***************************************************************************)
(* runMigrations(): while no two jobs migrate at once, each fault makes at *)
(* most one file be executed once more, one with a COMMIT of its own; the  *)
(* others are executed once whatever happens.                              *)
(***************************************************************************)
RepeatsExplained ==
    \A f \in Files :
        /\ f \notin SelfCommitting => executed[f] <= 1
        /\ ~ shared => executed[f] <= 1 + faults

(***************************************************************************)
(* runMigrations() keeps the promise of MigrationHistory to the callers of *)
(* several jobs that overlap, fail and are cut off.                        *)
(***************************************************************************)
History == INSTANCE MigrationHistory

ImplementsHistory == History!Spec

(***************************************************************************)
(* connectWithRetry(), runMigrations(), closePool(): every job comes to an *)
(* end, whichever statements fail and whoever closes the pool it works     *)
(* with, except one whose first query on a new connection failed.          *)
(***************************************************************************)
JobsEnd == \A j \in Jobs : ~ At(j, "idle") ~> At(j, "done") \/ At(j, "hangs")

================================================================================
