-------------------------- MODULE WormStoreProperties --------------------------
(***************************************************************************)
(* What makes the audit table trustworthy, over the specification          *)
(* WormStore.                                                              *)
(***************************************************************************)
EXTENDS WormStore

(***************************************************************************)
(* Every variable keeps its type, and only the call that opened the        *)
(* transaction of pruneAuditEvents is at one of its statements.            *)
(***************************************************************************)
TypeOK ==
    /\ layout \in Layouts
    /\ db \in TableState
    /\ tx \in [owner : Calls, state : TableState] \cup {None}
    /\ \A c \in Calls : pc[c] \in PruneStatements \ {"disable"} => tx # None /\ tx.owner = c
    /\ kind \in [Calls -> Kinds \cup {None}]
    /\ before \in [Calls -> Times]
    /\ moved \in [Calls -> Nat]
    /\ protectedTables \in BOOLEAN
    /\ now \in Times
    /\ exposed \subseteq accepted /\ accepted \subseteq Row

(***************************************************************************)
(* pruneAuditEvents(): whatever statements fail, whatever answers are lost *)
(* and whoever else prunes, inserts, tries to change rows or takes the     *)
(* protection away and gives it back meanwhile, a committed row that was   *)
(* never in an unprotected table is, as it was, in the table or in the     *)
(* archive, and no row is in both.                                         *)
(***************************************************************************)
NothingLost ==
    /\ accepted \ exposed \subseteq db.audit \cup db.archive
    /\ db.audit \cap db.archive = {}

(***************************************************************************)
(* verifyWormStatus() only looks whether there is a trigger: no committed  *)
(* state has one that does not block, so what it calls compliant is.       *)
(***************************************************************************)
VerifyWormStatus(state) == state.worm # "absent"

CompliantIsBlocked == VerifyWormStatus(db) => Blocked(db)

Ended == {"idle", "done", "failed", "broken"}

(***************************************************************************)
(* WormEnforcer: a table in protectedTables is protected once no call is   *)
(* under way, however many enforceWorm() dropped and made the trigger at   *)
(* the same time, unless one of them was cut off or the protection removed *)
(***************************************************************************)
ProtectedIsBlocked ==
    protectedTables /\ (\A c \in Calls : pc[c] \in Ended \ {"broken"} /\ kind[c] # "remove")
        => db.worm = "enabled"

(***************************************************************************)
(* The audit table with its retention implements the abstract table: while *)
(* a trigger blocks, committed rows never change, and leave only for the   *)
(* archive, in a prune that audits itself with their number; enforcing and *)
(* removing the trigger touches no row.                                    *)
(***************************************************************************)
MovedOf(row) == row.moved

Abstract == INSTANCE WormTable
                WITH Rows <- Row, Moved <- MovedOf, audit <- db.audit, archive <- db.archive,
                     protected <- Blocked(db)

ImplementsWormTable == Abstract!Spec

(***************************************************************************)
(* The finally of pruneAuditEvents(): the lock of its transaction, which   *)
(* keeps every application from inserting audit events, is released.       *)
(***************************************************************************)
LockReleased == (tx # None) ~> (tx = None)

================================================================================
