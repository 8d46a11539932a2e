------------------------------- MODULE WormStore -------------------------------
(***************************************************************************)
(* The audit table of packages/cos-plus/src: its WORM triggers (worm.ts),  *)
(* its retention (audit.ts) and the retention function of the migrations   *)
(* (db/migrations/002 and 005), over what PostgreSQL does with statements, *)
(* table locks and transactions.                                           *)
(*                                                                         *)
(* A call of the module is a series of statements on connections of a      *)
(* pool, and calls of several processes overlap.  A statement commits at   *)
(* once, but for those of pruneAuditEvents, which has one transaction: its *)
(* first statement, ALTER TABLE, locks the table against all that writes   *)
(* it or alters it until the end of the transaction.                       *)
(***************************************************************************)
EXTENDS Naturals, FiniteSets

CONSTANTS
    Calls,          \* the calls of the module in a behaviour, each made once
    Kinds,          \* which calls are made, see CallKinds
    Events,         \* the audit events applications insert, each once
    Layouts,        \* who made the table, see Tables
    None,
    MaxTime         \* bound: ticks of the clock

CallKinds == {"prune", "prune_expired", "enforce", "remove"}

ASSUME WormStoreAssumption ==
    /\ Kinds \subseteq CallKinds
    /\ Layouts \subseteq {"cos-plus", "migrations"}
    /\ MaxTime \in Nat
    /\ Events \cap Calls = {}
    /\ None \notin Calls

Times == 0 .. MaxTime

\* A row; the event of a prune says how many rows it moved.
Row == [id : Events \cup Calls, at : Times, moved : Nat, original : BOOLEAN]

TriggerStates == {"absent", "enabled", "disabled"}

TableState == [audit : SUBSET Row, archive : SUBSET Row, worm : TriggerStates,
               trg : TriggerStates, function : BOOLEAN]

ASSUME NoneAssumption == None \notin CallKinds \cup [owner : Calls, state : TableState]

VARIABLES
    layout,
    db,              \* what is committed: the tables, the two triggers, the function
    tx,              \* the open transaction: its owner and what it sees, or None
    pc, kind, before, moved,      \* the calls
    protectedTables, \* whether the table is in the set of the WormEnforcer
    now,
    accepted,        \* history: the rows that were ever committed to the audit table
    exposed          \* history: those that were there while the table did not block

callVars == <<pc, kind, before, moved>>
history  == <<accepted, exposed>>
vars == <<layout, db, tx, callVars, protectedTables, now, history>>

(***************************************************************************)
(* The table as createAuditTable() and enforceWorm() make it has the       *)
(* trigger worm_audit_events; as the migrations make it, it has            *)
(* trg_audit_events_worm and other columns.                                *)
(***************************************************************************)
Tables(by) ==
    [audit |-> {}, archive |-> {},
     worm |-> IF by = "cos-plus" THEN "enabled" ELSE "absent",
     trg |-> IF by = "migrations" THEN "enabled" ELSE "absent",
     function |-> by = "cos-plus"]

Init ==
    /\ layout \in Layouts
    /\ db = Tables(layout)
    /\ tx = None
    /\ pc = [c \in Calls |-> "idle"]
    /\ kind = [c \in Calls |-> None]
    /\ before = [c \in Calls |-> 0]
    /\ moved = [c \in Calls |-> 0]
    /\ protectedTables = FALSE
    /\ now = 0
    /\ accepted = {}
    /\ exposed = {}

-------------------------------------------------------------------------------
(* PostgreSQL.                                                             *)

\* The row triggers raise for an UPDATE or a DELETE of any row.
Blocked(state) == "enabled" \in {state.worm, state.trg}

Unlocked == tx = None

Committed(state) ==
    /\ db' = state
    /\ accepted' = accepted \cup state.audit
    /\ exposed' = IF Blocked(state) THEN exposed ELSE exposed \cup state.audit

\* A statement of its own: it takes effect at once, if no transaction has the table.
Autocommit(state) ==
    /\ Unlocked
    /\ Committed(state)
    /\ UNCHANGED <<layout, tx, now>>

Goto(c, label) == pc' = [pc EXCEPT ![c] = label]

-------------------------------------------------------------------------------
(* Clients of the table.                                                   *)

\* insertAuditEvent(), whose caller may give created_at; elsewhere it is the time.
InsertAuditEvent(e, at) ==
    /\ layout = "migrations" => at = now
    /\ \A row \in db.audit \cup db.archive : row.id # e
    /\ e \in Events /\ at <= now
    /\ Autocommit([db EXCEPT !.audit = @ \cup {[id |-> e, at |-> at, moved |-> 0, original |-> TRUE]}])
    /\ UNCHANGED <<callVars, protectedTables>>

\* Any client of the database may try to change a row.
UpdateRow(row) ==
    /\ ~ Blocked(db)
    /\ row \in db.audit
    /\ Autocommit([db EXCEPT !.audit = (@ \ {row}) \cup {[row EXCEPT !.original = FALSE]}])
    /\ UNCHANGED <<callVars, protectedTables>>

DeleteRow(row) ==
    /\ ~ Blocked(db)
    /\ row \in db.audit
    /\ Autocommit([db EXCEPT !.audit = @ \ {row}])
    /\ UNCHANGED <<callVars, protectedTables>>

-------------------------------------------------------------------------------
(* pruneAuditEvents().                                                     *)

FirstStatement == [prune |-> "disable", prune_expired |-> "prune_expired",
                   enforce |-> "function", remove |-> "drop_for_good"]

Call(c, k, date) ==
    /\ pc[c] = "idle"
    /\ k = "prune_expired" => layout = "migrations"
    /\ Goto(c, FirstStatement[k])
    /\ kind' = [kind EXCEPT ![c] = k]
    /\ before' = [before EXCEPT ![c] = date]
    /\ UNCHANGED <<layout, db, tx, moved, protectedTables, now, history>>

Expired(rows, date) == { row \in rows : row.at < date }

PruneEvent(c) == [id |-> c, at |-> now, moved |-> moved[c], original |-> TRUE]

\* Mutant: it does not wait.
DisableUnlocked(c) ==
    /\ pc[c] = "disable"
    /\ db.worm # "absent"
    /\ tx' = [owner |-> c, state |-> [db EXCEPT !.worm = "disabled"]]
    /\ Goto(c, "archive")
    /\ UNCHANGED <<layout, db, kind, before, moved, protectedTables, now, history>>

\* BEGIN and ALTER TABLE ... DISABLE TRIGGER, which waits for the table.
DisableTrigger(c) ==
    /\ pc[c] = "disable"
    /\ Unlocked
    /\ db.worm # "absent"
    /\ tx' = [owner |-> c, state |-> [db EXCEPT !.worm = "disabled"]]
    /\ Goto(c, "archive")
    /\ UNCHANGED <<layout, db, kind, before, moved, protectedTables, now, history>>

\* The next statement of the transaction of c.
InTransaction(c, statement, state, next) ==
    /\ pc[c] = statement
    /\ tx' = [tx EXCEPT !.state = state]
    /\ Goto(c, next)
    /\ UNCHANGED <<layout, db, kind, before, protectedTables, now, history>>

\* The columns it copies are those of createAuditTable().
Archive(c) ==
    LET expired == Expired(tx.state.audit, before[c]) IN
    /\ layout = "cos-plus"
    /\ InTransaction(c, "archive", [tx.state EXCEPT !.archive = @ \cup expired], "delete")
    /\ moved' = [moved EXCEPT ![c] = Cardinality(expired)]

\* Mutant: <= for <.
DeleteInclusive(c) ==
    /\ pc[c] = "delete"
    /\ ~ Blocked(tx.state)
    /\ InTransaction(c, "delete",
           [tx.state EXCEPT !.audit = @ \ Expired(@, before[c] + 1)], "enable")
    /\ UNCHANGED moved

Delete(c) ==
    /\ pc[c] = "delete"
    /\ ~ Blocked(tx.state)
    /\ InTransaction(c, "delete",
           [tx.state EXCEPT !.audit = @ \ Expired(@, before[c])], "enable")
    /\ UNCHANGED moved

\* Mutant: the trigger stays disabled.
EnableForgotten(c) ==
    /\ InTransaction(c, "enable", tx.state, "record")
    /\ UNCHANGED moved

EnableTrigger(c) ==
    /\ InTransaction(c, "enable", [tx.state EXCEPT !.worm = "enabled"], "record")
    /\ UNCHANGED moved

\* Mutant: the event of the prune does not say how many rows it moved.
PruneMiscounted(c) ==
    /\ InTransaction(c, "record",
           [tx.state EXCEPT !.audit = @ \cup {[PruneEvent(c) EXCEPT !.moved = 0]}], "commit")
    /\ UNCHANGED moved

RecordPrune(c) ==
    /\ InTransaction(c, "record", [tx.state EXCEPT !.audit = @ \cup {PruneEvent(c)}], "commit")
    /\ UNCHANGED moved

\* The answer to COMMIT may be lost: the call then takes it for a failure.
Commit(c) ==
    /\ pc[c] = "commit"
    /\ Committed(tx.state)
    /\ tx' = None
    /\ \E label \in {"done", "rollback"} : Goto(c, label)
    /\ UNCHANGED <<layout, kind, before, moved, protectedTables, now>>

PruneStatements == {"disable", "archive", "delete", "enable", "record", "commit"}

\* A statement fails, or its connection does: nothing but the transaction is undone.
PruneFails(c) ==
    /\ pc[c] \in PruneStatements
    /\ Goto(c, "rollback")
    /\ UNCHANGED <<layout, db, tx, kind, before, moved, protectedTables, now, history>>

\* Mutant: the connection goes back to the pool with its transaction.
RollbackForgotten(c) ==
    /\ pc[c] = "rollback"
    /\ Goto(c, "failed")
    /\ UNCHANGED <<layout, db, tx, kind, before, moved, protectedTables, now, history>>

\* ROLLBACK; where the connection is gone PostgreSQL ends the transaction.
Rollback(c) ==
    /\ pc[c] = "rollback"
    /\ tx' = IF tx # None /\ tx.owner = c THEN None ELSE tx
    /\ Goto(c, "failed")
    /\ UNCHANGED <<layout, db, kind, before, moved, protectedTables, now, history>>

(***************************************************************************)
(* prune_expired_audit_events() of migration 005: one statement, which     *)
(* does not touch the triggers; DELETE raises for the first row, and the   *)
(* archive is undone with it.                                              *)
(***************************************************************************)
PruneExpired(c) ==
    LET expired == Expired(db.audit, before[c])
        row     == [PruneEvent(c) EXCEPT !.moved = Cardinality(expired)]
    IN
    /\ pc[c] = "prune_expired"
    /\ IF expired = {}
       THEN Goto(c, "done") /\ Autocommit(db)
       ELSE IF Blocked(db)
       THEN Goto(c, "failed") /\ Autocommit(db)
       ELSE /\ Goto(c, "done")
            /\ Autocommit([db EXCEPT !.audit = (@ \ expired) \cup {row},
                                     !.archive = @ \cup expired])
    /\ UNCHANGED <<kind, before, moved, protectedTables>>

-------------------------------------------------------------------------------
(* enforceWorm() and removeWorm(), called by WormEnforcer's protect() and  *)
(* unprotect(): statements that commit one by one.                         *)

Statement(c, statement, state, next) ==
    /\ pc[c] = statement
    /\ Autocommit(state)
    /\ Goto(c, next)
    /\ UNCHANGED <<kind, before, moved, protectedTables>>

CreateFunction(c) == Statement(c, "function", [db EXCEPT !.function = TRUE], "drop")

\* Mutant: the trigger is not made again.
DropOnly(c) == Statement(c, "drop", [db EXCEPT !.worm = "absent"], "add")

DropTrigger(c) == Statement(c, "drop", [db EXCEPT !.worm = "absent"], "create")

\* There must be the function and no such trigger.
CreateTrigger(c) ==
    IF db.function /\ db.worm = "absent"
    THEN Statement(c, "create", [db EXCEPT !.worm = "enabled"], "add")
    ELSE Statement(c, "create", db, "failed")

DropForGood(c) == Statement(c, "drop_for_good", [db EXCEPT !.worm = "absent"], "drop_function")

\* A trigger that was made since keeps the function.
DropFunction(c) ==
    IF db.worm = "absent"
    THEN Statement(c, "drop_function", [db EXCEPT !.function = FALSE], "forget")
    ELSE Statement(c, "drop_function", db, "failed")

\* protectedTables.add and .delete, when the answers have come.
Remember(c) ==
    /\ pc[c] \in {"add", "forget"}
    /\ protectedTables' = (pc[c] = "add")
    /\ Goto(c, "done")
    /\ UNCHANGED <<layout, db, tx, kind, before, moved, now, history>>

\* A statement, or its connection, fails: what was done stays.
CallBreaks(c) ==
    /\ pc[c] \in {"function", "drop", "create", "drop_for_good", "drop_function", "prune_expired"}
    /\ Goto(c, "broken")
    /\ UNCHANGED <<layout, db, tx, kind, before, moved, protectedTables, now, history>>

-------------------------------------------------------------------------------

\* The process of c ends: PostgreSQL ends its transaction.
Crash(c) ==
    /\ pc[c] \notin {"idle", "done", "failed", "broken"}
    /\ Goto(c, "broken")
    /\ tx' = IF tx # None /\ tx.owner = c THEN None ELSE tx
    /\ UNCHANGED <<layout, db, kind, before, moved, protectedTables, now, history>>

Tick ==
    /\ now < MaxTime
    /\ now' = now + 1
    /\ UNCHANGED <<layout, db, tx, callVars, protectedTables, history>>

Prune(c) == \/ DisableTrigger(c) \/ Archive(c) \/ Delete(c) \/ EnableTrigger(c)
            \/ RecordPrune(c) \/ Commit(c) \/ PruneFails(c) \/ Rollback(c)
Protect(c) == \/ CreateFunction(c) \/ DropTrigger(c) \/ CreateTrigger(c)
              \/ DropForGood(c) \/ DropFunction(c) \/ Remember(c) \/ CallBreaks(c)

Next ==
    \/ \E c \in Calls : \/ \E k \in Kinds : \E date \in Times : Call(c, k, date)
                        \/ Prune(c) \/ PruneExpired(c) \/ Protect(c) \/ Crash(c)
    \/ \E e \in Events : \E at \in Times : InsertAuditEvent(e, at)
    \/ \E row \in db.audit : UpdateRow(row) \/ DeleteRow(row)
    \/ Tick

Spec == Init /\ [][Next]_vars

\* A statement is answered or fails, and its caller goes on.
FairSpec == Spec /\ \A c \in Calls : WF_vars(Prune(c))

================================================================================
