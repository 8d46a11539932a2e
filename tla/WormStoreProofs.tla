---------------------------- MODULE WormStoreProofs -----------------------------
(***************************************************************************)
(* Proofs about WormStore, for every set of calls and events, both layouts *)
(* of the table and every length of time.                                  *)
(***************************************************************************)
EXTENDS WormStoreProperties, FiniteSetTheorems, TLAPS

EnforceLabels == {"function", "drop", "create", "add"}
RemoveLabels == {"drop_for_good", "drop_function", "forget"}

Labels == PruneStatements \cup EnforceLabels \cup RemoveLabels
              \cup {"rollback", "prune_expired"} \cup Ended

Types ==
    /\ TypeOK
    /\ pc \in [Calls -> Labels]
    /\ IsFiniteSet(db.audit)

(***************************************************************************)
(* The transaction of a prune: nobody else writes the table meanwhile, so  *)
(* what it sees is what is committed and what its statements have done.    *)
(***************************************************************************)
TxFits ==
    LET c == tx.owner
        state == tx.state
        expired == Expired(db.audit, before[c])
    IN
    tx # None =>
        /\ pc[c] \in (PruneStatements \ {"disable"}) \cup {"rollback"}
        /\ db.worm = "enabled"
        /\ state.trg = db.trg /\ state.function = db.function
        /\ pc[c] = "archive" => state.audit = db.audit /\ state.archive = db.archive
        /\ pc[c] \in {"delete", "enable", "record", "commit"} =>
              state.archive = db.archive \cup expired /\ moved[c] = Cardinality(expired)
        /\ pc[c] = "delete" => state.audit = db.audit
        /\ pc[c] \in {"enable", "record"} => state.audit = db.audit \ expired
        /\ pc[c] = "commit" =>
              \E row \in state.audit : /\ row.id = c /\ row.moved = Cardinality(expired)
                                       /\ state.audit = (db.audit \ expired) \cup {row}
        /\ pc[c] \in {"record", "commit"} => state.worm = "enabled"

\* Committed triggers are there, enabled, or not at all.
TriggersFit == {db.worm, db.trg} \subseteq {"absent", "enabled"}

\* A row has one place, and that of a call is there only when the call has written it.
RowsFit ==
    /\ \A r, q \in db.audit \cup db.archive : r.id = q.id => r = q
    /\ \A r \in db.audit \cup db.archive : r.id \in Calls =>
          pc[r.id] \in {"done", "rollback", "failed", "broken"}

\* Where rows can be changed they are known to be exposed.
ExposedFits == Blocked(db) \/ db.audit \subseteq exposed

(***************************************************************************)
(* Without a removal and without a call that was cut off, a trigger that   *)
(* somebody was told of is there, or a call is about to make it again, and *)
(* can, because the function is there.                                     *)
(***************************************************************************)
ProtectionFits ==
    /\ \A c \in Calls : pc[c] \in RemoveLabels => kind[c] = "remove"
    /\ \A c \in Calls : pc[c] = "idle" => kind[c] = None
    /\ (\A c \in Calls : kind[c] # "remove" /\ pc[c] # "broken") =>
          /\ \A c \in Calls : pc[c] \in {"drop", "create", "add"} => db.function
          /\ protectedTables \/ (\E c \in Calls : pc[c] = "add") =>
                db.worm = "enabled" \/ \E c \in Calls : pc[c] = "create"

IndInv == Types /\ TxFits /\ TriggersFit /\ RowsFit /\ NothingLost /\ ExposedFits /\ ProtectionFits

-------------------------------------------------------------------------------
(* Steps.                                                                  *)

LEMMA NextCases ==
    ASSUME Next
    PROVE  \/ \E c \in Calls :
                 \/ \E k \in Kinds : \E date \in Times : Call(c, k, date)
                 \/ DisableTrigger(c) \/ Archive(c) \/ Delete(c) \/ EnableTrigger(c) \/ RecordPrune(c)
                 \/ Commit(c) \/ PruneFails(c) \/ Rollback(c)
                 \/ PruneExpired(c)
                 \/ CreateFunction(c) \/ DropTrigger(c) \/ CreateTrigger(c)
                 \/ DropForGood(c) \/ DropFunction(c) \/ Remember(c) \/ CallBreaks(c)
                 \/ Crash(c)
           \/ \E e \in Events : \E at \in Times : InsertAuditEvent(e, at)
           \/ \E row \in db.audit : UpdateRow(row) \/ DeleteRow(row)
           \/ Tick
BY DEF Next, Prune, Protect

\* What becomes of the table is still a table.
LEMMA CommittedTypes ==
    ASSUME Types, NEW state \in TableState, IsFiniteSet(state.audit), Committed(state)
    PROVE  /\ db' \in TableState /\ IsFiniteSet(db'.audit)
           /\ exposed' \subseteq accepted' /\ accepted' \subseteq Row
BY DEF Types, TypeOK, Committed, TableState

LEMMA RowTypes ==
    ASSUME Types, NEW at \in Times
    PROVE  /\ \A e \in Events : [id |-> e, at |-> at, moved |-> 0, original |-> TRUE] \in Row
           /\ \A c \in Calls : PruneEvent(c) \in Row
           /\ \A row \in Row : [row EXCEPT !.original = FALSE] \in Row
BY DEF Types, TypeOK, Row, PruneEvent

\* The expired rows of a table can be counted, and so can those that stay.
LEMMA ExpiredFinite ==
    ASSUME NEW rows, IsFiniteSet(rows), NEW date
    PROVE  /\ Expired(rows, date) \subseteq rows
           /\ IsFiniteSet(Expired(rows, date)) /\ Cardinality(Expired(rows, date)) \in Nat
           /\ IsFiniteSet(rows \ Expired(rows, date))
<1>1. Expired(rows, date) \subseteq rows /\ rows \ Expired(rows, date) \subseteq rows
  BY DEF Expired
<1>2. QED
  BY <1>1, FS_Subset, FS_CardinalityType

\* The statements of the transaction leave what is committed alone.
LEMMA InTransactionTypes ==
    ASSUME Types, NEW c \in Calls, NEW statement \in PruneStatements \ {"disable"}, NEW state \in TableState,
           NEW label \in PruneStatements \ {"disable"},
           InTransaction(c, statement, state, label), moved' \in [Calls -> Nat]
    PROVE  Types'
<1>1. tx # None /\ tx.owner = c /\ tx' = [tx EXCEPT !.state = state]
  BY DEF InTransaction, Types, TypeOK
<1>2. tx' \in [owner : Calls, state : TableState] /\ tx'.owner = c
  BY <1>1 DEF Types, TypeOK
<1>3. tx' # None
  BY <1>2, NoneAssumption
<1>4. pc' \in [Calls -> Labels] /\ \A k \in Calls \ {c} : pc'[k] = pc[k]
  BY DEF InTransaction, Goto, Types, Labels
<1>5. QED
  BY <1>1, <1>2, <1>3, <1>4 DEF InTransaction, history, Types, TypeOK

LEMMA AutocommitTypes ==
    ASSUME Types, NEW state \in TableState, IsFiniteSet(state.audit), Autocommit(state),
           UNCHANGED <<kind, before, moved, protectedTables>>,
           pc' \in [Calls -> Labels],
           \A c \in Calls : pc'[c] = pc[c] \/ pc'[c] \notin PruneStatements
    PROVE  Types'
<1>1. /\ db' \in TableState /\ IsFiniteSet(db'.audit)
      /\ exposed' \subseteq accepted' /\ accepted' \subseteq Row
  BY CommittedTypes DEF Autocommit
<1>2. QED
  BY <1>1 DEF Autocommit, Types, TypeOK, PruneStatements

LEMMA StatementTypes ==
    ASSUME Types, NEW c \in Calls, NEW statement, NEW state \in TableState, IsFiniteSet(state.audit),
           NEW label \in Labels \ PruneStatements, Statement(c, statement, state, label)
    PROVE  Types'
<1>1. pc' \in [Calls -> Labels] /\ \A k \in Calls : pc'[k] = pc[k] \/ pc'[k] \notin PruneStatements
  BY DEF Statement, Goto, Types
<1>2. QED
  BY <1>1, AutocommitTypes DEF Statement

\* A step that touches neither the table nor the transaction.
LEMMA IdleTypes ==
    ASSUME Types, UNCHANGED <<layout, db, tx, history>>,
           kind' \in [Calls -> Kinds \cup {None}], before' \in [Calls -> Times], moved' \in [Calls -> Nat],
           protectedTables' \in BOOLEAN, now' \in Times,
           pc' \in [Calls -> Labels],
           \A c \in Calls : pc'[c] = pc[c] \/ pc'[c] \notin PruneStatements \ {"disable"}
    PROVE  Types'
BY DEF Types, TypeOK, history

LEMMA TypesStep == Types /\ TxFits /\ [Next]_vars => Types'
<1> SUFFICES ASSUME Types, TxFits, [Next]_vars PROVE Types'
  OBVIOUS
<1> USE DEF Goto
<1>0. db \in TableState /\ IsFiniteSet(db.audit) /\ pc \in [Calls -> Labels] /\ now \in Times
  BY DEF Types, TypeOK
<1>1. ASSUME NEW c \in Calls, NEW k \in Kinds, NEW date \in Times, Call(c, k, date) PROVE Types'
  <2>1. FirstStatement[k] \in Labels \ (PruneStatements \ {"disable"})
    BY WormStoreAssumption DEF FirstStatement, CallKinds, Labels, PruneStatements, EnforceLabels, RemoveLabels
  <2>2. QED
    BY <1>1, <2>1, IdleTypes DEF Call, Types, TypeOK
<1>2. ASSUME NEW c \in Calls, DisableTrigger(c) PROVE Types'
  <2>1. tx' \in [owner : Calls, state : TableState] /\ tx'.owner = c
    BY <1>0, <1>2 DEF DisableTrigger, TableState, TriggerStates
  <2>2. tx' # None
    BY <2>1, NoneAssumption
  <2>3. \A k \in Calls \ {c} : pc'[k] \notin PruneStatements \ {"disable"}
    BY <1>2 DEF DisableTrigger, Unlocked, Types, TypeOK
  <2>4. pc' \in [Calls -> Labels]
    BY <1>2 DEF DisableTrigger, Types, Labels, PruneStatements
  <2>5. QED
    BY <1>2, <2>1, <2>2, <2>3, <2>4 DEF DisableTrigger, Types, TypeOK, history
<1>3. ASSUME NEW c \in Calls, NEW statement \in PruneStatements \ {"disable"}, pc[c] = statement
      PROVE  tx.state \in TableState
  BY <1>3 DEF Types, TypeOK
<1>4. ASSUME NEW c \in Calls, Archive(c) PROVE Types'
  <2>1. PICK expired : expired = Expired(tx.state.audit, before[c])
    OBVIOUS
  <2>2. pc[c] = "archive" /\ tx.state \in TableState
    BY <1>3, <1>4 DEF Archive, InTransaction, PruneStatements
  <2>3. tx # None /\ tx.owner = c
    BY <2>2 DEF Types, TypeOK, PruneStatements
  <2>4. tx.state.audit = db.audit
    BY <2>2, <2>3 DEF TxFits
  <2>5. expired \subseteq tx.state.audit /\ Cardinality(expired) \in Nat
    BY <1>0, <2>1, <2>4, ExpiredFinite
  <2>6. [tx.state EXCEPT !.archive = @ \cup expired] \in TableState
    BY <2>2, <2>5 DEF TableState
  <2>7. moved' = [moved EXCEPT ![c] = Cardinality(expired)]
        /\ InTransaction(c, "archive", [tx.state EXCEPT !.archive = @ \cup expired], "delete")
    BY <1>4, <2>1 DEF Archive
  <2>8. moved' \in [Calls -> Nat]
    BY <2>5, <2>7 DEF Types, TypeOK
  <2>9. QED
    BY <2>6, <2>7, <2>8, InTransactionTypes DEF PruneStatements
<1>5. ASSUME NEW c \in Calls, Delete(c) PROVE Types'
  <2>1. tx.state \in TableState
    BY <1>3, <1>5 DEF Delete, PruneStatements
  <2>2. [tx.state EXCEPT !.audit = @ \ Expired(@, before[c])] \in TableState
    BY <2>1 DEF TableState
  <2>3. moved' \in [Calls -> Nat]
    BY <1>5 DEF Delete, Types, TypeOK
  <2>4. QED
    BY <1>5, <2>2, <2>3, InTransactionTypes DEF Delete, PruneStatements
<1>6. ASSUME NEW c \in Calls, EnableTrigger(c) PROVE Types'
  <2>1. tx.state \in TableState
    BY <1>3, <1>6 DEF EnableTrigger, InTransaction, PruneStatements
  <2>2. [tx.state EXCEPT !.worm = "enabled"] \in TableState
    BY <2>1 DEF TableState, TriggerStates
  <2>3. moved' \in [Calls -> Nat]
    BY <1>6 DEF EnableTrigger, Types, TypeOK
  <2>4. QED
    BY <1>6, <2>2, <2>3, InTransactionTypes DEF EnableTrigger, PruneStatements
<1>7. ASSUME NEW c \in Calls, RecordPrune(c) PROVE Types'
  <2>1. tx.state \in TableState
    BY <1>3, <1>7 DEF RecordPrune, InTransaction, PruneStatements
  <2>2. [tx.state EXCEPT !.audit = @ \cup {PruneEvent(c)}] \in TableState
    BY <1>0, <2>1, RowTypes DEF TableState
  <2>3. moved' \in [Calls -> Nat]
    BY <1>7 DEF RecordPrune, Types, TypeOK
  <2>4. QED
    BY <1>7, <2>2, <2>3, InTransactionTypes DEF RecordPrune, PruneStatements
<1>8. ASSUME NEW c \in Calls, Commit(c) PROVE Types'
  <2>1. tx # None /\ tx.owner = c /\ tx.state \in TableState
    BY <1>3, <1>8 DEF Commit, Types, TypeOK, PruneStatements
  <2>2. PICK row : tx.state.audit = (db.audit \ Expired(db.audit, before[c])) \cup {row}
    BY <1>8, <2>1 DEF Commit, TxFits
  <2>3. IsFiniteSet(tx.state.audit)
    <3>1. PICK kept : kept = db.audit \ Expired(db.audit, before[c])
      OBVIOUS
    <3>2. IsFiniteSet(kept)
      BY <1>0, <3>1, ExpiredFinite
    <3>3. QED
      BY <2>2, <3>1, <3>2, FS_AddElement
  <2>4. /\ db' \in TableState /\ IsFiniteSet(db'.audit)
        /\ exposed' \subseteq accepted' /\ accepted' \subseteq Row
    BY <1>8, <2>1, <2>3, CommittedTypes DEF Commit
  <2>5. pc' \in [Calls -> Labels] /\ pc'[c] \notin PruneStatements /\ \A k \in Calls \ {c} : pc'[k] = pc[k]
    BY <1>8 DEF Commit, Types, Labels, Ended, PruneStatements
  <2>6. \A k \in Calls : pc'[k] \notin PruneStatements \ {"disable"}
    BY <2>1, <2>5 DEF Types, TypeOK
  <2>7. QED
    BY <1>8, <2>4, <2>5, <2>6 DEF Commit, Types, TypeOK
<1>9. ASSUME NEW c \in Calls, PruneFails(c) \/ Remember(c) \/ CallBreaks(c) PROVE Types'
  <2>1. pc' \in [Calls -> Labels] /\ \A k \in Calls : pc'[k] = pc[k] \/ pc'[k] \notin PruneStatements
    BY <1>9 DEF PruneFails, Remember, CallBreaks, Types, Labels, Ended, PruneStatements
  <2>2. QED
    BY <1>9, <2>1, IdleTypes DEF PruneFails, Remember, CallBreaks, Types, TypeOK
<1>10. ASSUME NEW c \in Calls, Rollback(c) \/ Crash(c) PROVE Types'
  <2>1. pc' \in [Calls -> Labels] /\ pc'[c] \notin PruneStatements /\ \A k \in Calls \ {c} : pc'[k] = pc[k]
    BY <1>10 DEF Rollback, Crash, Types, Labels, Ended, PruneStatements
  <2>2. \A k \in Calls : pc'[k] \in PruneStatements \ {"disable"} => tx' # None /\ tx'.owner = k
    BY <1>10, <2>1 DEF Rollback, Crash, Types, TypeOK
  <2>3. QED
    BY <1>10, <2>1, <2>2 DEF Rollback, Crash, Types, TypeOK, history
<1>11. ASSUME NEW c \in Calls, PruneExpired(c) PROVE Types'
  <2>1. PICK expired : expired = Expired(db.audit, before[c])
    OBVIOUS
  <2>2. expired \subseteq db.audit /\ Cardinality(expired) \in Nat /\ IsFiniteSet(db.audit \ expired)
    BY <1>0, <2>1, ExpiredFinite
  <2>3. PICK row : row = [PruneEvent(c) EXCEPT !.moved = Cardinality(expired)]
    OBVIOUS
  <2>4. row \in Row
    BY <1>0, <2>2, <2>3 DEF PruneEvent, Row
  <2>5. PICK state : state = [db EXCEPT !.audit = (@ \ expired) \cup {row}, !.archive = @ \cup expired]
    OBVIOUS
  <2>6. state \in TableState /\ state.audit = (db.audit \ expired) \cup {row}
    BY <1>0, <2>2, <2>4, <2>5 DEF TableState
  <2>7. IsFiniteSet(state.audit)
    BY <2>2, <2>6, FS_AddElement
  <2>8. Autocommit(db) \/ Autocommit(state)
    BY <1>11, <2>1, <2>3, <2>5 DEF PruneExpired
  <2>9. pc' \in [Calls -> Labels] /\ \A k \in Calls : pc'[k] = pc[k] \/ pc'[k] \notin PruneStatements
    BY <1>11 DEF PruneExpired, Types, Labels, Ended, PruneStatements
  <2>10. QED
    BY <1>0, <1>11, <2>6, <2>7, <2>8, <2>9, AutocommitTypes DEF PruneExpired
<1>12. ASSUME NEW c \in Calls,
              CreateFunction(c) \/ DropTrigger(c) \/ CreateTrigger(c) \/ DropForGood(c) \/ DropFunction(c)
       PROVE  Types'
  <2>1. /\ [db EXCEPT !.function = TRUE] \in TableState /\ [db EXCEPT !.function = FALSE] \in TableState
        /\ [db EXCEPT !.worm = "absent"] \in TableState /\ [db EXCEPT !.worm = "enabled"] \in TableState
        /\ [db EXCEPT !.function = TRUE].audit = db.audit /\ [db EXCEPT !.function = FALSE].audit = db.audit
        /\ [db EXCEPT !.worm = "absent"].audit = db.audit /\ [db EXCEPT !.worm = "enabled"].audit = db.audit
    BY <1>0 DEF TableState, TriggerStates
  <2>2. {"drop", "create", "add", "drop_function", "forget", "failed"} \subseteq Labels \ PruneStatements
    BY DEF Labels, EnforceLabels, RemoveLabels, Ended, PruneStatements
  <2>3. QED
    BY <1>0, <1>12, <2>1, <2>2, StatementTypes DEF CreateFunction, DropTrigger, CreateTrigger, DropForGood, DropFunction
<1>13. ASSUME NEW e \in Events, NEW at \in Times, InsertAuditEvent(e, at) PROVE Types'
  <2>1. PICK row : row = [id |-> e, at |-> at, moved |-> 0, original |-> TRUE]
    OBVIOUS
  <2>2. PICK state : state = [db EXCEPT !.audit = @ \cup {row}]
    OBVIOUS
  <2>3. state \in TableState /\ state.audit = db.audit \cup {row}
    BY <1>0, <2>1, <2>2, RowTypes DEF TableState
  <2>4. IsFiniteSet(state.audit)
    BY <1>0, <2>3, FS_AddElement
  <2>5. Autocommit(state)
    BY <1>13, <2>1, <2>2 DEF InsertAuditEvent
  <2>6. QED
    BY <1>0, <1>13, <2>3, <2>4, <2>5, AutocommitTypes DEF InsertAuditEvent, callVars
<1>14. ASSUME NEW row \in db.audit, UpdateRow(row) \/ DeleteRow(row) PROVE Types'
  <2>1. PICK changed : changed = [row EXCEPT !.original = FALSE]
    OBVIOUS
  <2>2. PICK updated : updated = [db EXCEPT !.audit = (@ \ {row}) \cup {changed}]
    OBVIOUS
  <2>3. PICK deleted : deleted = [db EXCEPT !.audit = @ \ {row}]
    OBVIOUS
  <2>4. row \in Row /\ changed \in Row
    BY <1>0, <2>1, RowTypes DEF TableState
  <2>5. /\ updated \in TableState /\ updated.audit = (db.audit \ {row}) \cup {changed}
        /\ deleted \in TableState /\ deleted.audit = db.audit \ {row}
    BY <1>0, <2>2, <2>3, <2>4 DEF TableState
  <2>6. IsFiniteSet(deleted.audit) /\ IsFiniteSet(updated.audit)
    BY <1>0, <2>5, FS_AddElement, FS_Subset
  <2>7. Autocommit(updated) \/ Autocommit(deleted)
    BY <1>14, <2>1, <2>2, <2>3 DEF UpdateRow, DeleteRow
  <2>8. QED
    BY <1>0, <1>14, <2>5, <2>6, <2>7, AutocommitTypes DEF UpdateRow, DeleteRow, callVars
<1>15. CASE Tick \/ UNCHANGED vars
  <2>1. now' \in Times
    BY <1>0, <1>15, WormStoreAssumption DEF Tick, vars, Times
  <2>2. QED
    BY <1>15, <2>1, IdleTypes DEF Tick, vars, callVars, history, Types, TypeOK
<1>16. QED
  BY <1>1, <1>2, <1>4, <1>5, <1>6, <1>7, <1>8, <1>9, <1>10, <1>11, <1>12, <1>13, <1>14, <1>15, NextCases

-------------------------------------------------------------------------------
(* The transaction.                                                        *)

\* While a call has the table the others neither write it nor see its transaction.
LEMMA OthersWait ==
    ASSUME Types, TxFits, tx # None, [Next]_vars,
           ~ Archive(tx.owner), ~ Delete(tx.owner), ~ EnableTrigger(tx.owner), ~ RecordPrune(tx.owner)
    PROVE  \/ tx' = None
           \/ /\ UNCHANGED <<db, tx, moved>> /\ before'[tx.owner] = before[tx.owner]
              /\ pc'[tx.owner] = pc[tx.owner] \/ pc'[tx.owner] = "rollback"
<1> DEFINE o == tx.owner
           Waits == /\ UNCHANGED <<db, tx, moved>> /\ before'[o] = before[o]
                    /\ pc'[o] = pc[o] \/ pc'[o] = "rollback"
<1> USE DEF Goto
<1>0. /\ o \in Calls /\ pc \in [Calls -> Labels] /\ before \in [Calls -> Times]
      /\ pc[o] \in (PruneStatements \ {"disable"}) \cup {"rollback"}
      /\ \A c \in Calls : pc[c] \in PruneStatements \ {"disable"} => c = o
  BY DEF Types, TypeOK, TxFits
<1>1. ASSUME NEW c \in Calls, NEW k \in Kinds, NEW date \in Times, Call(c, k, date) PROVE Waits
  BY <1>0, <1>1 DEF Call, PruneStatements
<1>2. ASSUME NEW c \in Calls,
             Archive(c) \/ Delete(c) \/ EnableTrigger(c) \/ RecordPrune(c)
      PROVE  FALSE
  BY <1>0, <1>2 DEF Archive, Delete, EnableTrigger, RecordPrune, InTransaction, PruneStatements
<1>3. ASSUME NEW c \in Calls, Commit(c) PROVE tx' = None
  BY <1>3 DEF Commit
<1>4. ASSUME NEW c \in Calls, PruneFails(c) \/ Rollback(c) \/ Crash(c) PROVE tx' = None \/ Waits
  BY <1>0, <1>4 DEF PruneFails, Rollback, Crash
<1>5. ASSUME NEW c \in Calls, Remember(c) \/ CallBreaks(c) PROVE Waits
  BY <1>0, <1>5 DEF Remember, CallBreaks, PruneStatements
<1>6. ASSUME NEW state, Autocommit(state) PROVE FALSE
  BY <1>6 DEF Autocommit, Unlocked
<1>7. ASSUME NEW c \in Calls, DisableTrigger(c) PROVE FALSE
  BY <1>7 DEF DisableTrigger, Unlocked
<1>8. ASSUME NEW c \in Calls,
             \/ CreateFunction(c) \/ DropTrigger(c) \/ CreateTrigger(c) \/ DropForGood(c) \/ DropFunction(c)
             \/ PruneExpired(c)
      PROVE  FALSE
  BY <1>6, <1>8 DEF CreateFunction, DropTrigger, CreateTrigger, DropForGood, DropFunction, Statement, PruneExpired
<1>9. ASSUME NEW e \in Events, NEW at \in Times, InsertAuditEvent(e, at) PROVE FALSE
  BY <1>6, <1>9 DEF InsertAuditEvent
<1>10. ASSUME NEW row \in db.audit, UpdateRow(row) \/ DeleteRow(row) PROVE FALSE
  BY <1>6, <1>10 DEF UpdateRow, DeleteRow
<1>11. CASE Tick \/ UNCHANGED vars
  BY <1>11 DEF Tick, vars, callVars
<1>12. QED
  BY <1>1, <1>2, <1>3, <1>4, <1>5, <1>7, <1>8, <1>9, <1>10, <1>11, NextCases

LEMMA OnlyDisableOpens ==
    ASSUME Types, tx = None, [Next]_vars
    PROVE  tx' = None \/ \E c \in Calls : DisableTrigger(c)
<1>1. ASSUME NEW c \in Calls, Archive(c) \/ Delete(c) \/ EnableTrigger(c) \/ RecordPrune(c)
      PROVE  FALSE
  BY <1>1 DEF Archive, Delete, EnableTrigger, RecordPrune, InTransaction, PruneStatements, Types, TypeOK
<1>2. ASSUME NEW c \in Calls,
             \/ \E k \in Kinds : \E date \in Times : Call(c, k, date)
             \/ Commit(c) \/ PruneFails(c) \/ Rollback(c) \/ Crash(c) \/ Remember(c) \/ CallBreaks(c)
      PROVE  tx' = None
  BY <1>2 DEF Call, Commit, PruneFails, Rollback, Crash, Remember, CallBreaks
<1>3. ASSUME NEW c \in Calls,
             \/ CreateFunction(c) \/ DropTrigger(c) \/ CreateTrigger(c) \/ DropForGood(c) \/ DropFunction(c)
             \/ PruneExpired(c)
      PROVE  tx' = None
  BY <1>3 DEF CreateFunction, DropTrigger, CreateTrigger, DropForGood, DropFunction, Statement, PruneExpired,
              Autocommit
<1>4. ASSUME NEW e \in Events, NEW at \in Times, InsertAuditEvent(e, at) PROVE tx' = None
  BY <1>4 DEF InsertAuditEvent, Autocommit
<1>5. ASSUME NEW row \in db.audit, UpdateRow(row) \/ DeleteRow(row) PROVE tx' = None
  BY <1>5 DEF UpdateRow, DeleteRow, Autocommit
<1>6. CASE Tick \/ UNCHANGED vars
  BY <1>6 DEF Tick, vars
<1>7. QED
  BY <1>1, <1>2, <1>3, <1>4, <1>5, <1>6, NextCases

LEMMA TxFitsStep == Types /\ TxFits /\ TriggersFit /\ [Next]_vars => TxFits'
<1> SUFFICES ASSUME Types, TxFits, TriggersFit, [Next]_vars PROVE TxFits'
  OBVIOUS
<1> USE DEF Goto
<1>0. pc \in [Calls -> Labels] /\ before \in [Calls -> Times] /\ moved \in [Calls -> Nat] /\ db \in TableState
  BY DEF Types, TypeOK
<1>1. CASE tx = None /\ ~ \E c \in Calls : DisableTrigger(c)
  <2>1. tx' = None
    BY <1>1, OnlyDisableOpens
  <2>2. QED
    BY <2>1 DEF TxFits
<1>2. ASSUME NEW c \in Calls, DisableTrigger(c) PROVE TxFits'
  <2>1. /\ tx' = [owner |-> c, state |-> [db EXCEPT !.worm = "disabled"]]
        /\ pc'[c] = "archive" /\ db' = db /\ db.worm = "enabled"
    BY <1>0, <1>2 DEF DisableTrigger, TriggersFit, TableState
  <2>2. /\ tx'.owner = c /\ tx'.state.audit = db.audit /\ tx'.state.archive = db.archive
        /\ tx'.state.trg = db.trg /\ tx'.state.function = db.function
    BY <1>0, <2>1 DEF TableState
  <2>3. QED
    BY <2>1, <2>2 DEF TxFits, PruneStatements
<1>3. ASSUME tx # None
      PROVE  /\ tx.owner \in Calls /\ tx.state \in TableState
             /\ db.worm = "enabled" /\ tx.state.trg = db.trg /\ tx.state.function = db.function
  BY <1>3 DEF Types, TypeOK, TxFits
<1>4. CASE tx # None /\ Archive(tx.owner)
  <2>1. PICK c : c = tx.owner
    OBVIOUS
  <2>2. PICK expired : expired = Expired(db.audit, before[c])
    OBVIOUS
  <2>3. pc[c] = "archive" /\ tx.state.audit = db.audit /\ tx.state.archive = db.archive
    BY <1>4, <2>1 DEF Archive, InTransaction, TxFits
  <2>4. /\ tx' = [tx EXCEPT !.state = [tx.state EXCEPT !.archive = @ \cup expired]]
        /\ pc' = [pc EXCEPT ![c] = "delete"] /\ moved' = [moved EXCEPT ![c] = Cardinality(expired)]
        /\ db' = db /\ before' = before
    BY <1>4, <2>1, <2>2, <2>3 DEF Archive, InTransaction
  <2>5. /\ tx'.owner = c /\ tx'.state.audit = db.audit /\ tx'.state.archive = db.archive \cup expired
        /\ tx'.state.trg = db.trg /\ tx'.state.function = db.function
    BY <1>3, <1>4, <2>1, <2>3, <2>4 DEF TableState, Types, TypeOK
  <2>6. pc'[c] = "delete" /\ moved'[c] = Cardinality(expired)
    BY <1>0, <1>3, <1>4, <2>1, <2>4
  <2>7. QED
    BY <1>3, <1>4, <2>2, <2>4, <2>5, <2>6 DEF TxFits, PruneStatements
<1>5. CASE tx # None /\ Delete(tx.owner)
  <2>1. PICK c : c = tx.owner
    OBVIOUS
  <2>2. PICK expired : expired = Expired(db.audit, before[c])
    OBVIOUS
  <2>3. /\ pc[c] = "delete" /\ tx.state.audit = db.audit
        /\ tx.state.archive = db.archive \cup expired /\ moved[c] = Cardinality(expired)
    BY <1>5, <2>1, <2>2 DEF Delete, TxFits
  <2>4. /\ tx' = [tx EXCEPT !.state = [tx.state EXCEPT !.audit = @ \ expired]]
        /\ pc' = [pc EXCEPT ![c] = "enable"] /\ UNCHANGED <<db, before, moved>>
    BY <1>3, <1>5, <2>1, <2>2, <2>3 DEF Delete, InTransaction, TableState
  <2>5. /\ tx'.owner = c /\ tx'.state.audit = db.audit \ expired /\ tx'.state.archive = db.archive \cup expired
        /\ tx'.state.trg = db.trg /\ tx'.state.function = db.function
    BY <1>3, <1>5, <2>1, <2>3, <2>4 DEF TableState, Types, TypeOK
  <2>6. pc'[c] = "enable"
    BY <1>0, <1>3, <1>5, <2>1, <2>4
  <2>7. QED
    BY <1>3, <1>5, <2>2, <2>3, <2>4, <2>5, <2>6 DEF TxFits, PruneStatements
<1>6. CASE tx # None /\ EnableTrigger(tx.owner)
  <2>1. PICK c : c = tx.owner
    OBVIOUS
  <2>2. PICK expired : expired = Expired(db.audit, before[c])
    OBVIOUS
  <2>3. /\ pc[c] = "enable" /\ tx.state.audit = db.audit \ expired
        /\ tx.state.archive = db.archive \cup expired /\ moved[c] = Cardinality(expired)
    BY <1>6, <2>1, <2>2 DEF EnableTrigger, InTransaction, TxFits
  <2>4. /\ tx' = [tx EXCEPT !.state = [tx.state EXCEPT !.worm = "enabled"]]
        /\ pc' = [pc EXCEPT ![c] = "record"] /\ UNCHANGED <<db, before, moved>>
    BY <1>6, <2>1 DEF EnableTrigger, InTransaction
  <2>5. /\ tx'.owner = c /\ tx'.state.audit = db.audit \ expired /\ tx'.state.archive = db.archive \cup expired
        /\ tx'.state.trg = db.trg /\ tx'.state.function = db.function /\ tx'.state.worm = "enabled"
    BY <1>3, <1>6, <2>1, <2>3, <2>4 DEF TableState, Types, TypeOK
  <2>6. pc'[c] = "record"
    BY <1>0, <1>3, <1>6, <2>1, <2>4
  <2>7. QED
    BY <1>3, <1>6, <2>2, <2>3, <2>4, <2>5, <2>6 DEF TxFits, PruneStatements
<1>7. CASE tx # None /\ RecordPrune(tx.owner)
  <2>1. PICK c : c = tx.owner
    OBVIOUS
  <2>2. PICK expired : expired = Expired(db.audit, before[c])
    OBVIOUS
  <2>3. /\ pc[c] = "record" /\ tx.state.audit = db.audit \ expired /\ tx.state.worm = "enabled"
        /\ tx.state.archive = db.archive \cup expired /\ moved[c] = Cardinality(expired)
    BY <1>7, <2>1, <2>2 DEF RecordPrune, InTransaction, TxFits
  <2>4. PICK row : row = PruneEvent(c)
    OBVIOUS
  <2>5. row.id = c /\ row.moved = Cardinality(expired)
    BY <2>3, <2>4 DEF PruneEvent
  <2>6. /\ tx' = [tx EXCEPT !.state = [tx.state EXCEPT !.audit = @ \cup {row}]]
        /\ pc' = [pc EXCEPT ![c] = "commit"] /\ UNCHANGED <<db, before, moved>>
    BY <1>7, <2>1, <2>4 DEF RecordPrune, InTransaction
  <2>7. /\ tx'.owner = c /\ tx'.state.audit = (db.audit \ expired) \cup {row}
        /\ tx'.state.archive = db.archive \cup expired
        /\ tx'.state.trg = db.trg /\ tx'.state.function = db.function /\ tx'.state.worm = "enabled"
    BY <1>3, <1>7, <2>1, <2>3, <2>6 DEF TableState, Types, TypeOK
  <2>8. pc'[c] = "commit"
    BY <1>0, <1>3, <1>7, <2>1, <2>6
  <2>9. expired = Expired(db'.audit, before'[tx'.owner]) /\ db' = db /\ moved' = moved
    BY <2>2, <2>6, <2>7
  <2>10. \E q \in tx'.state.audit :
            /\ q.id = tx'.owner /\ q.moved = Cardinality(Expired(db'.audit, before'[tx'.owner]))
            /\ tx'.state.audit = (db'.audit \ Expired(db'.audit, before'[tx'.owner])) \cup {q}
    BY <2>5, <2>7, <2>9
  <2>11. /\ tx'.state.archive = db'.archive \cup Expired(db'.audit, before'[tx'.owner])
         /\ moved'[tx'.owner] = Cardinality(Expired(db'.audit, before'[tx'.owner]))
    BY <2>3, <2>7, <2>9
  <2>12. QED
    BY <1>3, <1>7, <2>7, <2>8, <2>9, <2>10, <2>11 DEF TxFits, PruneStatements
<1>8. CASE /\ tx # None
           /\ ~ Archive(tx.owner) /\ ~ Delete(tx.owner) /\ ~ EnableTrigger(tx.owner) /\ ~ RecordPrune(tx.owner)
  <2>1. CASE tx' = None
    BY <2>1 DEF TxFits
  <2>2. CASE /\ UNCHANGED <<db, tx, moved>> /\ before'[tx.owner] = before[tx.owner]
             /\ pc'[tx.owner] = pc[tx.owner] \/ pc'[tx.owner] = "rollback"
    BY <1>8, <2>2 DEF TxFits, PruneStatements
  <2>3. QED
    BY <1>8, <2>1, <2>2, OthersWait
<1>9. QED
  BY <1>1, <1>2, <1>4, <1>5, <1>6, <1>7, <1>8

-------------------------------------------------------------------------------
(* What a step does to the committed rows.                                 *)

SameRows == db'.audit = db.audit /\ db'.archive = db.archive
SameTriggers == db'.worm = db.worm /\ db'.trg = db.trg

Inserts(row) ==
    /\ row \in Row /\ row.id \in Events
    /\ \A q \in db.audit \cup db.archive : q.id # row.id
    /\ db'.audit = db.audit \cup {row} /\ db'.archive = db.archive

Changes(row) ==
    /\ row \in db.audit /\ ~ Blocked(db)
    /\ db'.audit = (db.audit \ {row}) \cup {[row EXCEPT !.original = FALSE]} /\ db'.archive = db.archive

Deletes(row) ==
    /\ row \in db.audit /\ ~ Blocked(db)
    /\ db'.audit = db.audit \ {row} /\ db'.archive = db.archive

Moves(c, expired, row) ==
    /\ pc[c] \in {"commit", "prune_expired"} /\ pc'[c] \in {"done", "rollback"}
    /\ row \in Row /\ row.id = c /\ row.moved = Cardinality(expired)
    /\ expired \subseteq db.audit
    /\ db'.audit = (db.audit \ expired) \cup {row} /\ db'.archive = db.archive \cup expired

RowStep ==
    \/ SameRows
    \/ /\ SameTriggers
       /\ \/ \E row \in Row : Inserts(row)
          \/ \E row \in db.audit : Changes(row) \/ Deletes(row)
          \/ \E c \in Calls : \E expired \in SUBSET db.audit : \E row \in Row : Moves(c, expired, row)

LEMMA RowSteps ==
    ASSUME Types, TxFits, TriggersFit, [Next]_vars
    PROVE  /\ RowStep
           /\ UNCHANGED <<db, accepted, exposed>> \/ Committed(db')
<1> USE DEF Goto
<1>0. db \in TableState /\ IsFiniteSet(db.audit) /\ pc \in [Calls -> Labels] /\ now \in Times
  BY DEF Types, TypeOK
<1> DEFINE Goal == RowStep /\ (UNCHANGED <<db, accepted, exposed>> \/ Committed(db'))
<1>1. ASSUME UNCHANGED <<db, accepted, exposed>> PROVE Goal
  BY <1>1 DEF RowStep, SameRows
<1>2. ASSUME NEW c \in Calls, NEW k \in Kinds, NEW date \in Times, Call(c, k, date) PROVE Goal
  BY <1>1, <1>2 DEF Call, history
<1>3. ASSUME NEW c \in Calls,
             \/ DisableTrigger(c) \/ Archive(c) \/ Delete(c) \/ EnableTrigger(c) \/ RecordPrune(c)
             \/ PruneFails(c) \/ Rollback(c) \/ Remember(c) \/ CallBreaks(c) \/ Crash(c)
      PROVE  Goal
  BY <1>1, <1>3 DEF DisableTrigger, Archive, Delete, EnableTrigger, RecordPrune, InTransaction, PruneFails,
                    Rollback, Remember, CallBreaks, Crash, history
<1>4. CASE Tick \/ UNCHANGED vars
  BY <1>1, <1>4 DEF Tick, vars, history
<1>5. ASSUME NEW state \in TableState, Committed(state) \/ Autocommit(state)
      PROVE  db' = state /\ Committed(db')
  BY <1>5 DEF Autocommit, Committed
<1>6. ASSUME NEW c \in Calls, Commit(c) PROVE Goal
  <2>1. PICK expired : expired = Expired(db.audit, before[c])
    OBVIOUS
  <2>2. tx # None /\ tx.owner = c /\ tx.state \in TableState /\ pc[c] = "commit"
    BY <1>6 DEF Commit, Types, TypeOK, PruneStatements
  <2>3. PICK row \in tx.state.audit : /\ row.id = c /\ row.moved = Cardinality(expired)
                                      /\ tx.state.audit = (db.audit \ expired) \cup {row}
    BY <2>1, <2>2 DEF TxFits
  <2>4. /\ tx.state.archive = db.archive \cup expired /\ tx.state.trg = db.trg
        /\ db.worm = "enabled" /\ tx.state.worm = "enabled"
    BY <2>1, <2>2 DEF TxFits
  <2>5. db' = tx.state /\ Committed(db') /\ pc'[c] \in {"done", "rollback"}
    BY <1>0, <1>6 DEF Commit, Committed
  <2>6. row \in Row /\ expired \subseteq db.audit
    BY <2>1, <2>2, <2>3, ExpiredFinite, <1>0 DEF TableState
  <2>7. Moves(c, expired, row) /\ SameTriggers
    BY <2>2, <2>3, <2>4, <2>5, <2>6 DEF Moves, SameTriggers
  <2>8. QED
    BY <2>5, <2>6, <2>7 DEF RowStep
<1>7. ASSUME NEW c \in Calls, PruneExpired(c) PROVE Goal
  <2>1. PICK expired : expired = Expired(db.audit, before[c])
    OBVIOUS
  <2>2. expired \subseteq db.audit /\ Cardinality(expired) \in Nat
    BY <1>0, <2>1, ExpiredFinite
  <2>3. PICK row : row = [PruneEvent(c) EXCEPT !.moved = Cardinality(expired)]
    OBVIOUS
  <2>4. row \in Row /\ row.id = c /\ row.moved = Cardinality(expired)
    BY <1>0, <2>2, <2>3 DEF PruneEvent, Row
  <2>5. PICK state : state = [db EXCEPT !.audit = (@ \ expired) \cup {row}, !.archive = @ \cup expired]
    OBVIOUS
  <2>6. /\ state \in TableState /\ state.audit = (db.audit \ expired) \cup {row}
        /\ state.archive = db.archive \cup expired /\ state.worm = db.worm /\ state.trg = db.trg
    BY <1>0, <2>2, <2>4, <2>5 DEF TableState
  <2>7. CASE Autocommit(db)
    BY <1>0, <1>5, <2>7 DEF RowStep, SameRows
  <2>8. CASE Autocommit(state) /\ pc' = [pc EXCEPT ![c] = "done"] /\ pc[c] = "prune_expired"
    <3>1. db' = state /\ Committed(db')
      BY <1>5, <2>6, <2>8
    <3>2. Moves(c, expired, row) /\ SameTriggers
      BY <1>0, <2>2, <2>4, <2>6, <2>8, <3>1 DEF Moves, SameTriggers
    <3>3. QED
      BY <2>2, <2>4, <3>1, <3>2 DEF RowStep
  <2>9. QED
    BY <1>7, <2>1, <2>3, <2>5, <2>7, <2>8 DEF PruneExpired
<1>8. ASSUME NEW c \in Calls,
             CreateFunction(c) \/ DropTrigger(c) \/ CreateTrigger(c) \/ DropForGood(c) \/ DropFunction(c)
      PROVE  Goal
  <2>1. PICK state \in TableState : Autocommit(state) /\ state.audit = db.audit /\ state.archive = db.archive
    <3>1. /\ [db EXCEPT !.function = TRUE] \in TableState /\ [db EXCEPT !.function = FALSE] \in TableState
          /\ [db EXCEPT !.worm = "absent"] \in TableState /\ [db EXCEPT !.worm = "enabled"] \in TableState
      BY <1>0 DEF TableState, TriggerStates
    <3>2. QED
      BY <1>0, <1>8, <3>1 DEF CreateFunction, DropTrigger, CreateTrigger, DropForGood, DropFunction, Statement,
                              TableState
  <2>2. QED
    BY <1>5, <2>1 DEF RowStep, SameRows
<1>9. ASSUME NEW e \in Events, NEW at \in Times, InsertAuditEvent(e, at) PROVE Goal
  <2>1. PICK row : row = [id |-> e, at |-> at, moved |-> 0, original |-> TRUE]
    OBVIOUS
  <2>2. PICK state : state = [db EXCEPT !.audit = @ \cup {row}]
    OBVIOUS
  <2>3. row \in Row /\ row.id = e
    BY <1>0, <2>1, RowTypes
  <2>4. state \in TableState /\ Autocommit(state)
    BY <1>0, <1>9, <2>1, <2>2, <2>3 DEF InsertAuditEvent, TableState
  <2>5. db' = state /\ Committed(db')
    BY <1>5, <2>4
  <2>6. Inserts(row) /\ SameTriggers
    BY <1>0, <1>9, <2>2, <2>3, <2>5 DEF InsertAuditEvent, Inserts, SameTriggers, TableState
  <2>7. QED
    BY <2>3, <2>5, <2>6 DEF RowStep
<1>10. ASSUME NEW row \in db.audit, UpdateRow(row) \/ DeleteRow(row) PROVE Goal
  <2>1. PICK changed : changed = [row EXCEPT !.original = FALSE]
    OBVIOUS
  <2>2. PICK updated : updated = [db EXCEPT !.audit = (@ \ {row}) \cup {changed}]
    OBVIOUS
  <2>3. PICK deleted : deleted = [db EXCEPT !.audit = @ \ {row}]
    OBVIOUS
  <2>4. row \in Row /\ changed \in Row
    BY <1>0, <2>1, RowTypes DEF TableState
  <2>5. updated \in TableState /\ deleted \in TableState
    BY <1>0, <2>2, <2>3, <2>4 DEF TableState
  <2>6. /\ db' = updated \/ db' = deleted
        /\ Committed(db') /\ ~ Blocked(db)
    BY <1>5, <1>10, <2>1, <2>2, <2>3, <2>5 DEF UpdateRow, DeleteRow
  <2>7. (Changes(row) \/ Deletes(row)) /\ SameTriggers
    BY <1>0, <2>1, <2>2, <2>3, <2>6 DEF Changes, Deletes, SameTriggers, TableState
  <2>8. QED
    BY <2>6, <2>7 DEF RowStep
<1>11. QED
  BY <1>2, <1>3, <1>4, <1>6, <1>7, <1>8, <1>9, <1>10, NextCases

-------------------------------------------------------------------------------
(* The parts of the invariant.                                             *)

LEMMA ClosedStays ==
    ASSUME Types, [Next]_vars, NEW d \in Calls, pc[d] \in {"done", "rollback", "failed", "broken"}
    PROVE  pc'[d] \in {"done", "rollback", "failed", "broken"}
<1> USE DEF Goto, Types
<1>1. ASSUME NEW c \in Calls, NEW k \in Kinds, NEW date \in Times, Call(c, k, date) PROVE pc'[d] = pc[d]
  BY <1>1 DEF Call
<1>2. ASSUME NEW c \in Calls,
             \/ DisableTrigger(c) \/ Archive(c) \/ Delete(c) \/ EnableTrigger(c) \/ RecordPrune(c)
             \/ Commit(c) \/ PruneFails(c) \/ PruneExpired(c) \/ Remember(c) \/ CallBreaks(c)
      PROVE  pc'[d] = pc[d]
  BY <1>2 DEF DisableTrigger, Archive, Delete, EnableTrigger, RecordPrune, InTransaction, Commit, PruneFails,
              PruneExpired, Remember, CallBreaks, PruneStatements
<1>3. ASSUME NEW c \in Calls, Rollback(c) \/ Crash(c) PROVE pc'[d] \in {"done", "rollback", "failed", "broken"}
  BY <1>3 DEF Rollback, Crash
<1>4. ASSUME NEW c \in Calls,
             CreateFunction(c) \/ DropTrigger(c) \/ CreateTrigger(c) \/ DropForGood(c) \/ DropFunction(c)
      PROVE  pc'[d] = pc[d]
  BY <1>4 DEF CreateFunction, DropTrigger, CreateTrigger, DropForGood, DropFunction, Statement
<1>5. ASSUME NEW e \in Events, NEW at \in Times, InsertAuditEvent(e, at) PROVE pc'[d] = pc[d]
  BY <1>5 DEF InsertAuditEvent, callVars
<1>6. ASSUME NEW row \in db.audit, UpdateRow(row) \/ DeleteRow(row) PROVE pc'[d] = pc[d]
  BY <1>6 DEF UpdateRow, DeleteRow, callVars
<1>7. CASE Tick \/ UNCHANGED vars
  BY <1>7 DEF Tick, vars, callVars
<1>8. QED
  BY <1>1, <1>2, <1>3, <1>4, <1>5, <1>6, <1>7, NextCases

LEMMA RowsFitStep == Types /\ TxFits /\ TriggersFit /\ RowsFit /\ NothingLost /\ [Next]_vars => RowsFit'
<1> SUFFICES ASSUME Types, TxFits, TriggersFit, RowsFit, NothingLost, [Next]_vars PROVE RowsFit'
  OBVIOUS
<1>0. /\ db.audit \subseteq Row /\ db.archive \subseteq Row /\ Events \cap Calls = {}
      /\ \A d \in Calls : pc[d] \in {"done", "rollback", "failed", "broken"} =>
            pc'[d] \in {"done", "rollback", "failed", "broken"}
  BY ClosedStays, WormStoreAssumption DEF Types, TypeOK, TableState
<1>1. CASE SameRows
  BY <1>0, <1>1 DEF SameRows, RowsFit
<1>2. ASSUME NEW row \in Row, Inserts(row) PROVE RowsFit'
  BY <1>0, <1>2 DEF Inserts, RowsFit
<1>3. ASSUME NEW row \in db.audit, Changes(row) PROVE RowsFit'
  <2>1. PICK changed : changed = [row EXCEPT !.original = FALSE]
    OBVIOUS
  <2>2. changed.id = row.id
    BY <1>0, <2>1 DEF Row
  <2>3. db'.audit = (db.audit \ {row}) \cup {changed} /\ db'.archive = db.archive
    BY <1>3, <2>1 DEF Changes
  <2>4. QED
    BY <1>0, <2>2, <2>3 DEF RowsFit, NothingLost
<1>4. ASSUME NEW row \in db.audit, Deletes(row) PROVE RowsFit'
  BY <1>0, <1>4 DEF Deletes, RowsFit
<1>5. ASSUME NEW c \in Calls, NEW expired \in SUBSET db.audit, NEW row \in Row, Moves(c, expired, row)
      PROVE  RowsFit'
  <2>1. \A q \in db.audit \cup db.archive : q.id # row.id
    BY <1>5 DEF Moves, RowsFit
  <2>2. QED
    BY <1>0, <1>5, <2>1 DEF Moves, RowsFit
<1>6. QED
  BY <1>1, <1>2, <1>3, <1>4, <1>5, RowSteps DEF RowStep

\* A table that loses a row, or has one changed, had it exposed before.
LEMMA NothingLostStep ==
    Types /\ TxFits /\ TriggersFit /\ RowsFit /\ NothingLost /\ ExposedFits /\ [Next]_vars => NothingLost'
<1> SUFFICES ASSUME Types, TxFits, TriggersFit, RowsFit, NothingLost, ExposedFits, [Next]_vars
             PROVE  NothingLost'
  OBVIOUS
<1>0. db.audit \subseteq Row /\ db.archive \subseteq Row
  BY DEF Types, TypeOK, TableState
<1>1. accepted' \ exposed' \subseteq (accepted \ exposed) \cup db'.audit /\ exposed \subseteq exposed'
  BY RowSteps DEF Committed
<1>2. CASE SameRows
  BY <1>1, <1>2 DEF SameRows, NothingLost
<1>3. ASSUME NEW row \in Row, Inserts(row) PROVE NothingLost'
  BY <1>1, <1>3 DEF Inserts, NothingLost
<1>4. ASSUME NEW row \in db.audit, Changes(row) PROVE NothingLost'
  <2>1. PICK changed : changed = [row EXCEPT !.original = FALSE]
    OBVIOUS
  <2>2. changed.id = row.id
    BY <1>0, <2>1 DEF Row
  <2>3. db'.audit = (db.audit \ {row}) \cup {changed} /\ db'.archive = db.archive /\ row \in exposed
    BY <1>4, <2>1 DEF Changes, ExposedFits
  <2>4. changed \notin db.archive
    BY <2>2 DEF RowsFit, NothingLost
  <2>5. QED
    BY <1>1, <2>3, <2>4 DEF NothingLost
<1>5. ASSUME NEW row \in db.audit, Deletes(row) PROVE NothingLost'
  BY <1>1, <1>5 DEF Deletes, NothingLost, ExposedFits
<1>6. ASSUME NEW c \in Calls, NEW expired \in SUBSET db.audit, NEW row \in Row, Moves(c, expired, row)
      PROVE  NothingLost'
  <2>1. row \notin db.audit \cup db.archive
    BY <1>6 DEF Moves, RowsFit
  <2>2. QED
    BY <1>1, <1>6, <2>1 DEF Moves, NothingLost
<1>7. QED
  BY <1>2, <1>3, <1>4, <1>5, <1>6, RowSteps DEF RowStep

LEMMA ExposedFitsStep == Types /\ TxFits /\ TriggersFit /\ ExposedFits /\ [Next]_vars => ExposedFits'
BY RowSteps DEF ExposedFits, Committed, Blocked

\* Only these statements change the committed triggers or the function.
LEMMA TriggerSteps ==
    ASSUME Types, TxFits, [Next]_vars
    PROVE  \/ SameTriggers /\ db'.function = db.function
           \/ db'.worm = "enabled" /\ db'.trg = db.trg /\ db'.function = db.function
           \/ \E c \in Calls : /\ CreateFunction(c) \/ DropTrigger(c) \/ DropForGood(c) \/ DropFunction(c)
                               /\ db'.trg = db.trg /\ db'.worm \in {db.worm, "absent"}
<1>0. db \in TableState
  BY DEF Types, TypeOK
<1>1. ASSUME db' = db PROVE SameTriggers /\ db'.function = db.function
  BY <1>1 DEF SameTriggers
<1>2. ASSUME NEW c \in Calls, NEW k \in Kinds, NEW date \in Times, Call(c, k, date) PROVE db' = db
  BY <1>2 DEF Call
<1>3. ASSUME NEW c \in Calls,
             \/ DisableTrigger(c) \/ Archive(c) \/ Delete(c) \/ EnableTrigger(c) \/ RecordPrune(c)
             \/ PruneFails(c) \/ Rollback(c) \/ Remember(c) \/ CallBreaks(c) \/ Crash(c)
      PROVE  db' = db
  BY <1>3 DEF DisableTrigger, Archive, Delete, EnableTrigger, RecordPrune, InTransaction, PruneFails,
              Rollback, Remember, CallBreaks, Crash
<1>4. CASE Tick \/ UNCHANGED vars
  BY <1>1, <1>4 DEF Tick, vars
<1>5. ASSUME NEW c \in Calls, Commit(c)
      PROVE  db'.worm = "enabled" /\ db'.trg = db.trg /\ db'.function = db.function
  BY <1>5 DEF Commit, Committed, TxFits, Types, TypeOK, PruneStatements
<1>6. ASSUME NEW c \in Calls, PruneExpired(c) PROVE SameTriggers /\ db'.function = db.function
  <2>1. PICK expired, row :
            \/ Autocommit(db)
            \/ Autocommit([db EXCEPT !.audit = (@ \ expired) \cup {row}, !.archive = @ \cup expired])
    BY <1>6 DEF PruneExpired
  <2>2. QED
    BY <1>0, <2>1 DEF Autocommit, Committed, SameTriggers, TableState
<1>7. ASSUME NEW c \in Calls,
             CreateFunction(c) \/ DropTrigger(c) \/ DropForGood(c) \/ DropFunction(c)
      PROVE  db'.trg = db.trg /\ db'.worm \in {db.worm, "absent"}
  BY <1>0, <1>7 DEF CreateFunction, DropTrigger, DropForGood, DropFunction, Statement, Autocommit, Committed,
                    TableState
<1>8. ASSUME NEW c \in Calls, CreateTrigger(c)
      PROVE  db'.worm \in {db.worm, "enabled"} /\ db'.trg = db.trg /\ db'.function = db.function
  BY <1>0, <1>8 DEF CreateTrigger, Statement, Autocommit, Committed, TableState
<1>9. ASSUME NEW e \in Events, NEW at \in Times, InsertAuditEvent(e, at)
      PROVE  SameTriggers /\ db'.function = db.function
  BY <1>0, <1>9 DEF InsertAuditEvent, Autocommit, Committed, SameTriggers, TableState
<1>10. ASSUME NEW row \in db.audit, UpdateRow(row) \/ DeleteRow(row)
       PROVE  SameTriggers /\ db'.function = db.function
  BY <1>0, <1>10 DEF UpdateRow, DeleteRow, Autocommit, Committed, SameTriggers, TableState
<1>11. QED
  BY <1>1, <1>2, <1>3, <1>4, <1>5, <1>6, <1>7, <1>8, <1>9, <1>10, NextCases DEF SameTriggers

LEMMA TriggersFitStep == Types /\ TxFits /\ TriggersFit /\ [Next]_vars => TriggersFit'
BY TriggerSteps DEF TriggersFit, SameTriggers

\* A step of a prune: it neither protects nor unprotects, and what it commits has the trigger.
LEMMA PruneProtects ==
    ASSUME Types, ProtectionFits, NEW c \in Calls,
           pc[c] \in PruneStatements \cup {"rollback", "prune_expired"},
           NEW label \in PruneStatements \cup {"rollback", "done", "failed", "broken"},
           pc' = [pc EXCEPT ![c] = label], UNCHANGED <<kind, protectedTables>>,
           db'.function = db.function, db'.worm \in {db.worm, "enabled"}
    PROVE  ProtectionFits'
BY DEF Types, ProtectionFits, PruneStatements, RemoveLabels

LEMMA ProtectionFitsStep ==
    Types /\ TxFits /\ TriggersFit /\ ProtectionFits /\ [Next]_vars => ProtectionFits'
<1> SUFFICES ASSUME Types, TxFits, TriggersFit, ProtectionFits, [Next]_vars PROVE ProtectionFits'
  OBVIOUS
<1> USE DEF Goto
<1>0. /\ db \in TableState /\ pc \in [Calls -> Labels] /\ kind \in [Calls -> Kinds \cup {None}]
      /\ db.worm \in {"absent", "enabled"} /\ None # "remove" /\ protectedTables \in BOOLEAN
  BY NoneAssumption DEF Types, TypeOK, TriggersFit, CallKinds
<1>1. ASSUME NEW c \in Calls, NEW k \in Kinds, NEW date \in Times, Call(c, k, date) PROVE ProtectionFits'
  <2>1. k \in {"prune", "prune_expired", "enforce", "remove"}
    BY WormStoreAssumption DEF CallKinds
  <2>2. /\ FirstStatement[k] \in {"disable", "prune_expired", "function", "drop_for_good"}
        /\ FirstStatement[k] = "drop_for_good" => k = "remove"
    BY <2>1 DEF FirstStatement
  <2>3. PICK label : label = FirstStatement[k]
    OBVIOUS
  <2>4. /\ pc' = [pc EXCEPT ![c] = label] /\ kind' = [kind EXCEPT ![c] = k]
        /\ db' = db /\ protectedTables' = protectedTables /\ kind[c] = None
    BY <1>1, <2>3 DEF Call, ProtectionFits
  <2>5. /\ pc'[c] = label /\ \A d \in Calls : d # c => pc'[d] = pc[d]
        /\ kind'[c] = k /\ \A d \in Calls : d # c => kind'[d] = kind[d]
    BY <1>0, <2>4
  <2>6. (\A d \in Calls : kind'[d] # "remove" /\ pc'[d] # "broken")
            => \A d \in Calls : kind[d] # "remove" /\ pc[d] # "broken"
    BY <1>0, <1>1, <2>4, <2>5 DEF Call
  <2>7. \A d \in Calls : pc'[d] \in {"drop", "create", "add"} <=> pc[d] \in {"drop", "create", "add"}
    BY <1>1, <2>2, <2>3, <2>5 DEF Call
  <2>8. \A d \in Calls : /\ pc'[d] = "create" <=> pc[d] = "create"
                         /\ pc'[d] = "add" <=> pc[d] = "add"
    BY <1>1, <2>2, <2>3, <2>5 DEF Call
  <2>9. \A d \in Calls : /\ pc'[d] \in RemoveLabels => kind'[d] = "remove"
                         /\ pc'[d] = "idle" => kind'[d] = None
    BY <2>2, <2>3, <2>5 DEF ProtectionFits, RemoveLabels
  <2>10. QED
    BY <2>4, <2>6, <2>7, <2>8, <2>9 DEF ProtectionFits
<1>2. ASSUME NEW c \in Calls,
             \/ DisableTrigger(c) \/ Archive(c) \/ Delete(c) \/ EnableTrigger(c) \/ RecordPrune(c)
             \/ PruneFails(c) \/ Rollback(c)
      PROVE  ProtectionFits'
  <2>1. /\ db' = db /\ UNCHANGED <<kind, protectedTables>>
        /\ pc[c] \in PruneStatements \cup {"rollback"}
        /\ \E label \in PruneStatements \cup {"rollback", "failed"} : pc' = [pc EXCEPT ![c] = label]
    BY <1>2 DEF DisableTrigger, Archive, Delete, EnableTrigger, RecordPrune, InTransaction, PruneFails, Rollback,
                PruneStatements
  <2>2. QED
    BY <2>1, PruneProtects
<1>3. ASSUME NEW c \in Calls, Commit(c) \/ PruneExpired(c) PROVE ProtectionFits'
  <2>1. db'.function = db.function /\ db'.worm \in {db.worm, "enabled"}
    <3>1. CASE Commit(c)
      BY <3>1 DEF Commit, Committed, TxFits, Types, TypeOK, PruneStatements
    <3>2. CASE PruneExpired(c)
      <4>1. PICK expired, row :
            \/ Autocommit(db)
            \/ Autocommit([db EXCEPT !.audit = (@ \ expired) \cup {row}, !.archive = @ \cup expired])
        BY <3>2 DEF PruneExpired
      <4>2. QED
        BY <1>0, <4>1 DEF Autocommit, Committed, TableState
    <3>3. QED
      BY <1>3, <3>1, <3>2
  <2>2. /\ UNCHANGED <<kind, protectedTables>>
        /\ pc[c] \in PruneStatements \cup {"prune_expired"}
        /\ \E label \in {"done", "rollback", "failed"} : pc' = [pc EXCEPT ![c] = label]
    BY <1>3 DEF Commit, PruneExpired, PruneStatements
  <2>3. QED
    BY <2>1, <2>2, PruneProtects
<1>4. ASSUME NEW c \in Calls, NEW label,
             pc' = [pc EXCEPT ![c] = label], UNCHANGED kind
      PROVE  /\ pc'[c] = label /\ kind' = kind
             /\ \A d \in Calls : d # c => pc'[d] = pc[d]
  BY <1>0, <1>4
<1>5. ASSUME NEW c \in Calls, CreateFunction(c) PROVE ProtectionFits'
  <2>1. /\ pc[c] = "function" /\ pc' = [pc EXCEPT ![c] = "drop"] /\ UNCHANGED <<kind, protectedTables>>
        /\ db'.function = TRUE /\ db'.worm = db.worm
    BY <1>0, <1>5 DEF CreateFunction, Statement, Autocommit, Committed, TableState
  <2>2. pc'[c] = "drop" /\ \A d \in Calls : d # c => pc'[d] = pc[d]
    BY <1>4, <2>1
  <2>3. (\A d \in Calls : kind'[d] # "remove" /\ pc'[d] # "broken")
            => \A d \in Calls : kind[d] # "remove" /\ pc[d] # "broken"
    BY <2>1, <2>2
  <2>4. QED
    BY <2>1, <2>2, <2>3 DEF ProtectionFits, RemoveLabels
<1>6. ASSUME NEW c \in Calls, DropTrigger(c) PROVE ProtectionFits'
  <2>1. /\ pc[c] = "drop" /\ pc' = [pc EXCEPT ![c] = "create"] /\ UNCHANGED <<kind, protectedTables>>
        /\ db'.function = db.function
    BY <1>0, <1>6 DEF DropTrigger, Statement, Autocommit, Committed, TableState
  <2>2. pc'[c] = "create" /\ \A d \in Calls : d # c => pc'[d] = pc[d]
    BY <1>4, <2>1
  <2>3. (\A d \in Calls : kind'[d] # "remove" /\ pc'[d] # "broken")
            => \A d \in Calls : kind[d] # "remove" /\ pc[d] # "broken"
    BY <2>1, <2>2
  <2>4. QED
    BY <2>1, <2>2, <2>3 DEF ProtectionFits, RemoveLabels
<1>7. ASSUME NEW c \in Calls, CreateTrigger(c) PROVE ProtectionFits'
  <2>1. /\ pc[c] = "create" /\ UNCHANGED <<kind, protectedTables>>
        /\ db'.function = db.function
        /\ db'.worm = "enabled" \/ ~ db.function
        /\ \E label \in {"add", "failed"} :
              /\ pc' = [pc EXCEPT ![c] = label]
              /\ label = "add" => db'.worm = "enabled"
    BY <1>0, <1>7 DEF CreateTrigger, Statement, Autocommit, Committed, TableState
  <2>2. /\ pc'[c] = "failed" \/ (pc'[c] = "add" /\ db'.worm = "enabled")
        /\ \A d \in Calls : d # c => pc'[d] = pc[d]
    BY <1>4, <2>1
  <2>3. (\A d \in Calls : kind'[d] # "remove" /\ pc'[d] # "broken")
            => \A d \in Calls : kind[d] # "remove" /\ pc[d] # "broken"
    BY <2>1, <2>2
  <2>4. (\A d \in Calls : kind'[d] # "remove" /\ pc'[d] # "broken") => db.function /\ db'.worm = "enabled"
    BY <2>1, <2>3 DEF ProtectionFits
  <2>5. QED
    BY <2>1, <2>2, <2>3, <2>4 DEF ProtectionFits, RemoveLabels
<1>8. ASSUME NEW c \in Calls, DropForGood(c) \/ DropFunction(c) PROVE ProtectionFits'
  <2>1. /\ pc[c] \in RemoveLabels /\ UNCHANGED <<kind, protectedTables>>
        /\ \E label \in {"drop_function", "forget", "failed"} : pc' = [pc EXCEPT ![c] = label]
    BY <1>8 DEF DropForGood, DropFunction, Statement, RemoveLabels
  <2>2. pc'[c] \in {"drop_function", "forget", "failed"} /\ \A d \in Calls : d # c => pc'[d] = pc[d]
    BY <1>4, <2>1
  <2>3. kind'[c] = "remove"
    BY <2>1 DEF ProtectionFits
  <2>4. QED
    BY <2>1, <2>2, <2>3 DEF ProtectionFits, RemoveLabels
<1>9. ASSUME NEW c \in Calls, Remember(c) PROVE ProtectionFits'
  <2>1. /\ pc[c] = "add" \/ (pc[c] = "forget" /\ kind[c] = "remove")
        /\ pc' = [pc EXCEPT ![c] = "done"] /\ kind' = kind /\ db' = db
    BY <1>9 DEF Remember, ProtectionFits, RemoveLabels
  <2>2. QED
    BY <1>4, <2>1 DEF ProtectionFits, RemoveLabels
<1>10. ASSUME NEW c \in Calls, CallBreaks(c) \/ Crash(c) PROVE ProtectionFits'
  <2>1. pc' = [pc EXCEPT ![c] = "broken"] /\ kind' = kind
    BY <1>10 DEF CallBreaks, Crash
  <2>2. pc'[c] = "broken" /\ \A d \in Calls : d # c => pc'[d] = pc[d]
    BY <1>4, <2>1
  <2>3. ~ \A d \in Calls : kind'[d] # "remove" /\ pc'[d] # "broken"
    BY <2>2
  <2>4. QED
    BY <2>1, <2>2, <2>3 DEF ProtectionFits, RemoveLabels
<1>11. ASSUME UNCHANGED <<pc, kind, protectedTables>>, SameTriggers, db'.function = db.function
       PROVE  ProtectionFits'
  BY <1>11 DEF ProtectionFits, SameTriggers
<1>12. ASSUME NEW e \in Events, NEW at \in Times, InsertAuditEvent(e, at) PROVE ProtectionFits'
  BY <1>0, <1>11, <1>12 DEF InsertAuditEvent, Autocommit, Committed, SameTriggers, TableState, callVars
<1>13. ASSUME NEW row \in db.audit, UpdateRow(row) \/ DeleteRow(row) PROVE ProtectionFits'
  BY <1>0, <1>11, <1>13 DEF UpdateRow, DeleteRow, Autocommit, Committed, SameTriggers, TableState, callVars
<1>14. CASE Tick \/ UNCHANGED vars
  BY <1>11, <1>14 DEF Tick, vars, callVars, SameTriggers
<1>15. QED
  BY <1>1, <1>2, <1>3, <1>5, <1>6, <1>7, <1>8, <1>9, <1>10, <1>12, <1>13, <1>14, NextCases

-------------------------------------------------------------------------------
(* The invariant, and what follows from it.                                *)

LEMMA InitIndInv == Init => IndInv
<1> SUFFICES ASSUME Init PROVE IndInv
  OBVIOUS
<1>1. db \in TableState /\ db.audit = {} /\ db.archive = {} /\ TriggersFit /\ Blocked(db)
  BY WormStoreAssumption DEF Init, Tables, TableState, TriggerStates, TriggersFit, Blocked
<1>2. Types
  <2>1. 0 \in Times
    BY WormStoreAssumption DEF Times
  <2>2. TypeOK
    BY <1>1, <2>1 DEF Init, TypeOK, PruneStatements
  <2>3. pc \in [Calls -> Labels]
    BY DEF Init, Labels, Ended
  <2>4. QED
    BY <1>1, <2>2, <2>3, FS_EmptySet DEF Types
<1>3. TxFits /\ RowsFit /\ NothingLost /\ ExposedFits
  BY <1>1 DEF Init, TxFits, RowsFit, NothingLost, ExposedFits
<1>4. ProtectionFits
  BY DEF Init, ProtectionFits, RemoveLabels
<1>5. QED
  BY <1>1, <1>2, <1>3, <1>4 DEF IndInv

\* The invariant of the whole table, which every step keeps.
THEOREM WormInvariant == Spec => []IndInv
<1>1. IndInv /\ [Next]_vars => IndInv'
  BY TypesStep, TxFitsStep, TriggersFitStep, RowsFitStep, NothingLostStep, ExposedFitsStep, ProtectionFitsStep
     DEF IndInv
<1>2. QED
  BY <1>1, InitIndInv, PTL DEF Spec

(***************************************************************************)
(* Every variable keeps its type, whatever statements prune, protect and   *)
(* unprotect the table, and wherever they are cut off.                     *)
(***************************************************************************)
THEOREM TypeCorrect == Spec => []TypeOK
<1>1. IndInv => TypeOK
  BY DEF IndInv, Types
<1>2. QED
  BY <1>1, WormInvariant, PTL

(***************************************************************************)
(* pruneAuditEvents(): a row whose insert was committed is in the table or *)
(* in the archive, unless it was in the table while no trigger protected   *)
(* it: no row falls between the statement that archives and the one that   *)
(* deletes.                                                                *)
(***************************************************************************)
THEOREM CommittedRowsKept == Spec => []NothingLost
<1>1. IndInv => NothingLost
  BY DEF IndInv
<1>2. QED
  BY <1>1, WormInvariant, PTL

(***************************************************************************)
(* verifyWormStatus(): a table it calls compliant refuses updates and      *)
(* deletes.                                                                *)
(***************************************************************************)
THEOREM CompliantAlwaysBlocked == Spec => []CompliantIsBlocked
<1>1. IndInv => CompliantIsBlocked
  BY DEF IndInv, TriggersFit, CompliantIsBlocked, VerifyWormStatus, Blocked
<1>2. QED
  BY <1>1, WormInvariant, PTL

(***************************************************************************)
(* enforceWorm(): once a caller was told that the tables are protected,    *)
(* they are, or a call is about to make the trigger again, unless          *)
(* protection was removed or a call was cut off between its statements.    *)
(***************************************************************************)
THEOREM ProtectedStaysBlocked == Spec => []ProtectedIsBlocked
<1>1. IndInv => ProtectedIsBlocked
  BY DEF IndInv, ProtectionFits, ProtectedIsBlocked, Ended
<1>2. QED
  BY <1>1, WormInvariant, PTL

\* Every step is one of the abstract table, or one that it does not see.
LEMMA TableStep == IndInv /\ [Next]_vars => [Abstract!Next]_(Abstract!vars)
<1> SUFFICES ASSUME IndInv, [Next]_vars PROVE Abstract!Next \/ UNCHANGED Abstract!vars
  OBVIOUS
<1>0. /\ Types /\ TxFits /\ TriggersFit /\ RowsFit /\ NothingLost
      /\ db.audit \subseteq Row /\ db.archive \subseteq Row
  BY DEF IndInv, Types, TypeOK, TableState
<1>1. ASSUME SameTriggers PROVE Blocked(db)' = Blocked(db)
  BY <1>1 DEF SameTriggers, Blocked
<1>2. CASE SameRows
  <2>1. Blocked(db)' \in BOOLEAN /\ Blocked(db) \in BOOLEAN
    BY DEF Blocked
  <2>2. Blocked(db)' = Blocked(db) \/ Blocked(db)' = ~ Blocked(db)
    BY <2>1
  <2>3. QED
    BY <1>2, <2>2 DEF SameRows, Abstract!vars, Abstract!Next, Abstract!SetProtection
<1>3. ASSUME SameTriggers, NEW row \in Row, Inserts(row) PROVE Abstract!Next
  <2>1. row \in db'.audit \ db.audit /\ Abstract!Insert(row)
    BY <1>0, <1>1, <1>3 DEF Inserts, Abstract!Insert, Abstract!New
  <2>2. QED
    BY <2>1 DEF Abstract!Next
<1>4. ASSUME SameTriggers, NEW row \in db.audit, Changes(row) PROVE Abstract!Next \/ UNCHANGED Abstract!vars
  <2>1. PICK changed : changed = [row EXCEPT !.original = FALSE]
    OBVIOUS
  <2>2. changed \in Row /\ changed.id = row.id
    BY <1>0, <2>1 DEF Row
  <2>3. db'.audit = (db.audit \ {row}) \cup {changed} /\ db'.archive = db.archive /\ ~ Blocked(db)
    BY <1>4, <2>1 DEF Changes
  <2>4. CASE changed = row
    BY <1>1, <1>4, <2>3, <2>4 DEF Abstract!vars
  <2>5. CASE changed # row
    <3>1. changed \notin db.audit
      BY <2>2, <2>5, <1>0 DEF RowsFit
    <3>2. db.audit \ db'.audit = {row} /\ db'.audit \ {row} \subseteq Row
      BY <1>0, <2>2, <2>3, <2>5, <3>1
    <3>3. Abstract!Tamper(row)
      BY <1>1, <1>4, <2>3, <3>2 DEF Abstract!Tamper
    <3>4. QED
      BY <3>2, <3>3 DEF Abstract!Next
  <2>6. QED
    BY <2>4, <2>5
<1>5. ASSUME SameTriggers, NEW row \in db.audit, Deletes(row) PROVE Abstract!Next
  <2>1. db.audit \ db'.audit = {row} /\ db'.audit \ {row} \subseteq Row
    BY <1>0, <1>5 DEF Deletes
  <2>2. Abstract!Tamper(row)
    BY <1>1, <1>5, <2>1 DEF Deletes, Abstract!Tamper
  <2>3. QED
    BY <2>1, <2>2 DEF Abstract!Next
<1>6. ASSUME SameTriggers, NEW c \in Calls, NEW expired \in SUBSET db.audit, NEW row \in Row,
             Moves(c, expired, row)
      PROVE  Abstract!Next
  <2>1. row \notin db.audit \cup db.archive
    BY <1>0, <1>6 DEF Moves, RowsFit
  <2>2. db'.archive \ db.archive = expired
    BY <1>0, <1>6 DEF Moves, NothingLost
  <2>3. Abstract!Prune(expired, row)
    <3>1. Abstract!Cardinality(expired) = Cardinality(expired)
      BY DEF Abstract!Cardinality, Cardinality
    <3>2. QED
      BY <1>1, <1>6, <2>1, <3>1 DEF Moves, MovedOf, Abstract!Prune, Abstract!New
  <2>4. row \in db'.audit \ db.audit /\ Abstract!Prune(db'.archive \ db.archive, row)
    BY <1>6, <2>1, <2>2, <2>3 DEF Moves
  <2>5. QED
    BY <2>4 DEF Abstract!Next
<1>7. QED
  BY <1>0, <1>2, <1>3, <1>4, <1>5, <1>6, RowSteps DEF RowStep

(***************************************************************************)
(* The statements, the transaction of a prune and the triggers implement   *)
(* the append-only table of WormTable: rows are added, moved to the        *)
(* archive by a prune that leaves a row of its own, or changed while no    *)
(* trigger blocks, and in no other way.                                    *)
(***************************************************************************)
THEOREM TableImplemented == Spec => ImplementsWormTable
<1>1. Init => Abstract!Init
  <2>1. ASSUME Init PROVE db.audit = {} /\ db.archive = {} /\ Blocked(db) = TRUE
    BY <2>1, WormStoreAssumption DEF Init, Tables, Blocked
  <2>2. QED
    BY <2>1 DEF Abstract!Init
<1>2. QED
  BY <1>1, TableStep, WormInvariant, PTL DEF Spec, ImplementsWormTable, Abstract!Spec

================================================================================
