--------------------------- MODULE Gate530ApiProofs ---------------------------
(***************************************************************************)
(* Proofs about Gate530Api, for every value of its constants.              *)
(***************************************************************************)
EXTENDS Gate530ApiProperties, FiniteSetTheorems, TLAPS

-------------------------------------------------------------------------------
(* Operators.                                                              *)

\* A matched rule decides allow, deny or escalate, whatever action it names.
LEMMA RuleDecisionType == ASSUME NEW rule PROVE RuleDecision(rule) \in Decisions
BY DEF RuleDecision, Decisions

\* Fail closed: whatever the rules and the context, the answer is a decision.
LEMMA EvaluateType ==
    ASSUME NEW list, NEW sectorRules, NEW ctx
    PROVE  Evaluate(list, sectorRules, ctx) \in Decisions
<1>1. PerformEvaluation(list, sectorRules, ctx) \in Decisions \cup {"throws"}
  BY RuleDecisionType DEF PerformEvaluation, Decisions
<1>2. QED
  BY <1>1 DEF Evaluate, Decisions

\* Counting a request leaves a proper entry.
LEMMA CountType ==
    ASSUME NEW entry \in Entry, NEW isAdmin, NEW time \in Nat
    PROVE  Count(entry, isAdmin, time) \in Entry
BY RateAssumption DEF Count, Entry, WindowOf

\* A page of the audit log has selected events only, and those it leaves out are no newer.
LEMMA PageIs ==
    ASSUME NEW query, NEW skipped \in Skipped(query),
           NEW page \in Pages(query, Selected(query) \ skipped)
    PROVE  /\ page \subseteq Selected(query)
           /\ Selected(query) \subseteq AuditRows
           /\ query.offset = 0 =>
                 \A row \in Selected(query) \ page :
                    /\ query.limit # 0 /\ Cardinality(page) = query.limit
                    /\ \A other \in page : other.stamp >= row.stamp
BY DEF Skipped, Pages, Newest, Selected

-------------------------------------------------------------------------------
(* Types.                                                                  *)

(***************************************************************************)
(* The steps a request, a statement or the process can take.               *)
(***************************************************************************)
LEMMA NextCases ==
    ASSUME Next
    PROVE  \/ \E r \in Reqs, q \in Inputs : Receive(r, q)
           \/ \E r \in Reqs :
                 \/ BodyComplete(r)
                 \/ RejectBody(r)
                 \/ NotFound(r)
                 \/ Dispatch(r)
                 \/ LimitRate(r)
                 \/ Unauthenticated(r)
                 \/ Forbidden(r)
                 \/ HandlerThrows(r)
                 \/ StartEvaluate(r)
                 \/ StartCreateRule(r)
                 \/ StartDeleteRule(r)
                 \/ StartRead(r)
                 \/ AnswerLocally(r)
                 \/ Acquire(r)
                 \/ ConnectFail(r)
                 \/ QueryFail(r)
                 \/ EvidenceStored(r)
                 \/ AuditStored(r)
                 \/ EvidenceFound(r)
                 \/ EvidenceNotFound(r)
                 \/ AuditRead(r)
                 \/ Ready(r)
                 \/ Disconnect(r)
           \/ \E row \in sql : Commit(row) \/ Reject(row)
           \/ Signal \/ EndPool \/ Exit \/ Crash \/ Restart \/ Tick
BY DEF Next, Admission, Handler, Connect, Reply

LEMMA TypeStep == TypeOK /\ [Next]_vars => TypeOK'
<1> SUFFICES ASSUME TypeOK, [Next]_vars PROVE TypeOK'
  OBVIOUS
<1> USE DEF TypeOK, Pcs, OpenPcs, ConnPcs, RunPcs, InsertPcs, Goto, processVars, serverVars,
            requestVars, envVars, historyVars
<1>1. ASSUME NEW r \in Reqs, NEW q \in Inputs, Receive(r, q) PROVE TypeOK'
  BY <1>1 DEF Receive
<1>2. ASSUME NEW r \in Reqs, BodyComplete(r) PROVE TypeOK'
  BY <1>2 DEF BodyComplete
<1>3. ASSUME NEW r \in Reqs, RejectBody(r) PROVE TypeOK'
  BY <1>3 DEF RejectBody, Conclude, Finish, Respond, RecordMetrics, Statuses
<1>4. ASSUME NEW r \in Reqs, NotFound(r) PROVE TypeOK'
  BY <1>4 DEF NotFound, Conclude, Finish, Respond, RecordMetrics, Statuses
<1>5. ASSUME NEW r \in Reqs, Dispatch(r) PROVE TypeOK'
  <2>1. Counted(r) \in Entry
    BY <1>5, CountType, InputsAssumption, NoneAssumption DEF Dispatch, CountRequest, Counted
  <2>2. QED
    BY <1>5, <2>1 DEF Dispatch, CountRequest
<1>6. ASSUME NEW r \in Reqs, LimitRate(r) PROVE TypeOK'
  <2>1. Counted(r) \in Entry
    BY <1>6, CountType, InputsAssumption, NoneAssumption DEF LimitRate, CountRequest, Counted
  <2>2. /\ pc' \in [Reqs -> Pcs]
        /\ \A p \in Reqs : pc'[p] # "idle" => pc[p] # "idle"
    BY <1>6 DEF LimitRate, CountRequest, Respond
  <2>3. response' \in [Reqs -> [status : Statuses \cup {0}, decision : Decisions \cup {None},
                                rows : SUBSET db]]
    BY <1>6 DEF LimitRate, Respond, Statuses
  <2>4. rateLimitStore' \in [Ips -> Entry]
    BY <1>6, <2>1 DEF LimitRate, CountRequest
  <2>5. /\ UNCHANGED <<phase, busy, requestsTotal, requestsByStatus, request, decision,
                       stamp, sql, db, now, boot, before, bootOf>>
        /\ activeConnections' \in Int /\ sockets' \subseteq Reqs
    BY <1>6 DEF LimitRate, Respond
  <2>6. QED
    BY <2>2, <2>3, <2>4, <2>5
<1>7. ASSUME NEW r \in Reqs, Unauthenticated(r) PROVE TypeOK'
  BY <1>7 DEF Unauthenticated, Conclude, Finish, Respond, RecordMetrics, Statuses
<1>8. ASSUME NEW r \in Reqs, Forbidden(r) PROVE TypeOK'
  BY <1>8 DEF Forbidden, Conclude, Finish, Respond, RecordMetrics, Statuses
<1>9. ASSUME NEW r \in Reqs, StartEvaluate(r) PROVE TypeOK'
  BY <1>9, EvaluateType DEF StartEvaluate, Admitted
<1>10. ASSUME NEW r \in Reqs, StartCreateRule(r) PROVE TypeOK'
  BY <1>10 DEF StartCreateRule, Admitted
<1>11. ASSUME NEW r \in Reqs, StartDeleteRule(r) PROVE TypeOK'
  BY <1>11 DEF StartDeleteRule, Admitted
<1>12. ASSUME NEW r \in Reqs, StartRead(r) PROVE TypeOK'
  BY <1>12 DEF StartRead, Admitted
<1>13. ASSUME NEW r \in Reqs, AnswerLocally(r) PROVE TypeOK'
  BY <1>13 DEF AnswerLocally, Conclude, Finish, Respond, RecordMetrics, Statuses, Admitted
<1>14. ASSUME NEW r \in Reqs, Acquire(r) PROVE TypeOK'
  BY <1>14 DEF Acquire, RunAfter, EvidenceRow, AuditRow
<1>15. ASSUME NEW r \in Reqs, ConnectFail(r) PROVE TypeOK'
  <2>1. PICK status \in Statuses, d \in Decisions \cup {None} : Finish(r, status, d, {})
    BY <1>15 DEF ConnectFail, Fail, AnswerError, Conclude, Statuses, Decisions
  <2>2. QED
    BY <1>15, <2>1 DEF ConnectFail, Finish, Respond, RecordMetrics
<1>16. ASSUME NEW r \in Reqs, QueryFail(r) PROVE TypeOK'
  <2>1. PICK status \in Statuses, d \in Decisions \cup {None} : Finish(r, status, d, {})
    BY <1>16 DEF QueryFail, Fail, AnswerError, Conclude, Statuses, Decisions
  <2>2. QED
    BY <1>16, <2>1 DEF QueryFail, Finish, Respond, RecordMetrics, Release
<1>17. ASSUME NEW r \in Reqs, EvidenceStored(r) PROVE TypeOK'
  BY <1>17 DEF EvidenceStored, Release
<1>18. ASSUME NEW r \in Reqs, AuditStored(r) PROVE TypeOK'
  BY <1>18 DEF AuditStored, Release, SuccessStatus, Finish, Respond, RecordMetrics, Statuses
<1>19. ASSUME NEW r \in Reqs, EvidenceFound(r) PROVE TypeOK'
  BY <1>19 DEF EvidenceFound, ReadDone, Release, LatestEvidence, EvidenceRows, AuditRows, Finish, Respond, RecordMetrics, Statuses
<1>20. ASSUME NEW r \in Reqs, EvidenceNotFound(r) PROVE TypeOK'
  BY <1>20 DEF EvidenceNotFound, ReadDone, Release, LatestEvidence, EvidenceRows, AuditRows, Finish, Respond, RecordMetrics, Statuses
<1>21. ASSUME NEW r \in Reqs, AuditRead(r) PROVE TypeOK'
  <2>1. PICK page : ReadDone(r, "adminAudit", 200, page) /\ page \subseteq db
    BY <1>21, PageIs DEF AuditRead, AuditRows
  <2>2. QED
    BY <2>1 DEF ReadDone, Release, Finish, Respond, RecordMetrics, Statuses
<1>22. ASSUME NEW r \in Reqs, Ready(r) PROVE TypeOK'
  BY <1>22 DEF Ready, ReadDone, Release, LatestEvidence, EvidenceRows, AuditRows, Finish, Respond, RecordMetrics, Statuses
<1>23. ASSUME NEW row \in sql, Commit(row) \/ Reject(row) PROVE TypeOK'
  BY <1>23 DEF Commit, Reject
<1>24. ASSUME Exit \/ Crash PROVE TypeOK'
  <2>1. LoseMemory
    BY <1>24 DEF Exit, Crash
  <2>2. rateLimitStore' \in [Ips -> Entry]
    BY <2>1 DEF LoseMemory, Entry, NoEntry
  <2>3. requestsByStatus' \in [Statuses -> Nat]
    BY <2>1 DEF LoseMemory
  <2>4. pc' \in [Reqs -> Pcs] /\ \A r \in Reqs : pc'[r] # "idle" => pc[r] # "idle"
    BY <2>1 DEF LoseMemory, InFlight
  <2>5. QED
    BY <2>1, <2>2, <2>3, <2>4 DEF LoseMemory
<1>25. ASSUME Signal \/ EndPool \/ Restart \/ Tick PROVE TypeOK'
  BY <1>25 DEF Signal, EndPool, Restart, Tick
<1>26. CASE UNCHANGED vars
  BY <1>26 DEF vars
<1>27. ASSUME NEW r \in Reqs, HandlerThrows(r) PROVE TypeOK'
  BY <1>27 DEF HandlerThrows, Admitted, AnswerError, Decisions, Finish, Respond, RecordMetrics, Statuses
<1>28. ASSUME NEW r \in Reqs, Disconnect(r) PROVE TypeOK'
  BY <1>28 DEF Disconnect
<1>29. QED
  BY <1>1, <1>2, <1>3, <1>4, <1>5, <1>6, <1>7, <1>8, <1>9, <1>10, <1>11, <1>12, <1>13, <1>14, <1>15, <1>16, <1>17, <1>18, <1>19, <1>20, <1>21, <1>22, <1>23, <1>24, <1>25, <1>26, <1>27, <1>28, NextCases

(***************************************************************************)
(* Types are kept: no handler, fault or restart leaves a decision the      *)
(* engine does not know, a row of an unknown request or a status the API   *)
(* does not have.                                                          *)
(***************************************************************************)
THEOREM TypeCorrect == Spec => []TypeOK
<1>1. Init => TypeOK
  BY BoundsAssumption DEF Init, TypeOK, Pcs, Entry, NoEntry, NoResponse
<1>2. QED
  BY <1>1, TypeStep, PTL DEF Spec

-------------------------------------------------------------------------------
(* The inductive invariant.  A step moves one request, or none; what it    *)
(* has to show is collected here, so that the proof of an action says only *)
(* what is particular to it.                                               *)

\* The data of p, and where p stands, are not touched by a step.
Same(p) == request'[p] = request[p] /\ decision'[p] = decision[p] /\ stamp'[p] = stamp[p]
Kept(p) == Same(p) /\ pc'[p] = pc[p] /\ response'[p] = response[p]

\* Of the data of p only the time of its audit event may be set.
SameEvidence(p) == /\ request'[p] = request[p] /\ decision'[p] = decision[p]
                   /\ stamp'[p].evidence = stamp[p].evidence

\* What EvaluationRecorded and ConfirmedChangeAudited say of one request.
RecordFits(r) ==
    /\ Answered(r) /\ response[r].decision # None =>
          \/ response[r].status = 500 /\ response[r].decision = "deny"
          \/ /\ request[r].kind = "evaluate"
             /\ response[r].decision = decision[r]
             /\ response[r].status = (IF decision[r] = "deny" THEN 403 ELSE 200)
             /\ EvidenceRow(r) \in db
             /\ AuditRow(r) \in db
    /\ Confirmed(r) => AuditRow(r) \in db

LEMMA RecordsFit == EvaluationRecorded /\ ConfirmedChangeAudited <=> \A r \in Reqs : RecordFits(r)
BY DEF EvaluationRecorded, ConfirmedChangeAudited, RecordFits

\* The rows of a request depend on its data alone.
LEMMA SameRows ==
    ASSUME NEW p \in Reqs, Same(p)
    PROVE  EvidenceRow(p)' = EvidenceRow(p) /\ AuditRow(p)' = AuditRow(p) /\ SameEvidence(p)
BY DEF Same, EvidenceRow, AuditRow, SameEvidence

LEMMA SameEvidenceRow ==
    ASSUME NEW p \in Reqs, SameEvidence(p)
    PROVE  EvidenceRow(p)' = EvidenceRow(p)
BY DEF SameEvidence, EvidenceRow

\* A connection is taken, given back, or not touched.
LEMMA PoolStep ==
    ASSUME TypeOK, TypeOK', PoolBalanced, NEW r \in Reqs,
           \A p \in Reqs \ {r} : pc'[p] = pc[p],
           \/ pc[r] \notin RunPcs /\ pc'[r] \notin RunPcs /\ busy' = busy
           \/ pc[r] \in RunPcs /\ pc'[r] \notin RunPcs /\ busy' = busy \ {r}
           \/ /\ pc[r] \notin RunPcs /\ pc'[r] \in RunPcs /\ busy' = busy \cup {r}
              /\ Cardinality(busy) < MaxConnections
    PROVE  PoolBalanced'
<1>1. IsFiniteSet(busy)
  BY BoundsAssumption, FS_Subset DEF TypeOK
<1>2. busy' = { p \in Reqs : pc'[p] \in RunPcs }
  BY DEF PoolBalanced
<1>3. Cardinality(busy') <= MaxConnections
  <2>1. Cardinality(busy) \in Nat /\ MaxConnections \in Nat
    BY <1>1, FS_CardinalityType, BoundsAssumption
  <2>2. Cardinality(busy \ {r}) <= Cardinality(busy)
    BY <1>1, FS_Subset
  <2>3. Cardinality(busy \ {r}) \in Nat
    BY <1>1, FS_RemoveElement, FS_CardinalityType
  <2>4. r \notin busy => Cardinality(busy \cup {r}) = Cardinality(busy) + 1
    BY <1>1, FS_AddElement
  <2>5. pc[r] \notin RunPcs => r \notin busy
    BY DEF PoolBalanced
  <2>6. QED
    BY <2>1, <2>2, <2>3, <2>4, <2>5 DEF PoolBalanced
<1>4. QED
  BY <1>2, <1>3 DEF PoolBalanced

(***************************************************************************)
(* A step that touches only request r keeps the invariant if it leaves the *)
(* pool balanced and r in a place that fits; if what r has sent stays as   *)
(* it is; and if a statement it sends fits.                                *)
(***************************************************************************)
LEMMA MoveStep ==
    ASSUME TypeOK, TypeOK', IndInv, NEW r \in Reqs,
           \A p \in Reqs \ {r} : Kept(p),
           pc[r] \notin Unserved => pc'[r] \notin Unserved \cup {"connEvidence"} /\ SameEvidence(r),
           pc[r] \in AuditSent => pc'[r] \in AuditSent /\ Same(r),
           db' = db,
           \A row \in sql' : row \in sql \/ (RowFits(row)' /\ StatementFits(row)'),
           \A row \in sql : row.by = r => StatementFits(row)',
           PoolBalanced', PlaceFits(r)', RecordFits(r)'
    PROVE  IndInv'
<1>1. \A row \in sql' \cup db' : RowFits(row)'
  <2>1. SUFFICES ASSUME NEW row \in sql \cup db PROVE RowFits(row)'
    OBVIOUS
  <2>2. RowFits(row)
    BY DEF IndInv
  <2>3. /\ row.by \in Reqs /\ SameEvidence(row.by)
        /\ pc'[row.by] \notin Unserved \cup {"connEvidence"}
    <3>1. row.by \in Reqs /\ pc[row.by] \notin Unserved \cup {"connEvidence"}
      BY <2>2 DEF RowFits
    <3>2. CASE row.by = r
      BY <3>1, <3>2
    <3>3. CASE row.by # r
      BY <3>1, <3>3, SameRows DEF Kept
    <3>4. QED
      BY <3>2, <3>3
  <2>4. EvidenceRow(row.by)' = EvidenceRow(row.by)
    BY <2>3, SameEvidenceRow
  <2>5. CASE row = EvidenceRow(row.by) /\ decision[row.by] # None
    BY <2>3, <2>4, <2>5 DEF RowFits, SameEvidence
  <2>6. CASE /\ row = AuditRow(row.by)
             /\ pc[row.by] \in AuditSent
             /\ decision[row.by] # None \/ request[row.by].kind # "evaluate"
             /\ decision[row.by] # None => EvidenceRow(row.by) \in db
    <3>1. Same(row.by) /\ pc'[row.by] \in AuditSent
      BY <2>3, <2>6 DEF Kept
    <3>2. AuditRow(row.by)' = AuditRow(row.by)
      BY <2>3, <3>1, SameRows
    <3>3. QED
      BY <2>3, <2>4, <2>6, <3>1, <3>2 DEF RowFits, Same
  <2>7. QED
    BY <2>2, <2>5, <2>6 DEF RowFits
<1>6. \A row \in sql' : StatementFits(row)'
  <2>1. SUFFICES ASSUME NEW row \in sql, row.by # r PROVE StatementFits(row)'
    OBVIOUS
  <2>2. StatementFits(row) /\ row.by \in Reqs
    BY DEF IndInv, RowFits
  <2>3. QED
    BY <2>1, <2>2 DEF StatementFits, Kept
<1>2. \A p \in Reqs : PlaceFits(p)'
  <2>1. SUFFICES ASSUME NEW p \in Reqs \ {r} PROVE PlaceFits(p)'
    OBVIOUS
  <2>2. PlaceFits(p) /\ Kept(p) /\ Same(p)
    BY DEF IndInv, Kept
  <2>3. QED
    BY <2>2, SameRows DEF PlaceFits, Kept, Same
<1>3. \A p \in Reqs : RecordFits(p)'
  <2>1. SUFFICES ASSUME NEW p \in Reqs \ {r} PROVE RecordFits(p)'
    OBVIOUS
  <2>2. RecordFits(p) /\ Kept(p) /\ Same(p)
    BY RecordsFit DEF IndInv, Kept
  <2>3. QED
    BY <2>2, SameRows DEF RecordFits, Kept, Same, Confirmed, Answered
<1>4. EvaluationRecorded' /\ ConfirmedChangeAudited'
  BY <1>3 DEF EvaluationRecorded, ConfirmedChangeAudited, RecordFits
<1>5. QED
  BY <1>1, <1>2, <1>4, <1>6 DEF IndInv

\* A 500 tells DENY; no other answer but that of handleEvaluate tells a decision.
Told(status) == IF status = 500 THEN "deny" ELSE None

\* Request r is answered without its decision, and what it held is released.
Answers(r, status, rows) ==
    /\ pc[r] \in OpenPcs
    /\ Respond(r, status, Told(status), rows)
    /\ UNCHANGED <<request, decision, stamp, sql, db>>
    /\ busy' = IF pc[r] \in RunPcs THEN busy \ {r} ELSE busy

\* The actions that answer without a decision or a confirmation.
LEMMA OtherAnswers ==
    ASSUME NEW r \in Reqs,
           \/ RejectBody(r) \/ NotFound(r) \/ LimitRate(r) \/ Unauthenticated(r)
           \/ Forbidden(r) \/ HandlerThrows(r) \/ AnswerLocally(r)
           \/ ConnectFail(r) \/ QueryFail(r) \/ EvidenceFound(r) \/ EvidenceNotFound(r) \/ AuditRead(r) \/ Ready(r)
    PROVE  \E status \in Statuses \ {201, 204} : \E rows : Answers(r, status, rows)
<1> USE DEF Answers, Told, OpenPcs, ConnPcs, RunPcs, InsertPcs, Statuses, processVars
<1>1. CASE RejectBody(r)
  <2>1. Answers(r, 400, {})
    BY <1>1 DEF RejectBody, Conclude, Finish
  <2>2. QED
    BY <2>1
<1>2. CASE NotFound(r)
  <2>1. Answers(r, 404, {})
    BY <1>2 DEF NotFound, Conclude, Finish
  <2>2. QED
    BY <2>1
<1>3. CASE LimitRate(r)
  <2>1. Answers(r, 429, {})
    BY <1>3 DEF LimitRate, CountRequest
  <2>2. QED
    BY <2>1
<1>4. CASE Unauthenticated(r)
  <2>1. Answers(r, 401, {})
    BY <1>4 DEF Unauthenticated, Conclude, Finish
  <2>2. QED
    BY <2>1
<1>5. CASE Forbidden(r)
  <2>1. Answers(r, 403, {})
    BY <1>5 DEF Forbidden, Conclude, Finish
  <2>2. QED
    BY <2>1
<1>6. CASE AnswerLocally(r)
  <2>1. Answers(r, 200, {})
    BY <1>6 DEF AnswerLocally, Admitted, Conclude, Finish
  <2>2. QED
    BY <2>1
<1>7. CASE ConnectFail(r)
  <2>1. Answers(r, 500, {}) \/ Answers(r, 503, {})
    BY <1>7 DEF ConnectFail, Fail, AnswerError, Conclude, Finish
  <2>2. QED
    BY <2>1
<1>8. CASE QueryFail(r)
  <2>1. Answers(r, 500, {}) \/ Answers(r, 503, {})
    BY <1>8 DEF QueryFail, Release, Fail, AnswerError, Conclude, Finish
  <2>2. QED
    BY <2>1
<1>9. ASSUME NEW kind, NEW status \in {200, 404}, NEW rows, ReadDone(r, kind, status, rows)
     PROVE  Answers(r, status, rows)
  BY <1>9 DEF ReadDone, Release, Finish
<1>10. CASE EvidenceFound(r)
  BY <1>9, <1>10 DEF EvidenceFound
<1>11. CASE EvidenceNotFound(r)
  BY <1>9, <1>11 DEF EvidenceNotFound
<1>12. CASE AuditRead(r)
  BY <1>9, <1>12 DEF AuditRead
<1>13. CASE Ready(r)
  BY <1>9, <1>13 DEF Ready
<1>14. CASE HandlerThrows(r)
  <2>1. Answers(r, 500, {})
    BY <1>14 DEF HandlerThrows, Admitted, AnswerError, Finish
  <2>2. QED
    BY <2>1
<1>15. QED
  BY <1>1, <1>2, <1>3, <1>4, <1>5, <1>6, <1>7, <1>8, <1>10, <1>11, <1>12, <1>13, <1>14

\* Any answer but a decision or a confirmation keeps the invariant.
LEMMA OtherAnswerStep ==
    ASSUME TypeOK, TypeOK', IndInv, NEW r \in Reqs, NEW status \in Statuses \ {201, 204}, NEW rows,
           Answers(r, status, rows)
    PROVE  IndInv'
<1> USE DEF Answers
<1>1. pc'[r] = "done" /\ response'[r] = [status |-> status, decision |-> Told(status), rows |-> rows]
  BY DEF Respond, Goto, TypeOK
<1>2. Same(r) /\ \A p \in Reqs \ {r} : Kept(p)
  BY DEF Respond, Goto, TypeOK, Kept, Same
<1>3. PoolBalanced'
  BY <1>1, <1>2, PoolStep DEF IndInv, Kept, RunPcs, InsertPcs
<1>4. PlaceFits(r)'
  BY <1>1, <1>2 DEF IndInv, PlaceFits, Same, Unserved
<1>5. RecordFits(r)'
  BY <1>1 DEF RecordFits, Told, Confirmed, Answered
<1>6. \A row \in sql : StatementFits(row)'
  <2>1. \A row \in sql : StatementFits(row) /\ row.by \in Reqs
    BY DEF IndInv, RowFits
  <2>2. QED
    BY <1>1, <1>2, <2>1 DEF StatementFits, Kept, Ended
<1>7. pc'[r] \in AuditSent /\ pc'[r] \notin Unserved \cup {"connEvidence"} /\ SameEvidence(r)
  BY <1>1, <1>2, SameRows DEF AuditSent, Ended, Unserved
<1>8. QED
  BY <1>1, <1>2, <1>3, <1>4, <1>5, <1>6, <1>7, MoveStep

\* A step in which neither a request nor a row nor a connection changes.
LEMMA IdleStep ==
    ASSUME IndInv, UNCHANGED <<busy, requestVars, sql, db>>
    PROVE  IndInv'
BY DEF IndInv, PoolBalanced, RowFits, StatementFits, PlaceFits, EvaluationRecorded,
       ConfirmedChangeAudited, EvidenceRow, AuditRow, Confirmed, Answered, requestVars

\* Nothing is in flight of a request that neither waits for a reply nor has ended.
LEMMA NothingSent ==
    ASSUME IndInv, NEW r, pc[r] \notin InsertPcs \cup Ended
    PROVE  \A row \in sql : row.by # r
BY DEF IndInv, StatementFits

LEMMA IndStep == TypeOK /\ TypeOK' /\ IndInv /\ [Next]_vars => IndInv'
<1> SUFFICES ASSUME TypeOK, TypeOK', IndInv, [Next]_vars PROVE IndInv'
  OBVIOUS
<1> USE DEF Goto, OpenPcs, ConnPcs, RunPcs, InsertPcs, processVars, serverVars, envVars, historyVars
<1>1. ASSUME NEW r \in Reqs, NEW q \in Inputs, Receive(r, q) PROVE IndInv'
  <2>1. /\ pc[r] = "idle" /\ pc'[r] \in {"body", "route"} /\ decision'[r] = decision[r]
        /\ \A p \in Reqs \ {r} : Kept(p)
    BY <1>1 DEF Receive, TypeOK, Kept, Same
  <2>2. PoolBalanced'
    BY <1>1, <2>1, PoolStep DEF Receive, IndInv, Kept
  <2>3. PlaceFits(r)' /\ RecordFits(r)'
    BY <2>1 DEF IndInv, PlaceFits, RecordFits, Confirmed, Answered, Unserved
  <2>4. QED
    BY <1>1, <2>1, <2>2, <2>3, NothingSent, MoveStep DEF Receive, Unserved, AuditSent, Ended
<1>2. ASSUME NEW r \in Reqs, BodyComplete(r) \/ Dispatch(r) PROVE IndInv'
  <2>1. /\ pc[r] \in {"body", "route"} /\ pc'[r] \in {"route", "handler"}
        /\ Same(r) /\ \A p \in Reqs \ {r} : Kept(p)
        /\ UNCHANGED <<busy, sql, db>>
    BY <1>2 DEF BodyComplete, Dispatch, CountRequest, TypeOK, Kept, Same
  <2>2. PoolBalanced'
    BY <2>1, PoolStep DEF IndInv, Kept
  <2>3. PlaceFits(r)' /\ RecordFits(r)'
    BY <2>1 DEF IndInv, PlaceFits, RecordFits, Confirmed, Answered, Unserved, Same
  <2>4. QED
    BY <2>1, <2>2, <2>3, NothingSent, MoveStep DEF Unserved, AuditSent, Ended
<1>3. ASSUME NEW r \in Reqs,
             \/ RejectBody(r) \/ NotFound(r) \/ LimitRate(r) \/ Unauthenticated(r)
             \/ Forbidden(r) \/ HandlerThrows(r) \/ AnswerLocally(r)
             \/ ConnectFail(r) \/ QueryFail(r) \/ EvidenceFound(r) \/ EvidenceNotFound(r) \/ AuditRead(r) \/ Ready(r)
      PROVE IndInv'
  BY <1>3, OtherAnswers, OtherAnswerStep
<1>4. ASSUME NEW r \in Reqs, StartEvaluate(r) PROVE IndInv'
  <2>1. /\ pc[r] = "handler" /\ pc'[r] = "connEvidence" /\ request[r].kind = "evaluate"
        /\ \A p \in Reqs \ {r} : Kept(p)
        /\ UNCHANGED <<request, busy, sql, db>>
    BY <1>4 DEF StartEvaluate, Admitted, TypeOK, Kept, Same
  <2>2. decision'[r] # None
    BY <1>4, EvaluateType, NoneAssumption DEF StartEvaluate, TypeOK
  <2>3. request[r] # None
    BY <2>1, NoneAssumption DEF TypeOK
  <2>4. PoolBalanced'
    BY <2>1, PoolStep DEF IndInv, Kept
  <2>5. PlaceFits(r)' /\ RecordFits(r)'
    BY <2>1, <2>2, <2>3 DEF PlaceFits, RecordFits, Confirmed, Answered, Unserved
  <2>6. QED
    BY <2>1, <2>4, <2>5, NothingSent, MoveStep DEF Unserved, AuditSent, Ended
<1>5. ASSUME NEW r \in Reqs, StartCreateRule(r) \/ StartDeleteRule(r) \/ StartRead(r) PROVE IndInv'
  <2>1. /\ pc[r] = "handler"
        /\ \/ pc'[r] = "connAudit" /\ request[r].kind \in {"createRule", "deleteRule"}
           \/ pc'[r] = "connRead" /\ request[r].kind \in ReadKinds
        /\ decision'[r] = decision[r] /\ \A p \in Reqs \ {r} : Kept(p)
        /\ UNCHANGED <<request, busy, sql, db>>
    BY <1>5 DEF StartCreateRule, StartDeleteRule, StartRead, Admitted, TypeOK, Kept, Same
  <2>2. decision'[r] = None
    BY <2>1 DEF IndInv, PlaceFits, Unserved
  <2>3. PoolBalanced'
    BY <2>1, PoolStep DEF IndInv, Kept
  <2>4. PlaceFits(r)' /\ RecordFits(r)'
    BY <2>1, <2>2 DEF PlaceFits, RecordFits, Confirmed, Answered, Unserved
  <2>5. QED
    BY <2>1, <2>3, <2>4, NothingSent, MoveStep DEF Unserved, AuditSent, Ended
<1>6. ASSUME NEW r \in Reqs, Acquire(r) PROVE IndInv'
  <2>1. /\ pc[r] \in ConnPcs /\ pc'[r] = RunAfter[pc[r]]
        /\ Same(r) /\ \A p \in Reqs \ {r} : Kept(p)
        /\ UNCHANGED <<request, decision, stamp, db>>
        /\ busy' = busy \cup {r} /\ Cardinality(busy) < MaxConnections
    BY <1>6 DEF Acquire, TypeOK, Kept, Same
  <2>2. PlaceFits(r)
    BY DEF IndInv
  <2>3. PoolBalanced'
    BY <2>1, PoolStep DEF IndInv, Kept, RunAfter
  <2>4. PlaceFits(r)' /\ RecordFits(r)'
    BY <2>1, <2>2 DEF PlaceFits, RecordFits, Confirmed, Answered, Unserved, RunAfter,
                      EvidenceRow
  <2>5. ASSUME NEW row \in sql', row \notin sql PROVE RowFits(row)' /\ StatementFits(row)'
    <3>1. \/ pc[r] = "connEvidence" /\ row = EvidenceRow(r)
          \/ pc[r] = "connAudit" /\ row = AuditRow(r)
      BY <1>6, <2>1, <2>5 DEF Acquire
    <3>2. /\ row.by = r /\ pc'[r] \notin Unserved \cup {"connEvidence"}
          /\ row = AuditRow(r) => pc'[r] \in AuditSent
          /\ pc'[r] \in InsertPcs
      BY <2>1, <3>1 DEF EvidenceRow, AuditRow, RunAfter, Unserved, AuditSent
    <3>3. EvidenceRow(r)' = EvidenceRow(r) /\ AuditRow(r)' = AuditRow(r)
      BY <2>1, SameRows
    <3>4. RowFits(row)'
      BY <2>1, <2>2, <3>1, <3>2, <3>3 DEF RowFits, PlaceFits
    <3>5. row \notin db
      <4>1. SUFFICES ASSUME row \in db PROVE FALSE
        OBVIOUS
      <4>2. RowFits(row)
        BY <4>1 DEF IndInv
      <4>3. row.table = IF pc[r] = "connEvidence" THEN "evidence_records" ELSE "audit_events"
        BY <3>1 DEF EvidenceRow, AuditRow
      <4>4. pc[r] = "connAudit" /\ row = EvidenceRow(r)
        BY <2>1, <3>1, <3>2, <4>2 DEF RowFits, AuditSent, Ended
      <4>5. QED
        BY <4>3, <4>4 DEF EvidenceRow
    <3>6. QED
      BY <2>1, <3>2, <3>4, <3>5 DEF StatementFits
  <2>6. pc[r] \notin AuditSent /\ pc'[r] \notin Unserved \cup {"connEvidence"} /\ SameEvidence(r)
    BY <2>1, SameRows DEF AuditSent, Ended, Unserved, RunAfter
  <2>7. \A row \in sql : row.by # r
    BY <2>1, NothingSent DEF Ended
  <2>8. QED
    BY <2>1, <2>3, <2>4, <2>5, <2>6, <2>7, MoveStep
<1>7. ASSUME NEW r \in Reqs, EvidenceStored(r) PROVE IndInv'
  <2>1. /\ pc[r] = "runEvidence" /\ pc'[r] = "connAudit" /\ EvidenceRow(r) \in db
        /\ SameEvidence(r) /\ \A p \in Reqs \ {r} : Kept(p)
        /\ UNCHANGED <<request, decision, sql, db>>
        /\ busy' = busy \ {r}
    BY <1>7 DEF EvidenceStored, Release, TypeOK, Kept, Same, SameEvidence
  <2>2. PoolBalanced'
    BY <2>1, PoolStep DEF IndInv, Kept
  <2>3. PlaceFits(r)
    BY DEF IndInv
  <2>4. EvidenceRow(r)' = EvidenceRow(r)
    BY <2>1, SameEvidenceRow
  <2>5. PlaceFits(r)' /\ RecordFits(r)'
    BY <2>1, <2>3, <2>4 DEF PlaceFits, RecordFits, Confirmed, Answered, Unserved
  <2>6. \A row \in sql : row.by # r
    <3>1. SUFFICES ASSUME NEW row \in sql, row.by = r PROVE FALSE
      OBVIOUS
    <3>2. RowFits(row) /\ row \notin db
      BY DEF IndInv, StatementFits
    <3>3. row = EvidenceRow(r)
      BY <2>1, <3>1, <3>2 DEF RowFits, AuditSent, Ended
    <3>4. QED
      BY <2>1, <3>2, <3>3
  <2>7. QED
    BY <2>1, <2>2, <2>5, <2>6, MoveStep DEF Unserved, AuditSent, Ended
<1>8. ASSUME NEW r \in Reqs, AuditStored(r) PROVE IndInv'
  <2>1. /\ pc[r] = "runAudit" /\ pc'[r] = "done" /\ AuditRow(r) \in db
        /\ response'[r] = [status |-> SuccessStatus(r), decision |-> decision[r], rows |-> {}]
        /\ Same(r) /\ \A p \in Reqs \ {r} : Kept(p)
        /\ UNCHANGED <<request, decision, stamp, sql, db>>
        /\ busy' = busy \ {r}
    BY <1>8 DEF AuditStored, Release, Finish, Respond, TypeOK, Kept, Same
  <2>2. PoolBalanced'
    BY <2>1, PoolStep DEF IndInv, Kept
  <2>3. PlaceFits(r)
    BY DEF IndInv
  <2>4. EvidenceRow(r)' = EvidenceRow(r) /\ AuditRow(r)' = AuditRow(r)
    BY <2>1, SameRows
  <2>5. PlaceFits(r)'
    BY <2>1, <2>3 DEF PlaceFits, Unserved
  <2>6. RecordFits(r)'
    BY <2>1, <2>3, <2>4 DEF RecordFits, PlaceFits, Confirmed, Answered, SuccessStatus
  <2>7. /\ SameEvidence(r) /\ pc'[r] \in AuditSent
        /\ pc'[r] \notin Unserved \cup {"connEvidence"}
    BY <2>1, SameRows DEF AuditSent, Ended, Unserved
  <2>8. \A row \in sql : row.by = r => StatementFits(row)'
    BY <2>1 DEF IndInv, StatementFits, Ended
  <2>9. QED
    BY <2>1, <2>2, <2>5, <2>6, <2>7, <2>8, MoveStep
<1>9. ASSUME NEW row \in sql, Commit(row) \/ Reject(row) PROVE IndInv'
  <2>1. /\ UNCHANGED <<busy, pc, request, decision, stamp, response>>
        /\ db \subseteq db' /\ sql' \cup db' \subseteq sql \cup db
        /\ \A other \in sql' : other \in sql /\ (other \in db' => other \in db)
    BY <1>9 DEF Commit, Reject, requestVars
  <2>2. \A r \in Reqs : EvidenceRow(r)' = EvidenceRow(r) /\ AuditRow(r)' = AuditRow(r)
    BY <2>1 DEF EvidenceRow, AuditRow
  <2>3. (\A s \in sql \cup db : RowFits(s))'
    BY <2>1, <2>2 DEF IndInv, RowFits
  <2>4. (\A r \in Reqs : PlaceFits(r))'
    BY <2>1, <2>2 DEF IndInv, PlaceFits
  <2>5. EvaluationRecorded' /\ ConfirmedChangeAudited'
    BY <2>1, <2>2 DEF IndInv, EvaluationRecorded, ConfirmedChangeAudited, Confirmed, Answered
  <2>6. (\A s \in sql : StatementFits(s))'
    BY <2>1 DEF IndInv, StatementFits
  <2>7. QED
    BY <2>1, <2>3, <2>4, <2>5, <2>6 DEF IndInv, PoolBalanced
<1>10. ASSUME Exit \/ Crash PROVE IndInv'
  <2>1. /\ UNCHANGED <<request, decision, stamp, response, sql, db>> /\ busy' = {}
        /\ \A r \in Reqs : pc'[r] = IF pc[r] \in OpenPcs THEN "lost" ELSE pc[r]
    BY <1>10 DEF Exit, Crash, LoseMemory, InFlight
  <2>2. \A r \in Reqs : EvidenceRow(r)' = EvidenceRow(r) /\ AuditRow(r)' = AuditRow(r)
    BY <2>1 DEF EvidenceRow, AuditRow
  <2>3. (\A row \in sql \cup db : RowFits(row))'
    BY <2>1, <2>2 DEF IndInv, RowFits, Unserved, AuditSent, Ended
  <2>4. (\A r \in Reqs : PlaceFits(r))'
    BY <2>1, <2>2 DEF IndInv, PlaceFits, Unserved
  <2>5. EvaluationRecorded' /\ ConfirmedChangeAudited'
    BY <2>1, <2>2 DEF IndInv, EvaluationRecorded, ConfirmedChangeAudited, Confirmed, Answered
  <2>6. PoolBalanced'
    BY <2>1, FS_EmptySet, BoundsAssumption DEF PoolBalanced
  <2>7. (\A row \in sql : StatementFits(row))'
    <3>1. \A row \in sql : StatementFits(row) /\ row.by \in Reqs
      BY DEF IndInv, RowFits
    <3>2. QED
      BY <2>1, <3>1 DEF StatementFits, Ended
  <2>8. QED
    BY <2>1, <2>3, <2>4, <2>5, <2>6, <2>7 DEF IndInv
<1>11. ASSUME Signal \/ EndPool \/ Restart \/ Tick PROVE IndInv'
  BY <1>11, IdleStep DEF Signal, EndPool, Restart, Tick, requestVars
<1>12. CASE UNCHANGED vars
  BY <1>12, IdleStep DEF vars, requestVars
<1>13. ASSUME NEW r \in Reqs, Disconnect(r) PROVE IndInv'
  BY <1>13, IdleStep DEF Disconnect, requestVars
<1>14. QED
  BY <1>1, <1>2, <1>3, <1>4, <1>5, <1>6, <1>7, <1>8, <1>9, <1>10, <1>11, <1>12, <1>13, NextCases

-------------------------------------------------------------------------------
(* Safety.                                                                 *)

(***************************************************************************)
(* The inductive invariant: at every moment each row sent or stored is     *)
(* that of a request as it stands, a statement in flight is in no table,   *)
(* each request is where its rows allow, the pool holds the requests that  *)
(* wait for a reply, and a decision that was told is recorded unless it is *)
(* the DENY of a 500.                                                      *)
(***************************************************************************)
THEOREM IndInvHolds == Spec => []IndInv
<1>1. Init => IndInv
  <2> SUFFICES ASSUME Init PROVE IndInv
    OBVIOUS
  <2>1. PoolBalanced
    BY BoundsAssumption, FS_EmptySet DEF Init, PoolBalanced, RunPcs, InsertPcs
  <2>2. QED
    BY <2>1 DEF Init, IndInv, RowFits, StatementFits, PlaceFits, EvaluationRecorded,
                ConfirmedChangeAudited, Confirmed, Answered
<1>2. QED
  BY <1>1, TypeCorrect, IndStep, PTL DEF Spec

(***************************************************************************)
(* Whatever fails, a decision that a caller is told has its evidence and   *)
(* its audit event in PostgreSQL, unless it is a DENY told with a 500 (the *)
(* catch of handleRequest), which no record stands behind.                 *)
(***************************************************************************)
THEOREM DisclosedIsRecorded == Spec => []EvaluationRecorded
<1>1. IndInv => EvaluationRecorded
  BY DEF IndInv
<1>2. QED
  BY <1>1, IndInvHolds, PTL

(***************************************************************************)
(* A confirmed change of the rules has its audit event in PostgreSQL       *)
(* (handleCreateRule, handleDeleteRule).                                   *)
(***************************************************************************)
THEOREM ConfirmedIsAudited == Spec => []ConfirmedChangeAudited
<1>1. IndInv => ConfirmedChangeAudited
  BY DEF IndInv
<1>2. QED
  BY <1>1, IndInvHolds, PTL

(***************************************************************************)
(* The pool never leaks a connection and never exceeds its maximum         *)
(* (ApiDatabase).                                                          *)
(***************************************************************************)
THEOREM PoolNeverLeaks == Spec => []PoolBalanced
<1>1. IndInv => PoolBalanced
  BY DEF IndInv
<1>2. QED
  BY <1>1, IndInvHolds, PTL

(***************************************************************************)
(* No audit event of an evaluation without the evidence of the same        *)
(* decision, also among the statements that outlive their client           *)
(* (handleEvaluate).                                                       *)
(***************************************************************************)
THEOREM EvidenceFirst == Spec => []AuditFollowsEvidence
<1>1. IndInv => AuditFollowsEvidence
  <2> SUFFICES ASSUME IndInv, NEW row \in sql \cup db,
                      row.table = "audit_events", request[row.by].kind = "evaluate"
               PROVE  \E e \in EvidenceRows : e.by = row.by /\ e.decision = row.decision
    BY DEF AuditFollowsEvidence
  <2>1. /\ row = AuditRow(row.by)
        /\ EvidenceRow(row.by) \in db
    BY DEF IndInv, RowFits, EvidenceRow
  <2>2. EvidenceRow(row.by) \in EvidenceRows
    BY <2>1 DEF EvidenceRows, EvidenceRow
  <2>3. /\ EvidenceRow(row.by).by = row.by
        /\ EvidenceRow(row.by).decision = row.decision
    BY <2>1 DEF EvidenceRow, AuditRow
  <2>4. QED
    BY <2>2, <2>3
<1>2. QED
  BY <1>1, IndInvHolds, PTL

(***************************************************************************)
(* The rules of a running process change only in a step of an              *)
(* administrator's request (handleRequest, requiresAdmin).                 *)
(***************************************************************************)
THEOREM OnlyAdminsChangeRules == Spec => RulesChangedByAdmin
<1> DEFINE Change == \/ phase' = "down"
                     \/ \E r \in InFlight : /\ request[r].cred = "admin"
                                            /\ pc[r] = "handler" /\ pc'[r] # "handler"
<1>1. TypeOK /\ [Next]_vars => [rules' # rules => Change]_vars
  <2> SUFFICES ASSUME TypeOK, Next, rules' # rules PROVE Change
    OBVIOUS
  <2>1. ASSUME NEW r \in Reqs, StartCreateRule(r) \/ StartDeleteRule(r) PROVE Change
    <3>1. request[r].cred = "admin" /\ pc[r] = "handler"
      BY <2>1 DEF StartCreateRule, StartDeleteRule, Admitted, AdminKinds
    <3>2. pc'[r] = "connAudit"
      BY <2>1 DEF StartCreateRule, StartDeleteRule, Goto, TypeOK
    <3>3. QED
      BY <3>1, <3>2 DEF InFlight, OpenPcs
  <2>2. CASE Exit \/ Crash
    BY <2>2 DEF Exit, Crash, LoseMemory
  <2>3. \/ \E r \in Reqs : StartCreateRule(r) \/ StartDeleteRule(r)
        \/ Exit \/ Crash
    BY NextCases, ZenonT(90) DEF Receive, BodyComplete, RejectBody, NotFound, Dispatch, LimitRate,
           Unauthenticated, Forbidden, HandlerThrows, StartEvaluate, StartRead, AnswerLocally,
           Acquire, Disconnect,
           ConnectFail, QueryFail, EvidenceStored, AuditStored, EvidenceFound,
           EvidenceNotFound, AuditRead, Ready, ReadDone, Commit, Reject, Signal, EndPool,
           Restart, Tick, processVars
  <2>4. QED
    BY <2>1, <2>2, <2>3
<1>2. QED
  BY <1>1, TypeCorrect, PTL DEF Spec, RulesChangedByAdmin

-------------------------------------------------------------------------------
(* Refinement: the API implements ComplianceLedger.                        *)

EvidenceOf == { <<row.by, row.decision>> : row \in EvidenceRows }
AuditedOf  == { row.by : row \in AuditRows }
AnswerOf   == [r \in Reqs |-> Answer(r)]

\* Only the answer of one request changes: it is told nothing, or that something failed.
LEMMA OtherAnswerLedger ==
    ASSUME TypeOK, NEW r \in Reqs, NEW status \in Statuses \ {201, 204}, NEW rows,
           Answers(r, status, rows)
    PROVE  Ledger!AnswerOtherwise(r) \/ Ledger!FailClosed(r)
<1> USE DEF Answers
<1>1. pc'[r] = "done" /\ response'[r] = [status |-> status, decision |-> Told(status), rows |-> rows]
  BY DEF Respond, Goto, TypeOK
<1>2. \A p \in Reqs \ {r} : pc'[p] = pc[p] /\ response'[p] = response[p]
  BY DEF Respond, Goto, TypeOK
<1>3. Answer(r) = None
  BY DEF Answer, Answered, OpenPcs, ConnPcs, RunPcs, InsertPcs
<1>4. \A p \in Reqs \ {r} : Answer(p)' = Answer(p)
  BY <1>2 DEF Answer, Ground, Answered, Decided, Confirmed
<1>5. Answered(r)' /\ ~ Decided(r)' /\ ~ Confirmed(r)'
  BY <1>1 DEF Answered, Decided, Confirmed, Told
<1>6. CASE status = 500
  <2>1. Answer(r)' = [tells |-> "deny", because |-> "error"]
    BY <1>1, <1>5, <1>6 DEF Answer, Ground, Told
  <2>2. AnswerOf' = [AnswerOf EXCEPT ![r] = [tells |-> "deny", because |-> "error"]]
    BY <1>4, <2>1 DEF AnswerOf
  <2>3. QED
    BY <1>3, <2>2 DEF Ledger!FailClosed, EvidenceRows, AuditRows, AnswerOf
<1>7. CASE status # 500
  <2>1. Answer(r)' = [tells |-> None, because |-> "other"]
    BY <1>1, <1>5, <1>7 DEF Answer, Ground, Told
  <2>2. AnswerOf' = [AnswerOf EXCEPT ![r] = [tells |-> None, because |-> "other"]]
    BY <1>4, <2>1 DEF AnswerOf
  <2>3. QED
    BY <1>3, <2>2 DEF Ledger!AnswerOtherwise, EvidenceRows, AuditRows, AnswerOf
<1>8. QED
  BY <1>6, <1>7

\* An answer changes only when its request does.
LEMMA AnswersKept ==
    ASSUME \A p \in Reqs : \/ Kept(p)
                           \/ pc[p] # "done" /\ pc'[p] # "done"
    PROVE  AnswerOf' = AnswerOf
<1>1. \A p \in Reqs : Answer(p)' = Answer(p)
  BY DEF Answer, Ground, Answered, Decided, Confirmed, Kept, Same
<1>2. QED
  BY <1>1 DEF AnswerOf

\* A step that neither decides, nor stores, nor answers is no step of the ledger.
LEMMA StutterLedger ==
    ASSUME \A p \in Reqs : \/ Kept(p)
                           \/ pc[p] # "done" /\ pc'[p] # "done",
           UNCHANGED <<decision, db>>
    PROVE  UNCHANGED Ledger!vars
BY AnswersKept DEF Ledger!vars, AnswerOf, EvidenceRows, AuditRows

LEMMA LedgerStep == TypeOK /\ IndInv /\ [Next]_vars => [Ledger!Next]_(Ledger!vars)
<1> SUFFICES ASSUME TypeOK, IndInv, [Next]_vars PROVE [Ledger!Next]_(Ledger!vars)
  OBVIOUS
<1>1. ASSUME NEW r \in Reqs,
             \/ RejectBody(r) \/ NotFound(r) \/ LimitRate(r) \/ Unauthenticated(r)
             \/ Forbidden(r) \/ HandlerThrows(r) \/ AnswerLocally(r)
             \/ ConnectFail(r) \/ QueryFail(r) \/ EvidenceFound(r) \/ EvidenceNotFound(r) \/ AuditRead(r) \/ Ready(r)
      PROVE Ledger!Next
  BY <1>1, OtherAnswers, OtherAnswerLedger DEF Ledger!Next
<1>2. ASSUME NEW r \in Reqs,
             \/ \E q \in Inputs : Receive(r, q)
             \/ BodyComplete(r) \/ Dispatch(r) \/ StartCreateRule(r) \/ StartDeleteRule(r)
             \/ StartRead(r) \/ Acquire(r) \/ EvidenceStored(r)
      PROVE UNCHANGED Ledger!vars
  <2>1. /\ \A p \in Reqs \ {r} : Kept(p)
        /\ pc[r] # "done" /\ pc'[r] # "done"
        /\ UNCHANGED <<decision, db>>
    <3> USE DEF Goto, TypeOK, Kept, Same
    <3>1. CASE \E q \in Inputs : Receive(r, q)
      BY <3>1 DEF Receive
    <3>2. CASE BodyComplete(r) \/ Dispatch(r)
      BY <3>2 DEF BodyComplete, Dispatch, CountRequest
    <3>3. CASE StartCreateRule(r) \/ StartDeleteRule(r) \/ StartRead(r)
      BY <3>3 DEF StartCreateRule, StartDeleteRule, StartRead, Admitted
    <3>4. CASE Acquire(r)
      BY <3>4 DEF Acquire, ConnPcs, RunAfter
    <3>5. CASE EvidenceStored(r)
      BY <3>5 DEF EvidenceStored
    <3>6. QED
      BY <1>2, <3>1, <3>2, <3>3, <3>4, <3>5
  <2>2. QED
    BY <2>1, StutterLedger
<1>3. ASSUME NEW r \in Reqs, StartEvaluate(r) PROVE Ledger!Next
  <2>1. /\ pc[r] = "handler" /\ pc'[r] = "connEvidence" /\ db' = db
        /\ \A p \in Reqs \ {r} : Kept(p)
    BY <1>3 DEF StartEvaluate, Admitted, Goto, TypeOK, Kept, Same
  <2>2. PICK d \in Decisions : decision' = [decision EXCEPT ![r] = d]
    BY <1>3, EvaluateType DEF StartEvaluate
  <2>3. decision[r] = None /\ Answer(r) = None
    BY <2>1 DEF IndInv, PlaceFits, Unserved, Answer, Answered
  <2>4. r \notin AuditedOf
    BY <2>1 DEF AuditedOf, AuditRows, IndInv, RowFits, Unserved
  <2>5. AnswerOf' = AnswerOf
    BY <2>1, AnswersKept
  <2>6. Ledger!Decide(r, d)
    BY <2>1, <2>2, <2>3, <2>4, <2>5
       DEF Ledger!Decide, EvidenceRows, AuditRows, AuditedOf, AnswerOf
  <2>7. QED
    BY <2>6 DEF Ledger!Next
<1>4. ASSUME NEW row \in sql, Commit(row) PROVE Ledger!Next
  <2>1. /\ row.by \in Reqs /\ db' = db \cup {row} /\ UNCHANGED decision
        /\ AnswerOf' = AnswerOf
    BY <1>4 DEF Commit, TypeOK, requestVars, AnswerOf, Answer, Ground, Answered, Decided, Confirmed
  <2>2. RowFits(row)
    BY DEF IndInv
  <2>3. CASE row = EvidenceRow(row.by) /\ decision[row.by] # None
    <3>1. row.table = "evidence_records" /\ row.decision = decision[row.by]
      BY <2>3 DEF EvidenceRow
    <3>2. EvidenceOf' = EvidenceOf \cup {<<row.by, decision[row.by]>>}
      BY <2>1, <3>1 DEF EvidenceOf, EvidenceRows
    <3>3. AuditedOf' = AuditedOf
      BY <2>1, <3>1 DEF AuditedOf, AuditRows
    <3>4. Ledger!RecordEvidence(row.by)
      BY <2>1, <2>3, <3>2, <3>3 DEF Ledger!RecordEvidence, EvidenceOf, AuditedOf, AnswerOf
    <3>5. QED
      BY <2>1, <3>4 DEF Ledger!Next
  <2>4. CASE /\ row = AuditRow(row.by)
             /\ decision[row.by] # None => EvidenceRow(row.by) \in db
    <3>1. row.table = "audit_events"
      BY <2>4 DEF AuditRow
    <3>2. decision[row.by] # None => <<row.by, decision[row.by]>> \in EvidenceOf
      <4>1. /\ EvidenceRow(row.by).table = "evidence_records"
            /\ EvidenceRow(row.by).by = row.by
            /\ EvidenceRow(row.by).decision = decision[row.by]
        BY DEF EvidenceRow
      <4>2. QED
        BY <2>4, <4>1 DEF EvidenceOf, EvidenceRows
    <3>3. EvidenceOf' = EvidenceOf
      BY <2>1, <3>1 DEF EvidenceOf, EvidenceRows
    <3>4. AuditedOf' = AuditedOf \cup {row.by}
      BY <2>1, <3>1 DEF AuditedOf, AuditRows
    <3>5. Ledger!RecordAudit(row.by)
      BY <2>1, <3>2, <3>3, <3>4 DEF Ledger!RecordAudit, EvidenceOf, AuditedOf, AnswerOf
    <3>6. QED
      BY <2>1, <3>5 DEF Ledger!Next
  <2>5. QED
    BY <2>2, <2>3, <2>4 DEF RowFits
<1>5. ASSUME NEW r \in Reqs, AuditStored(r) PROVE Ledger!Next
  <2>1. /\ pc[r] = "runAudit" /\ pc'[r] = "done" /\ AuditRow(r) \in db
        /\ response'[r] = [status |-> SuccessStatus(r), decision |-> decision[r], rows |-> {}]
        /\ \A p \in Reqs \ {r} : Kept(p)
        /\ UNCHANGED <<request, decision, db>>
    BY <1>5 DEF AuditStored, Finish, Respond, Goto, TypeOK, Kept, Same
  <2>2. PlaceFits(r)
    BY DEF IndInv
  <2>3. Answer(r) = None
    BY <2>1 DEF Answer, Answered
  <2>4. Answer(r)' = [tells   |-> decision[r],
                      because |-> IF decision[r] = None THEN "change" ELSE "verdict"]
    <3>1. CASE decision[r] = None
      <4>1. SuccessStatus(r) \in {201, 204}
        BY <2>1, <2>2, <3>1 DEF PlaceFits, SuccessStatus
      <4>2. QED
        BY <2>1, <3>1, <4>1 DEF Answer, Ground, Answered, Decided, Confirmed
    <3>2. CASE decision[r] # None
      <4>1. request[r].kind = "evaluate" /\ SuccessStatus(r) \in {200, 403}
        BY <2>2, <3>2 DEF PlaceFits, SuccessStatus
      <4>2. QED
        BY <2>1, <3>2, <4>1 DEF Answer, Ground, Answered, Decided, Confirmed
    <3>3. QED
      BY <3>1, <3>2
  <2>5. \A p \in Reqs \ {r} : Answer(p)' = Answer(p)
    BY <2>1 DEF Answer, Ground, Answered, Decided, Confirmed, Kept, Same
  <2>6. AnswerOf' = [AnswerOf EXCEPT ![r] =
                        [tells   |-> decision[r],
                         because |-> IF decision[r] = None THEN "change" ELSE "verdict"]]
    BY <2>4, <2>5 DEF AnswerOf
  <2>7. r \in AuditedOf
    BY <2>1 DEF AuditedOf, AuditRows, AuditRow
  <2>8. Ledger!Disclose(r)
    BY <2>1, <2>3, <2>6, <2>7 DEF Ledger!Disclose, EvidenceRows, AuditRows, AuditedOf, AnswerOf
  <2>9. QED
    BY <2>8 DEF Ledger!Next
<1>6. ASSUME NEW row \in sql, Reject(row) PROVE UNCHANGED Ledger!vars
  BY <1>6, StutterLedger DEF Reject, requestVars, Kept, Same
<1>7. ASSUME Exit \/ Crash PROVE UNCHANGED Ledger!vars
  BY <1>7, StutterLedger DEF Exit, Crash, LoseMemory, InFlight, Kept, Same, OpenPcs, ConnPcs,
     RunPcs, InsertPcs
<1>8. ASSUME Signal \/ EndPool \/ Restart \/ Tick PROVE UNCHANGED Ledger!vars
  BY <1>8, StutterLedger DEF Signal, EndPool, Restart, Tick, requestVars, Kept, Same
<1>9. CASE UNCHANGED vars
  BY <1>9, StutterLedger DEF vars, requestVars, Kept, Same
<1>10. ASSUME NEW r \in Reqs, Disconnect(r) PROVE UNCHANGED Ledger!vars
  BY <1>10, StutterLedger DEF Disconnect, requestVars, Kept, Same
<1>11. QED
  BY <1>1, <1>2, <1>3, <1>4, <1>5, <1>6, <1>7, <1>8, <1>9, <1>10, NextCases

(***************************************************************************)
(* The API implements ComplianceLedger, for every number of requests and   *)
(* connections, every rule set and every fault of PostgreSQL, its          *)
(* connections and the process: nobody learns a verdict before it is       *)
(* recorded and audited, and all that is told without records is the       *)
(* denial of a request that failed.                                        *)
(***************************************************************************)
THEOREM ApiImplementsLedger == Spec => ImplementsLedger
<1>1. Init => Ledger!Init
  BY DEF Init, Ledger!Init, Answer, Answered, EvidenceRows, AuditRows
<1>2. QED
  BY <1>1, TypeCorrect, IndInvHolds, LedgerStep, PTL DEF Spec, ImplementsLedger, Ledger!Spec

-------------------------------------------------------------------------------
(* Sums.                                                                   *)

\* A set of natural numbers that is not empty has a least element.
LEMMA Least ==
    ASSUME NEW T, T \subseteq Nat, T # {}
    PROVE  \E x \in T : \A y \in T : x <= y
<1>1. PICK R : R = OpToRel(<, Nat)
  OBVIOUS
<1>2. \A x, y \in Nat : x < y => <<x, y>> \in R
  BY <1>1 DEF OpToRel
<1>3. IsWellFoundedOn(R, Nat)
  BY <1>1, NatLessThanWellFounded
<1>4. PICK x \in T : \A y \in T : ~ (<<y, x>> \in R)
  BY <1>3, WFMin
<1>5. ASSUME NEW y \in T PROVE x <= y
  <2>1. x \in Nat /\ y \in Nat
    OBVIOUS
  <2>2. ~ y < x
    BY <1>2, <1>4, <2>1
  <2>3. QED
    BY <2>1, <2>2
<1>6. QED
  BY <1>5

\* The counts of all statuses, and of those in s.
AllOf(t) == t[200] + t[201] + t[204] + t[400] + t[401] + t[403] + t[404] + t[429] + t[500] + t[503]
Part(g, s) == AllOf([x \in Statuses |-> IF x \in s THEN g[x] ELSE 0])

\* If two counts differ in one status, their sums do by as much.
LEMMA AllDiffer ==
    ASSUME NEW t \in [Statuses -> Nat], NEW u \in [Statuses -> Nat], NEW x \in Statuses,
           \A y \in Statuses \ {x} : t[y] = u[y]
    PROVE  AllOf(t) + u[x] = AllOf(u) + t[x]
<1>1. /\ t[200] \in Nat /\ t[201] \in Nat /\ t[204] \in Nat /\ t[400] \in Nat /\ t[401] \in Nat
      /\ t[403] \in Nat /\ t[404] \in Nat /\ t[429] \in Nat /\ t[500] \in Nat /\ t[503] \in Nat
  BY DEF Statuses
<1>2. /\ u[200] \in Nat /\ u[201] \in Nat /\ u[204] \in Nat /\ u[400] \in Nat /\ u[401] \in Nat
      /\ u[403] \in Nat /\ u[404] \in Nat /\ u[429] \in Nat /\ u[500] \in Nat /\ u[503] \in Nat
  BY DEF Statuses
<1>3. CASE x = 200
  <2>1. AllOf(t) = t[200] + u[201] + u[204] + u[400] + u[401] + u[403] + u[404] + u[429] + u[500] + u[503]
    BY <1>3 DEF AllOf, Statuses
  <2>2. QED
    BY <1>1, <1>2, <1>3, <2>1 DEF AllOf
<1>4. CASE x = 201
  <2>1. AllOf(t) = u[200] + t[201] + u[204] + u[400] + u[401] + u[403] + u[404] + u[429] + u[500] + u[503]
    BY <1>4 DEF AllOf, Statuses
  <2>2. QED
    BY <1>1, <1>2, <1>4, <2>1 DEF AllOf
<1>5. CASE x = 204
  <2>1. AllOf(t) = u[200] + u[201] + t[204] + u[400] + u[401] + u[403] + u[404] + u[429] + u[500] + u[503]
    BY <1>5 DEF AllOf, Statuses
  <2>2. QED
    BY <1>1, <1>2, <1>5, <2>1 DEF AllOf
<1>6. CASE x = 400
  <2>1. AllOf(t) = u[200] + u[201] + u[204] + t[400] + u[401] + u[403] + u[404] + u[429] + u[500] + u[503]
    BY <1>6 DEF AllOf, Statuses
  <2>2. QED
    BY <1>1, <1>2, <1>6, <2>1 DEF AllOf
<1>7. CASE x = 401
  <2>1. AllOf(t) = u[200] + u[201] + u[204] + u[400] + t[401] + u[403] + u[404] + u[429] + u[500] + u[503]
    BY <1>7 DEF AllOf, Statuses
  <2>2. QED
    BY <1>1, <1>2, <1>7, <2>1 DEF AllOf
<1>8. CASE x = 403
  <2>1. AllOf(t) = u[200] + u[201] + u[204] + u[400] + u[401] + t[403] + u[404] + u[429] + u[500] + u[503]
    BY <1>8 DEF AllOf, Statuses
  <2>2. QED
    BY <1>1, <1>2, <1>8, <2>1 DEF AllOf
<1>9. CASE x = 404
  <2>1. AllOf(t) = u[200] + u[201] + u[204] + u[400] + u[401] + u[403] + t[404] + u[429] + u[500] + u[503]
    BY <1>9 DEF AllOf, Statuses
  <2>2. QED
    BY <1>1, <1>2, <1>9, <2>1 DEF AllOf
<1>10. CASE x = 429
  <2>1. AllOf(t) = u[200] + u[201] + u[204] + u[400] + u[401] + u[403] + u[404] + t[429] + u[500] + u[503]
    BY <1>10 DEF AllOf, Statuses
  <2>2. QED
    BY <1>1, <1>2, <1>10, <2>1 DEF AllOf
<1>11. CASE x = 500
  <2>1. AllOf(t) = u[200] + u[201] + u[204] + u[400] + u[401] + u[403] + u[404] + u[429] + t[500] + u[503]
    BY <1>11 DEF AllOf, Statuses
  <2>2. QED
    BY <1>1, <1>2, <1>11, <2>1 DEF AllOf
<1>12. CASE x = 503
  <2>1. AllOf(t) = u[200] + u[201] + u[204] + u[400] + u[401] + u[403] + u[404] + u[429] + u[500] + t[503]
    BY <1>12 DEF AllOf, Statuses
  <2>2. QED
    BY <1>1, <1>2, <1>12, <2>1 DEF AllOf
<1>13. x \in {200, 201, 204, 400, 401, 403, 404, 429, 500, 503}
  BY DEF Statuses
<1>14. QED
  BY <1>13, <1>3, <1>4, <1>5, <1>6, <1>7, <1>8, <1>9, <1>10, <1>11, <1>12

\* The sum of natural numbers is one.
LEMMA AllType == ASSUME NEW t \in [Statuses -> Nat] PROVE AllOf(t) \in Nat
<1>1. /\ t[200] \in Nat /\ t[201] \in Nat /\ t[204] \in Nat /\ t[400] \in Nat /\ t[401] \in Nat
      /\ t[403] \in Nat /\ t[404] \in Nat /\ t[429] \in Nat /\ t[500] \in Nat /\ t[503] \in Nat
  BY DEF Statuses
<1>2. QED
  BY <1>1 DEF AllOf

\* Nothing is counted of no status.
LEMMA PartOfNone ==
    ASSUME NEW g, NEW s, \A x \in Statuses : x \in s => g[x] = 0
    PROVE  Part(g, s) = 0
<1>1. PICK t : t = [x \in Statuses |-> IF x \in s THEN g[x] ELSE 0]
  OBVIOUS
<1>2. \A x \in Statuses : t[x] = 0
  BY <1>1
<1>3. AllOf(t) = 0
  BY <1>2 DEF AllOf, Statuses
<1>4. QED
  BY <1>1, <1>3 DEF Part

\* A status of s can be counted apart.
LEMMA PartTakes ==
    ASSUME NEW g \in [Statuses -> Nat], NEW s \in SUBSET Statuses, NEW x \in s
    PROVE  Part(g, s) = g[x] + Part(g, s \ {x})
<1>1. PICK t : t = [y \in Statuses |-> IF y \in s THEN g[y] ELSE 0]
  OBVIOUS
<1>2. PICK u : u = [y \in Statuses |-> IF y \in s \ {x} THEN g[y] ELSE 0]
  OBVIOUS
<1>3. t \in [Statuses -> Nat] /\ u \in [Statuses -> Nat] /\ x \in Statuses
  BY <1>1, <1>2
<1>4. t[x] = g[x] /\ u[x] = 0 /\ \A y \in Statuses \ {x} : t[y] = u[y]
  BY <1>1, <1>2
<1>5. AllOf(t) + u[x] = AllOf(u) + t[x]
  BY <1>3, <1>4, AllDiffer
<1>6. AllOf(t) \in Nat /\ AllOf(u) \in Nat /\ g[x] \in Nat
  BY <1>3, AllType
<1>7. AllOf(t) = g[x] + AllOf(u)
  BY <1>4, <1>5, <1>6
<1>8. QED
  BY <1>1, <1>2, <1>7 DEF Part

\* Whatever statuses are counted, the sum is a natural number.
LEMMA PartType ==
    ASSUME NEW g \in [Statuses -> Nat], NEW s \in SUBSET Statuses
    PROVE  Part(g, s) \in Nat
<1>1. [x \in Statuses |-> IF x \in s THEN g[x] ELSE 0] \in [Statuses -> Nat]
  OBVIOUS
<1>2. QED
  BY <1>1, AllType DEF Part

\* If only the count of one status changes, what it adds is added.
LEMMA PartAdds ==
    ASSUME NEW g \in [Statuses -> Nat], NEW status \in Statuses,
           NEW h \in [Statuses -> Nat], h = [g EXCEPT ![status] = @ + 1]
    PROVE  Part(h, Statuses) = Part(g, Statuses) + 1
<1>1. /\ [x \in Statuses |-> IF x \in Statuses THEN g[x] ELSE 0] = g
      /\ [x \in Statuses |-> IF x \in Statuses THEN h[x] ELSE 0] = h
  OBVIOUS
<1>2. h[status] = g[status] + 1 /\ g[status] \in Nat /\ \A y \in Statuses \ {status} : h[y] = g[y]
  OBVIOUS
<1>3. AllOf(h) + g[status] = AllOf(g) + h[status]
  BY <1>2, AllDiffer
<1>4. AllOf(g) \in Nat /\ AllOf(h) \in Nat
  BY AllType
<1>5. AllOf(h) = AllOf(g) + 1
  BY <1>2, <1>3, <1>4
<1>6. QED
  BY <1>1, <1>5 DEF Part

\* The sum that MetricsBalanced takes of requestsByStatus.
Total(g) == MapThenSumSet(LAMBDA s : g[s], Statuses)

\* The fold of MapThenSumSet adds the counts of all statuses, in whatever order it takes them.
LEMMA SumIs ==
    ASSUME NEW g \in [Statuses -> Nat]
    PROVE  Total(g) = Part(g, Statuses)
<1> DEFINE E(f) == [s \in SUBSET Statuses |->
                       IF s = {} THEN 0
                       ELSE LET y == CHOOSE x \in s : TRUE IN g[y] + f[s \ {y}]]
<1>1. PICK it : it = CHOOSE f : f = E(f)
  OBVIOUS
<1>2. it = E(it)
  <2>1. PICK f : f = [s \in SUBSET Statuses |-> Part(g, s)]
    OBVIOUS
  <2>2. ASSUME NEW s \in SUBSET Statuses
        PROVE  f[s] = IF s = {} THEN 0
                      ELSE LET y == CHOOSE x \in s : TRUE IN g[y] + f[s \ {y}]
    <3>1. CASE s = {}
      BY <2>1, <3>1, PartOfNone
    <3>2. CASE s # {}
      <4>1. PICK x : x = CHOOSE y \in s : TRUE
        OBVIOUS
      <4>2. x \in s
        BY <3>2, <4>1
      <4>3. f[s] = g[x] + f[s \ {x}]
        BY <2>1, <4>2, PartTakes
      <4>4. QED
        BY <3>2, <4>1, <4>3
    <3>3. QED
      BY <3>1, <3>2
  <2>3. f = E(f)
    BY <2>1, <2>2
  <2> HIDE DEF E
  <2>4. QED
    BY <1>1, <2>3
<1>3. \A s \in SUBSET Statuses :
         it[s] = IF s = {} THEN 0 ELSE LET y == CHOOSE x \in s : TRUE IN g[y] + it[s \ {y}]
  BY <1>2
<1>4. IsFiniteSet(Statuses)
  <2>1. Statuses \in SUBSET Nat /\ \A s \in Statuses : s <= 503
    BY DEF Statuses
  <2>2. QED
    BY <2>1, FS_BoundedSetOfNaturals
<1>5. \A s \in SUBSET Statuses : it[s] = Part(g, s)
  <2> DEFINE T == { n \in Nat : \E s \in SUBSET Statuses : Cardinality(s) = n /\ it[s] # Part(g, s) }
  <2>1. CASE T = {}
    <3>1. \A s \in SUBSET Statuses : Cardinality(s) \in Nat
      BY <1>4, FS_Subset, FS_CardinalityType
    <3>2. QED
      BY <2>1, <3>1
  <2>2. CASE T # {}
    <3>1. PICK n \in T : \A m \in T : n <= m
      <4>1. T \subseteq Nat
        OBVIOUS
      <4> HIDE DEF T
      <4>2. QED
        BY <2>2, <4>1, Least
    <3>2. PICK s \in SUBSET Statuses : Cardinality(s) = n /\ it[s] # Part(g, s)
      BY <3>1
    <3>3. s # {}
      BY <1>3, <3>2, PartOfNone
    <3>4. PICK x : x = CHOOSE y \in s : TRUE
      OBVIOUS
    <3>5. x \in s /\ it[s] = g[x] + it[s \ {x}]
      BY <1>3, <3>3, <3>4
    <3>6. Cardinality(s \ {x}) = n - 1 /\ Cardinality(s \ {x}) \in Nat
      BY <1>4, <3>2, <3>5, FS_Subset, FS_RemoveElement, FS_CardinalityType
    <3>7. it[s \ {x}] = Part(g, s \ {x})
      <4>1. n \in Nat /\ n - 1 \notin T
        <5>1. n \in Nat
          BY <3>1
        <5> HIDE DEF T
        <5>2. QED
          BY <3>1, <5>1
      <4>2. QED
        BY <3>6, <4>1
    <3>8. QED
      BY <3>2, <3>5, <3>7, PartTakes
  <2>3. QED
    BY <2>1, <2>2
<1>6. Total(g) = it[Statuses]
  BY <1>1 DEF Total, MapThenSumSet, MapThenFoldSet
<1>7. QED
  BY <1>5, <1>6

-------------------------------------------------------------------------------
(* Metrics and shutdown.                                                   *)

\* The requests of this process that the limiter refused.
Limited == { r \in Reqs : bootOf[r] = boot /\ response[r].status = 429 }

(***************************************************************************)
(* A process that is down serves nobody and one that ends its pool has no  *)
(* open socket; who is served belongs to the process that runs and has no  *)
(* response yet; a process that is down counts nothing, and the next one   *)
(* is not blamed for what its predecessor did.                             *)
(***************************************************************************)
ProcessFits ==
    /\ phase = "down" => InFlight = {}
    /\ phase = "ending" => sockets = {}
    /\ \A r \in Reqs : /\ bootOf[r] <= boot
                       /\ pc[r] # "done" => response[r] = NoResponse
                       /\ pc[r] \in OpenPcs => bootOf[r] = boot
    /\ IF phase = "down"
       THEN /\ activeConnections = 0 /\ requestsTotal = 0
            /\ requestsByStatus = [s \in Statuses |-> 0]
       ELSE /\ activeConnections = Cardinality(InFlight)
            /\ requestsTotal = Total(requestsByStatus) + activeConnections + Cardinality(Limited)

\* The sum of all statuses is a natural number.
LEMMA TotalType ==
    ASSUME NEW g \in [Statuses -> Nat]
    PROVE  Total(g) \in Nat
BY PartType, SumIs

\* An answer more under one status is one more in the sum.
LEMMA TotalAdds ==
    ASSUME NEW g \in [Statuses -> Nat], NEW status \in Statuses,
           NEW h \in [Statuses -> Nat], h = [g EXCEPT ![status] = @ + 1]
    PROVE  Total(h) = Total(g) + 1
<1>1. Part(g, Statuses) \in Nat
  BY PartType
<1>2. QED
  BY <1>1, SumIs, PartAdds

\* A process that starts has counted nothing.
LEMMA NothingCounted == Total([s \in Statuses |-> 0]) = 0
<1>1. PICK g : g = [s \in Statuses |-> 0]
  OBVIOUS
<1>2. g \in [Statuses -> Nat] /\ \A s \in Statuses : g[s] = 0
  BY <1>1
<1>3. Part(g, Statuses) = 0
  BY <1>2, PartOfNone
<1>4. QED
  BY <1>1, <1>2, <1>3, SumIs

\* A step that neither begins nor answers a request, in the same process.
LEMMA OnwardStep ==
    ASSUME TypeOK, ProcessFits, sockets' \subseteq sockets,
           UNCHANGED <<requestsTotal, requestsByStatus, activeConnections, response, bootOf, boot>>,
           \A r \in Reqs : pc'[r] \in OpenPcs <=> pc[r] \in OpenPcs,
           \A r \in Reqs : pc'[r] = "done" <=> pc[r] = "done",
           \/ phase' = phase
           \/ phase = "up" /\ phase' = "closing"
           \/ phase = "closing" /\ phase' = "ending" /\ sockets = {}
    PROVE  ProcessFits'
<1>1. InFlight' = InFlight
  BY DEF InFlight
<1>2. Limited' = Limited
  BY DEF Limited
<1>3. QED
  BY <1>1, <1>2 DEF ProcessFits

\* A request arrives.
LEMMA ReceiveStep ==
    ASSUME TypeOK, TypeOK', ProcessFits, NEW r \in Reqs, NEW q \in Inputs, Receive(r, q)
    PROVE  ProcessFits'
<1>1. pc[r] = "idle" /\ pc'[r] \in OpenPcs /\ \A p \in Reqs \ {r} : pc'[p] = pc[p]
  BY DEF Receive, Goto, OpenPcs, TypeOK
<1>2. /\ response' = response /\ boot' = boot /\ phase \in {"up", "closing"} /\ phase' = phase
      /\ bootOf'[r] = boot /\ \A p \in Reqs \ {r} : bootOf'[p] = bootOf[p]
  BY DEF Receive, envVars, processVars, TypeOK
<1>3. InFlight' = InFlight \cup {r} /\ r \notin InFlight
  BY <1>1 DEF InFlight, OpenPcs, ConnPcs, RunPcs, InsertPcs
<1>4. Limited' = Limited
  <2>1. response[r].status = 0
    BY <1>1 DEF ProcessFits, NoResponse
  <2>2. QED
    BY <1>2, <2>1 DEF Limited
<1>5. Cardinality(InFlight') = Cardinality(InFlight) + 1
  <2>1. IsFiniteSet(InFlight)
    BY BoundsAssumption, FS_Subset DEF InFlight
  <2>2. QED
    BY <1>3, <2>1, FS_AddElement
<1>6. Cardinality(Limited) \in Nat
  BY BoundsAssumption, FS_Subset, FS_CardinalityType DEF Limited
<1>7. /\ requestsTotal' = requestsTotal + 1 /\ activeConnections' = activeConnections + 1
      /\ requestsByStatus' = requestsByStatus
  BY DEF Receive
<1>8. Total(requestsByStatus) \in Nat
  BY TotalType DEF TypeOK
<1>9. PICK total : total = Total(requestsByStatus)
  OBVIOUS
<1>10. /\ activeConnections' = Cardinality(InFlight')
       /\ requestsTotal' = Total(requestsByStatus)' + activeConnections' + Cardinality(Limited')
  BY <1>2, <1>4, <1>5, <1>6, <1>7, <1>8, <1>9 DEF ProcessFits, TypeOK
<1>11. \A p \in Reqs : /\ bootOf'[p] <= boot'
                       /\ pc'[p] # "done" => response'[p] = NoResponse
                       /\ pc'[p] \in OpenPcs => bootOf'[p] = boot'
  BY <1>1, <1>2 DEF ProcessFits, TypeOK
<1>12. QED
  BY <1>2, <1>10, <1>11 DEF ProcessFits

\* What an answer does to the process: one active connection less, one status more.
LEMMA AnsweredStep ==
    ASSUME TypeOK, TypeOK', ProcessFits, NEW r \in Reqs, pc[r] \in OpenPcs,
           NEW status, NEW decided, NEW rows, Respond(r, status, decided, rows),
           UNCHANGED <<phase, boot, bootOf>>,
           \/ status \in Statuses \ {429} /\ RecordMetrics(status)
           \/ status = 429 /\ UNCHANGED requestsByStatus
    PROVE  ProcessFits'
<1>1. pc'[r] = "done" /\ \A p \in Reqs \ {r} : pc'[p] = pc[p] /\ response'[p] = response[p]
  BY DEF Respond, Goto, TypeOK
<1>2. response'[r].status = status
  BY DEF Respond, TypeOK
<1>3. InFlight' = InFlight \ {r} /\ r \in InFlight
  BY <1>1 DEF InFlight, OpenPcs, ConnPcs, RunPcs, InsertPcs
<1>4. /\ phase # "down" /\ phase' = phase
      /\ sockets' = sockets \ {r}
  BY <1>3 DEF ProcessFits, Respond
<1>5. IsFiniteSet(InFlight) /\ IsFiniteSet(Limited)
  BY BoundsAssumption, FS_Subset DEF InFlight, Limited
<1>6. Cardinality(InFlight') = Cardinality(InFlight) - 1
  BY <1>3, <1>5, FS_RemoveElement
<1>7. r \notin Limited /\ bootOf[r] = boot
  BY DEF ProcessFits, NoResponse, Limited, OpenPcs, ConnPcs, RunPcs, InsertPcs
<1>8. Cardinality(Limited) \in Nat /\ Cardinality(InFlight) \in Nat
  BY <1>5, FS_CardinalityType
<1>9. activeConnections' = activeConnections - 1 /\ requestsTotal' = requestsTotal
  BY DEF Respond
<1>10. Total(requestsByStatus) \in Nat
  BY TotalType DEF TypeOK
<1>11. /\ activeConnections = Cardinality(InFlight)
       /\ requestsTotal = Total(requestsByStatus) + activeConnections + Cardinality(Limited)
  BY <1>4 DEF ProcessFits
<1>12. requestsTotal' = Total(requestsByStatus)' + activeConnections' + Cardinality(Limited')
  <2>1. CASE status \in Statuses \ {429} /\ RecordMetrics(status)
    <3>1. Limited' = Limited
      BY <1>1, <1>2, <1>7, <2>1 DEF Limited
    <3>2. Total(requestsByStatus') = Total(requestsByStatus) + 1
      <4>1. requestsByStatus \in [Statuses -> Nat] /\ requestsByStatus' \in [Statuses -> Nat]
        BY DEF TypeOK
      <4>2. requestsByStatus' = [requestsByStatus EXCEPT ![status] = @ + 1] /\ status \in Statuses
        BY <2>1 DEF RecordMetrics
      <4>3. PICK g \in [Statuses -> Nat], h \in [Statuses -> Nat] :
               g = requestsByStatus /\ h = requestsByStatus'
        BY <4>1
      <4>4. Total(h) = Total(g) + 1
        <5>1. h = [g EXCEPT ![status] = @ + 1] /\ status \in Statuses
          BY <4>2, <4>3
        <5>2. QED
          BY <5>1, TotalAdds, ZenonT(60)
      <4>5. QED
        BY <4>3, <4>4, Zenon
    <3>3. QED
      BY <1>8, <1>9, <1>10, <1>11, <3>1, <3>2
  <2>2. CASE status = 429 /\ UNCHANGED requestsByStatus
    <3>1. Limited' = Limited \cup {r}
      BY <1>1, <1>2, <1>7, <2>2 DEF Limited
    <3>2. Cardinality(Limited') = Cardinality(Limited) + 1
      BY <1>5, <1>7, <3>1, FS_AddElement
    <3>3. QED
      BY <1>8, <1>9, <1>10, <1>11, <2>2, <3>2
  <2>3. QED
    BY <2>1, <2>2
<1>13. \A p \in Reqs : /\ bootOf'[p] <= boot'
                       /\ pc'[p] # "done" => response'[p] = NoResponse
                       /\ pc'[p] \in OpenPcs => bootOf'[p] = boot'
  <2>1. "done" \notin OpenPcs
    BY DEF OpenPcs, ConnPcs, RunPcs, InsertPcs
  <2>2. QED
    BY <1>1, <2>1 DEF ProcessFits
<1>14. QED
  BY <1>4, <1>6, <1>8, <1>9, <1>11, <1>12, <1>13 DEF ProcessFits

\* Every step keeps ProcessFits.
LEMMA ProcessStep == TypeOK /\ TypeOK' /\ ProcessFits /\ [Next]_vars => ProcessFits'
<1> SUFFICES ASSUME TypeOK, TypeOK', ProcessFits, [Next]_vars PROVE ProcessFits'
  OBVIOUS
<1>1. ASSUME NEW r \in Reqs, NEW q \in Inputs, Receive(r, q) PROVE ProcessFits'
  BY <1>1, ReceiveStep
\* Steps of a request that is served.
<1>2. ASSUME NEW r \in Reqs,
             \/ BodyComplete(r) \/ Dispatch(r) \/ StartEvaluate(r) \/ StartCreateRule(r)
             \/ StartDeleteRule(r) \/ StartRead(r) \/ Acquire(r) \/ EvidenceStored(r)
      PROVE  ProcessFits'
  <2>1. /\ pc[r] \in OpenPcs /\ pc'[r] \in OpenPcs /\ \A p \in Reqs \ {r} : pc'[p] = pc[p]
        /\ UNCHANGED <<requestsTotal, requestsByStatus, activeConnections, sockets, response,
                       bootOf, boot, phase>>
    BY <1>2, SMTT(30) DEF BodyComplete, Dispatch, CountRequest, StartEvaluate, StartCreateRule, StartDeleteRule,
       StartRead, Admitted, Acquire, RunAfter, EvidenceStored, Goto, OpenPcs, ConnPcs, RunPcs, InsertPcs,
       processVars, serverVars, envVars, historyVars, TypeOK
  <2>2. "done" \notin OpenPcs
    BY DEF OpenPcs, ConnPcs, RunPcs, InsertPcs
  <2>3. QED
    BY <2>1, <2>2, OnwardStep
\* Answers that are counted under their status.
<1>3. ASSUME NEW r \in Reqs, NEW status \in Statuses \ {429}, NEW decided, NEW rows,
             pc[r] \in OpenPcs, Finish(r, status, decided, rows), UNCHANGED <<phase, boot, bootOf>>
      PROVE  ProcessFits'
  BY <1>3, AnsweredStep DEF Finish
<1>4. ASSUME NEW r \in Reqs, NEW status \in {400, 401, 403, 404, 200, 500, 503},
             pc[r] \in OpenPcs, Conclude(r, status), UNCHANGED <<phase, boot, bootOf>>
      PROVE  ProcessFits'
  <2>1. status \in Statuses \ {429}
    BY DEF Statuses
  <2>2. QED
    BY <1>3, <1>4, <2>1 DEF Conclude
<1>5. ASSUME NEW r \in Reqs,
             \/ RejectBody(r) \/ NotFound(r) \/ Unauthenticated(r) \/ Forbidden(r)
             \/ HandlerThrows(r) \/ AnswerLocally(r) \/ ConnectFail(r) \/ QueryFail(r)
      PROVE  ProcessFits'
  <2>1. pc[r] \in OpenPcs /\ UNCHANGED <<phase, boot, bootOf>>
    BY <1>5 DEF RejectBody, NotFound, Unauthenticated, Forbidden, HandlerThrows, AnswerLocally, Admitted,
       ConnectFail, QueryFail, OpenPcs, ConnPcs, RunPcs, InsertPcs, processVars, envVars, historyVars
  <2>2. AnswerError(r) \/ \E status \in {400, 401, 403, 404, 200, 500, 503} : Conclude(r, status)
    BY <1>5 DEF RejectBody, NotFound, Unauthenticated, Forbidden, HandlerThrows, AnswerLocally,
       ConnectFail, QueryFail, Fail
  <2>3. CASE AnswerError(r)
    <3>1. Finish(r, 500, "deny", {}) /\ 500 \in Statuses \ {429}
      BY <2>3 DEF AnswerError, Statuses
    <3>2. QED
      BY <1>3, <2>1, <3>1
  <2>4. QED
    BY <1>4, <2>1, <2>2, <2>3
<1>6. ASSUME NEW r \in Reqs, NEW kind, NEW status \in {200, 404}, NEW rows, ReadDone(r, kind, status, rows)
      PROVE  ProcessFits'
  <2>1. pc[r] \in OpenPcs /\ UNCHANGED <<phase, boot, bootOf>> /\ Finish(r, status, None, rows)
    BY <1>6 DEF ReadDone, OpenPcs, RunPcs, envVars, historyVars
  <2>2. status \in Statuses \ {429}
    BY DEF Statuses
  <2>3. QED
    BY <1>3, <2>1, <2>2
<1>7. ASSUME NEW r \in Reqs, EvidenceFound(r) \/ EvidenceNotFound(r) \/ AuditRead(r) \/ Ready(r)
      PROVE  ProcessFits'
  <2>1. CASE EvidenceFound(r)
    BY <1>6, <2>1 DEF EvidenceFound
  <2>2. CASE EvidenceNotFound(r)
    BY <1>6, <2>2 DEF EvidenceNotFound
  <2>3. CASE AuditRead(r)
    BY <1>6, <2>3 DEF AuditRead
  <2>4. CASE Ready(r)
    BY <1>6, <2>4 DEF Ready
  <2>5. QED
    BY <1>7, <2>1, <2>2, <2>3, <2>4
<1>8. ASSUME NEW r \in Reqs, AuditStored(r) PROVE ProcessFits'
  <2>1. /\ pc[r] \in OpenPcs /\ UNCHANGED <<phase, boot, bootOf>>
        /\ Finish(r, SuccessStatus(r), decision[r], {})
    BY <1>8 DEF AuditStored, OpenPcs, RunPcs, InsertPcs, envVars, historyVars
  <2>2. SuccessStatus(r) \in Statuses \ {429}
    BY DEF SuccessStatus, Statuses
  <2>3. QED
    BY <1>3, <2>1, <2>2
<1>9. ASSUME NEW r \in Reqs, LimitRate(r) PROVE ProcessFits'
  <2>1. /\ pc[r] \in OpenPcs /\ UNCHANGED <<phase, boot, bootOf, requestsByStatus>>
        /\ Respond(r, 429, None, {})
    BY <1>9 DEF LimitRate, CountRequest, OpenPcs, envVars, historyVars
  <2>2. QED
    BY <2>1, AnsweredStep
\* Steps of PostgreSQL, of the process, and none.
<1>10. ASSUME \/ \E row \in sql : Commit(row) \/ Reject(row)
              \/ Signal \/ EndPool \/ Tick \/ UNCHANGED vars
              \/ \E r \in Reqs : Disconnect(r)
       PROVE  ProcessFits'
  <2>1. /\ UNCHANGED <<requestsTotal, requestsByStatus, activeConnections, response, bootOf,
                       boot, pc>>
        /\ sockets' \subseteq sockets
        /\ \/ phase' = phase
           \/ phase = "up" /\ phase' = "closing"
           \/ phase = "closing" /\ phase' = "ending" /\ sockets = {}
    BY <1>10 DEF Disconnect, Commit, Reject, Signal, EndPool, Tick, vars, processVars, serverVars, requestVars,
       envVars, historyVars
  <2>2. QED
    BY <2>1, OnwardStep
<1>11. CASE Exit \/ Crash
  <2>1. LoseMemory
    BY <1>11 DEF Exit, Crash
  <2>2. InFlight' = {} /\ \A p \in Reqs : pc'[p] \notin OpenPcs /\ (pc'[p] = "done" <=> pc[p] = "done")
    BY <2>1 DEF LoseMemory, InFlight, OpenPcs, ConnPcs, RunPcs, InsertPcs
  <2>3. QED
    BY <2>1, <2>2 DEF LoseMemory, ProcessFits, envVars, historyVars
<1>12. CASE Restart
  <2>1. /\ phase = "down" /\ phase' = "up" /\ boot' = boot + 1 /\ boot \in Nat
        /\ UNCHANGED <<serverVars, pc, response, bootOf>>
    BY <1>12 DEF Restart, requestVars, historyVars, TypeOK
  <2>2. InFlight' = {} /\ InFlight = {} /\ \A p \in Reqs : pc[p] \notin OpenPcs
    BY <2>1 DEF ProcessFits, InFlight
  <2>3. Limited' = {}
    BY <2>1 DEF Limited, ProcessFits, TypeOK
  <2>4. Cardinality({}) = 0
    BY FS_EmptySet
  <2>5. \A p \in Reqs : bootOf[p] <= boot + 1
    BY <2>1 DEF ProcessFits, TypeOK
  <2>6. /\ activeConnections = 0 /\ requestsTotal = 0 /\ Total(requestsByStatus) = 0
    BY <2>1, NothingCounted DEF ProcessFits
  <2>7. QED
    BY <2>1, <2>2, <2>3, <2>4, <2>5, <2>6 DEF ProcessFits, serverVars
<1>13. QED
  BY NextCases, <1>1, <1>2, <1>5, <1>7, <1>8, <1>9, <1>10, <1>11, <1>12

\* The first process has no requests.
LEMMA ProcessInit == Init => ProcessFits
<1> SUFFICES ASSUME Init PROVE ProcessFits
  OBVIOUS
<1>1. InFlight = {} /\ Limited = {}
  BY DEF Init, InFlight, Limited, OpenPcs, ConnPcs, RunPcs, InsertPcs, NoResponse
<1>2. Cardinality({}) = 0
  BY FS_EmptySet
<1>3. Total(requestsByStatus) = 0
  BY NothingCounted DEF Init
<1>4. QED
  BY <1>1, <1>2, <1>3 DEF Init, ProcessFits, OpenPcs, ConnPcs, RunPcs, InsertPcs

(***************************************************************************)
(* The metrics of the process (handleRequest, recordMetrics) add up at     *)
(* every moment: the active connections are the requests being served, and *)
(* every request since the start is active, counted under one status, or   *)
(* was refused by the rate limiter.                                        *)
(***************************************************************************)
THEOREM MetricsAlwaysBalanced == Spec => []MetricsBalanced
<1>1. ProcessFits => MetricsBalanced
  BY DEF ProcessFits, MetricsBalanced, Limited, Total
<1>2. QED
  BY <1>1, ProcessInit, ProcessStep, TypeCorrect, PTL DEF Spec

(***************************************************************************)
(* Graceful shutdown of api-index.ts: a request that the exit of the       *)
(* process cuts off had lost its client before, since the pool is ended    *)
(* only after the last socket; and it has no statement in flight, since    *)
(* who waits for a reply holds a connection that the pool waits for.       *)
(***************************************************************************)
THEOREM ShutdownSparesRequests == Spec => ShutdownCutsNobodyOff
<1> DEFINE Spared == \A r \in InFlight : r \notin sockets /\ \A row \in sql : row.by # r
<1>1. ProcessFits /\ IndInv /\ [Next]_vars => [Exit => Spared]_vars
  <2> SUFFICES ASSUME ProcessFits, IndInv, Exit, NEW r \in InFlight
               PROVE  r \notin sockets /\ \A row \in sql : row.by # r
    OBVIOUS
  <2>1. sockets = {} /\ busy = {}
    BY DEF Exit, ProcessFits
  <2>2. r \in Reqs /\ pc[r] \in OpenPcs /\ pc[r] \notin RunPcs
    BY <2>1 DEF InFlight, IndInv, PoolBalanced
  <2>3. pc[r] \notin InsertPcs \cup Ended
    BY <2>2 DEF OpenPcs, ConnPcs, RunPcs, InsertPcs, Ended
  <2>4. QED
    BY <2>1, <2>3, NothingSent
<1>2. QED
  BY <1>1, ProcessInit, ProcessStep, TypeCorrect, IndInvHolds, PTL DEF Spec, ShutdownCutsNobodyOff

-------------------------------------------------------------------------------
(* What is read after it was answered.                                     *)

\* ReadYourWrites, of what request g has read.
ReadFits(g) ==
    \A e \in before[g] :
        Answered(g) /\ response[g].status \in {200, 404} =>
            /\ (/\ Decided(e)
                /\ request[g].kind = "getEvidence" /\ request[g].id = request[e].id)
                   => /\ response[g].status = 200
                      /\ \A row \in response[g].rows : row.stamp >= stamp[e].evidence
            /\ (/\ Decided(e) \/ Confirmed(e)
                /\ request[g].kind = "adminAudit" /\ request[g].query.offset = 0
                /\ Selects(request[g].query, AuditRow(e)))
                   => \/ AuditRow(e) \in response[g].rows
                      \/ UsedUp(request[g].query, response[g].rows, AuditRow(e))

\* Whoever was answered before a request arrived stays answered; decisions are of the past.
ReadsFit ==
    /\ \A g \in Reqs : \A e \in before[g] : Answered(e)
    /\ \A r \in Reqs : stamp[r].evidence <= now
    /\ \A g \in Reqs : ReadFits(g)

\* An answer stands: nothing of an answered request changes.
Stands(p) == pc'[p] = "done" /\ Same(p) /\ response'[p] = response[p]

\* What an answered request has read stays right.
LEMMA ReadKept ==
    ASSUME TypeOK, NEW g \in Reqs, ReadFits(g), before'[g] = before[g], Answered(g), Stands(g),
           \A e \in before[g] : Answered(e) /\ Stands(e)
    PROVE  ReadFits(g)'
<1>1. \A e \in before[g] : e \in Reqs
  BY DEF TypeOK
<1>2. \A e \in before[g] : AuditRow(e)' = AuditRow(e)
  BY <1>1, SameRows DEF Stands
<1>3. \A e \in before[g] : /\ request'[e] = request[e] /\ stamp'[e] = stamp[e]
                           /\ (Decided(e)' <=> Decided(e)) /\ (Confirmed(e)' <=> Confirmed(e))
  BY <1>1 DEF Stands, Same, Decided, Confirmed, Answered
<1>4. request'[g] = request[g] /\ response'[g] = response[g] /\ Answered(g)' /\ pc'[g] = "done"
  BY DEF Stands, Same, Answered
<1>5. QED
  BY <1>2, <1>3, <1>4 DEF ReadFits

\* It is enough to look at the request that a step answers.
LEMMA ReadsKept ==
    ASSUME TypeOK, ReadsFit, UNCHANGED before, \A p \in Reqs : Answered(p) => Stands(p),
           \A p \in Reqs : ~ Answered(p) /\ Answered(p)' => ReadFits(p)',
           \A p \in Reqs : stamp'[p].evidence <= now'
    PROVE  ReadsFit'
<1>1. \A g \in Reqs : \A e \in before[g] : e \in Reqs
  BY DEF TypeOK
<1>2. \A g \in Reqs : \A e \in before'[g] : Answered(e)'
  BY <1>1 DEF ReadsFit, Stands, Answered
<1>3. ASSUME NEW g \in Reqs PROVE ReadFits(g)'
  <2>1. CASE ~ Answered(g)'
    BY <2>1 DEF ReadFits
  <2>2. CASE Answered(g)
    BY <1>1, <2>2, ReadKept DEF ReadsFit
  <2>3. QED
    BY <2>1, <2>2
<1>4. QED
  BY <1>2, <1>3 DEF ReadsFit

\* Answers that say nothing of evidence or of audit events.
LEMMA NoReadStep ==
    ASSUME TypeOK, TypeOK', ReadsFit, NEW r \in Reqs, NEW status, NEW decided, NEW rows,
           pc[r] # "done", Respond(r, status, decided, rows),
           UNCHANGED <<request, decision, stamp, before, now>>,
           status \in {200, 404} => request[r].kind \notin {"getEvidence", "adminAudit"}
    PROVE  ReadsFit'
<1>1. /\ \A p \in Reqs \ {r} : pc'[p] = pc[p] /\ response'[p] = response[p]
      /\ response'[r].status = status
  BY DEF Respond, Goto, TypeOK
<1>2. \A p \in Reqs : Answered(p) => Stands(p)
  BY <1>1 DEF Answered, Stands, Same
<1>3. ReadFits(r)'
  BY <1>1 DEF ReadFits
<1>4. QED
  BY <1>1, <1>2, <1>3, ReadsKept DEF ReadsFit, Answered

\* A row of the evidence table is that of a request, as it stands; its time has passed.
LEMMA EvidenceIs ==
    ASSUME TypeOK, IndInv, ReadsFit, NEW row \in EvidenceRows
    PROVE  row.by \in Reqs /\ row = EvidenceRow(row.by) /\ row.stamp \in Nat /\ row.stamp <= now
<1>1. RowFits(row) /\ row.table = "evidence_records"
  BY DEF IndInv, EvidenceRows
<1>2. row.by \in Reqs /\ row = EvidenceRow(row.by)
  BY <1>1 DEF RowFits, AuditRow
<1>3. row.stamp = stamp[row.by].evidence
  BY <1>2 DEF EvidenceRow
<1>4. QED
  BY <1>2, <1>3 DEF ReadsFit, TypeOK

\* If there is evidence of an id, there is a latest one.
LEMMA LatestExists ==
    ASSUME TypeOK, IndInv, ReadsFit, NEW id, NEW row \in EvidenceRows, row.id = id
    PROVE  LatestEvidence(id) # {}
<1> DEFINE T == { now - x.stamp : x \in { y \in EvidenceRows : y.id = id } }
<1>1. now \in Nat /\ \A x \in EvidenceRows : x.stamp \in Nat /\ x.stamp <= now
  BY EvidenceIs DEF TypeOK
<1>2. T \subseteq Nat
  BY <1>1
<1>3. T # {}
  OBVIOUS
<1>4. PICK t \in T : \A u \in T : t <= u
  <2> HIDE DEF T
  <2>1. QED
    BY <1>2, <1>3, Least
<1>5. PICK x \in EvidenceRows : x.id = id /\ t = now - x.stamp
  BY <1>4
<1>6. ASSUME NEW y \in EvidenceRows, y.id = id PROVE y.stamp <= x.stamp
  <2>1. now - y.stamp \in T
    BY <1>6
  <2>2. t <= now - y.stamp
    <3> HIDE DEF T
    <3>1. QED
      BY <1>4, <2>1
  <2>3. QED
    BY <1>1, <1>5, <2>2
<1>7. QED
  BY <1>5, <1>6 DEF LatestEvidence

\* Reading evidence: the latest one is no older than what was decided before.
LEMMA ReadEvidenceStep ==
    ASSUME TypeOK, TypeOK', IndInv, ReadsFit, NEW r \in Reqs, EvidenceFound(r) \/ EvidenceNotFound(r)
    PROVE  ReadsFit'
<1>1. /\ pc[r] = "runRead" /\ pc'[r] = "done" /\ request[r].kind = "getEvidence"
      /\ \A p \in Reqs \ {r} : pc'[p] = pc[p] /\ response'[p] = response[p]
      /\ UNCHANGED <<request, decision, stamp, before, now, db>>
      /\ response'[r].status \in {200, 404}
  BY DEF EvidenceFound, EvidenceNotFound, ReadDone, Finish, Respond, Goto, TypeOK, envVars, historyVars
<1>2. \A p \in Reqs : Answered(p) => Stands(p)
  BY <1>1 DEF Answered, Stands, Same
<1>3. ASSUME NEW e \in before[r], Decided(e), request[e].id = request[r].id
      PROVE  /\ response'[r].status = 200
             /\ \A row \in response'[r].rows : row.stamp >= stamp[e].evidence
  <2>1. e \in Reqs /\ EvidenceRow(e) \in db /\ stamp[e].evidence \in Nat
    BY <1>3 DEF IndInv, EvaluationRecorded, TypeOK, Decided
  <2>2. /\ EvidenceRow(e) \in EvidenceRows
        /\ EvidenceRow(e).id = request[r].id /\ EvidenceRow(e).stamp = stamp[e].evidence
    BY <1>3, <2>1 DEF EvidenceRow, EvidenceRows
  <2>3. LatestEvidence(request[r].id) # {}
    BY <2>2, LatestExists
  <2>4. PICK row \in LatestEvidence(request[r].id) : ReadDone(r, "getEvidence", 200, {row})
    BY <2>3 DEF EvidenceFound, EvidenceNotFound
  <2>5. response'[r].status = 200 /\ response'[r].rows = {row}
    BY <2>4 DEF ReadDone, Finish, Respond, TypeOK
  <2>6. row \in EvidenceRows /\ EvidenceRow(e).stamp <= row.stamp
    BY <2>2 DEF LatestEvidence
  <2>7. row.stamp \in Nat
    BY <2>6, EvidenceIs
  <2>8. QED
    BY <2>1, <2>2, <2>5, <2>6, <2>7
<1>4. \A e \in before[r] : Answered(e) /\ e # r /\ (Decided(e)' <=> Decided(e))
  BY <1>1 DEF ReadsFit, Answered, Decided, TypeOK
<1>5. ReadFits(r)'
  BY <1>1, <1>3, <1>4 DEF ReadFits
<1>6. QED
  BY <1>1, <1>2, <1>5, ReadsKept DEF ReadsFit, Answered

\* Reading the audit log: what was confirmed before is in it, or the page is used up.
LEMMA ReadAuditStep ==
    ASSUME TypeOK, TypeOK', IndInv, ReadsFit, NEW r \in Reqs, AuditRead(r)
    PROVE  ReadsFit'
<1>1. /\ pc[r] = "runRead" /\ pc'[r] = "done" /\ request[r].kind = "adminAudit"
      /\ \A p \in Reqs \ {r} : pc'[p] = pc[p] /\ response'[p] = response[p]
      /\ UNCHANGED <<request, decision, stamp, before, now, db>>
  BY DEF AuditRead, ReadDone, Finish, Respond, Goto, TypeOK, envVars, historyVars
<1>2. \A p \in Reqs : Answered(p) => Stands(p)
  BY <1>1 DEF Answered, Stands, Same
<1>3. ASSUME NEW e \in before[r], Decided(e) \/ Confirmed(e), request[r].query.offset = 0,
             Selects(request[r].query, AuditRow(e))
      PROVE  \/ AuditRow(e) \in response'[r].rows
             \/ UsedUp(request[r].query, response'[r].rows, AuditRow(e))
  <2>1. e \in Reqs /\ AuditRow(e) \in db
    BY <1>3 DEF IndInv, EvaluationRecorded, ConfirmedChangeAudited, TypeOK, Decided
  <2>2. AuditRow(e) \in Selected(request[r].query)
    BY <1>3, <2>1 DEF AuditRow, AuditRows, Selected
  <2>3. PICK skipped \in Skipped(request[r].query) :
           \E page \in Pages(request[r].query, Selected(request[r].query) \ skipped) :
              ReadDone(r, "adminAudit", 200, page)
    BY DEF AuditRead
  <2>4. PICK page \in Pages(request[r].query, Selected(request[r].query) \ skipped) :
           ReadDone(r, "adminAudit", 200, page)
    BY <2>3
  <2>5. response'[r].rows = page
    BY <2>4 DEF ReadDone, Finish, Respond, TypeOK
  <2>6. \A row \in Selected(request[r].query) \ page :
           /\ request[r].query.limit # 0 /\ Cardinality(page) = request[r].query.limit
           /\ \A other \in page : other.stamp >= row.stamp
    BY <1>3, PageIs
  <2>7. request[r].query.limit \in Nat
    <3>1. request[r] \in Inputs
      BY <1>1 DEF TypeOK
    <3>2. request[r].query \in AuditQueries
      BY <1>1, <3>1, InputsAssumption
    <3>3. QED
      BY <3>2 DEF AuditQueries
  <2>8. CASE AuditRow(e) \notin page
    BY <2>2, <2>5, <2>6, <2>7, <2>8 DEF UsedUp
  <2>9. QED
    BY <2>5, <2>8
<1>4. \A e \in before[r] : /\ Answered(e) /\ e # r /\ e \in Reqs
                           /\ (Decided(e)' <=> Decided(e)) /\ (Confirmed(e)' <=> Confirmed(e))
  BY <1>1 DEF ReadsFit, Answered, Decided, Confirmed, TypeOK
<1>5. \A e \in before[r] : AuditRow(e)' = AuditRow(e)
  BY <1>1 DEF AuditRow
<1>6. ReadFits(r)'
  BY <1>1, <1>3, <1>4, <1>5 DEF ReadFits
<1>7. QED
  BY <1>1, <1>2, <1>6, ReadsKept DEF ReadsFit, Answered

\* Every step keeps ReadsFit.
LEMMA ReadsStep == TypeOK /\ TypeOK' /\ IndInv /\ ReadsFit /\ [Next]_vars => ReadsFit'
<1> SUFFICES ASSUME TypeOK, TypeOK', IndInv, ReadsFit, [Next]_vars PROVE ReadsFit'
  OBVIOUS
<1>1. ASSUME NEW r \in Reqs, NEW q \in Inputs, Receive(r, q) PROVE ReadsFit'
  <2>1. /\ pc[r] = "idle" /\ pc'[r] # "done" /\ \A p \in Reqs \ {r} : Kept(p) /\ before'[p] = before[p]
        /\ before'[r] = { p \in Reqs : pc[p] = "done" } /\ UNCHANGED <<stamp, now>>
    BY <1>1 DEF Receive, Goto, TypeOK, Kept, Same, envVars
  <2>2. \A p \in Reqs : Answered(p) => Stands(p)
    BY <2>1 DEF Answered, Stands, Kept
  <2>3. \A g \in Reqs : \A e \in before[g] : e \in Reqs
    BY DEF TypeOK
  <2>4. \A g \in Reqs : \A e \in before'[g] : Answered(e)'
    BY <2>1, <2>2, <2>3 DEF ReadsFit, Stands, Answered
  <2>5. ASSUME NEW g \in Reqs PROVE ReadFits(g)'
    <3>1. CASE ~ Answered(g)'
      BY <3>1 DEF ReadFits
    <3>2. CASE Answered(g)'
      <4>1. g # r /\ Answered(g)
        BY <2>1, <3>2 DEF Answered, Kept
      <4>2. \A e \in before[g] : Answered(e) /\ Stands(e)
        BY <2>2, <2>3 DEF ReadsFit
      <4>3. QED
        BY <2>1, <2>2, <4>1, <4>2, ReadKept DEF ReadsFit
    <3>3. QED
      BY <3>1, <3>2
  <2>6. QED
    BY <2>1, <2>4, <2>5 DEF ReadsFit
\* Steps of a request that is served, of PostgreSQL, of the process, and none.
<1>2. ASSUME \/ \E r \in Reqs :
                   \/ BodyComplete(r) \/ Dispatch(r) \/ StartEvaluate(r) \/ StartCreateRule(r)
                   \/ StartDeleteRule(r) \/ StartRead(r) \/ Acquire(r) \/ EvidenceStored(r)
             \/ \E row \in sql : Commit(row) \/ Reject(row)
             \/ Signal \/ EndPool \/ Exit \/ Crash \/ Restart \/ Tick \/ UNCHANGED vars
             \/ \E r \in Reqs : Disconnect(r)
      PROVE  ReadsFit'
  <2>1. ASSUME NEW r \in Reqs,
               \/ BodyComplete(r) \/ Dispatch(r) \/ StartEvaluate(r) \/ StartCreateRule(r)
               \/ StartDeleteRule(r) \/ StartRead(r) \/ Acquire(r) \/ EvidenceStored(r)
        PROVE  ReadsFit'
    <3>1. pc[r] # "done" /\ pc'[r] # "done" /\ \A p \in Reqs \ {r} : pc'[p] = pc[p]
      BY <2>1, SMTT(30) DEF BodyComplete, Dispatch, CountRequest, StartEvaluate, StartCreateRule, StartDeleteRule,
         StartRead, Admitted, Acquire, RunAfter, EvidenceStored, Goto, ConnPcs, RunPcs, InsertPcs,
         processVars, envVars, historyVars, TypeOK
    <3>2. UNCHANGED <<request, response, before, now>>
      BY <2>1 DEF BodyComplete, Dispatch, CountRequest, StartEvaluate, StartCreateRule, StartDeleteRule,
         StartRead, Admitted, Acquire, RunAfter, EvidenceStored, Goto, ConnPcs, RunPcs, InsertPcs,
         processVars, envVars, historyVars, TypeOK
    <3>3. /\ \A p \in Reqs \ {r} : decision'[p] = decision[p] /\ stamp'[p] = stamp[p]
          /\ stamp'[r].evidence \in {stamp[r].evidence, now}
      <4>1. CASE UNCHANGED <<decision, stamp>>
        BY <4>1
      <4>2. CASE StartEvaluate(r)
        BY <4>2 DEF StartEvaluate, TypeOK
      <4>3. CASE StartCreateRule(r) \/ StartDeleteRule(r) \/ EvidenceStored(r)
        <5>1. stamp' = [stamp EXCEPT ![r].audit = now] /\ decision' = decision
          BY <4>3 DEF StartCreateRule, StartDeleteRule, EvidenceStored
        <5>2. QED
          BY <5>1 DEF TypeOK
      <4>4. CASE BodyComplete(r) \/ Dispatch(r) \/ StartRead(r) \/ Acquire(r)
        BY <4>1, <4>4 DEF BodyComplete, Dispatch, StartRead, Acquire
      <4>5. QED
        BY <2>1, <4>2, <4>3, <4>4
    <3>4. \A p \in Reqs : Answered(p) <=> Answered(p)'
      BY <3>1 DEF Answered
    <3>5. \A p \in Reqs : Answered(p) => Stands(p)
      BY <3>1, <3>2, <3>3 DEF Answered, Stands, Same
    <3>6. \A p \in Reqs : stamp'[p].evidence <= now'
      <4>1. now \in Nat /\ \A p \in Reqs : stamp[p].evidence <= now
        BY DEF ReadsFit, TypeOK
      <4>2. \A p \in Reqs : stamp'[p].evidence \in {stamp[p].evidence, now}
        BY <3>3
      <4>3. QED
        BY <3>2, <4>1, <4>2
    <3>7. QED
      BY <3>2, <3>4, <3>5, <3>6, ReadsKept
  <2>2. CASE \/ \E row \in sql : Commit(row) \/ Reject(row)
             \/ Signal \/ EndPool \/ Restart \/ Tick \/ UNCHANGED vars
             \/ \E r \in Reqs : Disconnect(r)
    <3>1. UNCHANGED <<pc, request, response, decision, stamp, before>>
      BY <2>2 DEF Disconnect, Commit, Reject, Signal, EndPool, Restart, Tick, vars, requestVars, envVars, historyVars
    <3>2. now' \in Nat /\ now \in Nat /\ now' >= now
      BY <2>2 DEF Disconnect, Commit, Reject, Signal, EndPool, Restart, Tick, vars, envVars, TypeOK
    <3>3. \A p \in Reqs : (Answered(p) <=> Answered(p)') /\ (Answered(p) => Stands(p))
      BY <3>1 DEF Answered, Stands, Same
    <3>4. \A p \in Reqs : stamp'[p].evidence <= now'
      BY <3>1, <3>2 DEF ReadsFit, TypeOK
    <3>5. QED
      BY <3>1, <3>3, <3>4, ReadsKept
  <2>3. CASE Exit \/ Crash
    <3>1. /\ UNCHANGED <<request, response, decision, stamp, before, now>>
          /\ \A p \in Reqs : pc'[p] = IF p \in InFlight THEN "lost" ELSE pc[p]
      BY <2>3 DEF Exit, Crash, LoseMemory, envVars, historyVars, TypeOK
    <3>2. \A p \in InFlight : pc[p] # "done"
      BY DEF InFlight, OpenPcs, ConnPcs, RunPcs, InsertPcs
    <3>3. \A p \in Reqs : Answered(p) <=> Answered(p)'
      BY <3>1, <3>2 DEF Answered
    <3>4. \A p \in Reqs : Answered(p) => Stands(p)
      BY <3>1, <3>2 DEF Answered, Stands, Same
    <3>5. \A p \in Reqs : stamp'[p].evidence <= now'
      BY <3>1 DEF ReadsFit
    <3>6. QED
      BY <3>1, <3>3, <3>4, <3>5, ReadsKept
  <2>4. QED
    BY <1>2, <2>1, <2>2, <2>3
<1>3. ASSUME NEW r \in Reqs,
             \/ RejectBody(r) \/ NotFound(r) \/ LimitRate(r) \/ Unauthenticated(r) \/ Forbidden(r)
             \/ HandlerThrows(r) \/ AnswerLocally(r) \/ ConnectFail(r) \/ QueryFail(r) \/ Ready(r)
      PROVE  ReadsFit'
  <2>1. pc[r] # "done" /\ UNCHANGED <<request, decision, stamp, before, now>>
    BY <1>3 DEF RejectBody, NotFound, LimitRate, CountRequest, Unauthenticated, Forbidden, HandlerThrows,
       AnswerLocally, Admitted, ConnectFail, QueryFail, Ready, ReadDone, ConnPcs, RunPcs, InsertPcs,
       envVars, historyVars
  <2>2. \E status \in Statuses, decided \in Decisions \cup {None} :
           /\ Respond(r, status, decided, {})
           /\ status \in {200, 404} => request[r].kind \notin {"getEvidence", "adminAudit"}
    <3> USE DEF Conclude, Finish, Statuses, Decisions
    <3>1. CASE RejectBody(r) \/ NotFound(r) \/ LimitRate(r) \/ Unauthenticated(r) \/ Forbidden(r)
      BY <3>1 DEF RejectBody, NotFound, LimitRate, Unauthenticated, Forbidden
    <3>2. CASE AnswerLocally(r) \/ Ready(r)
      BY <3>2 DEF AnswerLocally, LocalKinds, Admitted, Ready, ReadDone
    <3>3. CASE HandlerThrows(r) \/ ConnectFail(r) \/ QueryFail(r)
      <4>1. AnswerError(r) \/ Conclude(r, 503)
        BY <3>3 DEF HandlerThrows, ConnectFail, QueryFail, Fail
      <4>2. QED
        BY <4>1 DEF AnswerError
    <3>4. QED
      BY <1>3, <3>1, <3>2, <3>3
  <2>3. QED
    BY <2>1, <2>2, NoReadStep
<1>4. ASSUME NEW r \in Reqs, AuditStored(r) PROVE ReadsFit'
  <2>1. /\ pc[r] = "runAudit" /\ UNCHANGED <<request, decision, stamp, before, now>>
        /\ Respond(r, SuccessStatus(r), decision[r], {})
    BY <1>4 DEF AuditStored, Finish, envVars, historyVars
  <2>2. request[r].kind \notin {"getEvidence", "adminAudit"}
    BY <2>1 DEF IndInv, PlaceFits
  <2>3. QED
    BY <2>1, <2>2, NoReadStep
<1>5. QED
  BY NextCases, ReadEvidenceStep, ReadAuditStep, <1>1, <1>2, <1>3, <1>4

(***************************************************************************)
(* Who asks after an answer sees what was answered: getEvidence finds the  *)
(* evidence of a decision that was told before, no older than that         *)
(* decision, and the first page of an audit query whose filters let the    *)
(* event of a decision or of a confirmed change through contains it, or is *)
(* full of events that are at least as new, whatever the length of the     *)
(* log.                                                                    *)
(***************************************************************************)
THEOREM WritesAreRead == Spec => []ReadYourWrites
<1>1. Init => ReadsFit
  BY DEF Init, ReadsFit, ReadFits, Answered
<1>2. ReadsFit => ReadYourWrites
  BY DEF ReadsFit, ReadFits, ReadYourWrites
<1>3. QED
  BY <1>1, <1>2, ReadsStep, TypeCorrect, IndInvHolds, PTL DEF Spec
-------------------------------------------------------------------------------
(* Rules in force.                                                         *)

\* The rule is in the list, and no other rule has its id.
InForce(list, rule) ==
    /\ \E i \in DOMAIN list : list[i] = rule
    /\ \A i \in DOMAIN list : list[i].id = rule.id => list[i] = rule

\* The rules there are: those of the code, and those that requests may carry.
RuleSet == { DefaultRules[i] : i \in DOMAIN DefaultRules } \cup { q.rule : q \in Inputs }

\* The rules that buildEngine() and the requests so far have put into an engine.
KnownRules == { DefaultRules[i] : i \in DOMAIN DefaultRules }
              \cup { request[r].rule : r \in { r \in Reqs :
                         pc[r] # "idle" /\ request[r].kind = "createRule" } }

\* Request c has put its rule into the engine of the process that runs.
Placed(c) ==
    /\ pc[c] \in {"connAudit", "runAudit"} \/ Confirmed(c)
    /\ request[c].kind = "createRule" /\ bootOf[c] = boot

\* DenyRuleInForce, of what was decided for e.
DecisionFits(e) ==
    decision[e] # None =>
        \A c \in before[e] :
            (/\ Confirmed(c) /\ request[c].kind = "createRule"
             /\ bootOf[c] = bootOf[e]
             /\ Unrivalled(c)
             /\ EvaluateRule(request[c].rule, request[e].ctx) = "true")
                => decision[e] = "deny"

(***************************************************************************)
(* The engine holds rules of the code and of requests only, and each rule  *)
(* that was created in this process and that nothing rivals.               *)
(***************************************************************************)
RulesFit ==
    /\ \A r \in Reqs : pc[r] = "idle" => request[r] = None
    /\ rules \in Seq(RuleSet)
    /\ \A i \in DOMAIN rules : rules[i] \in KnownRules
    /\ phase # "down" => \A c \in Reqs : Placed(c) /\ Unrivalled(c) => InForce(rules, request[c].rule)
    /\ \A e \in Reqs : DecisionFits(e)

\* Adding a rule puts it in force and moves no other rule (engine.rules is a Map).
LEMMA AddRuleIs ==
    ASSUME NEW S, NEW list \in Seq(S), NEW rule \in S
    PROVE  /\ AddRule(list, rule) \in Seq(S)
           /\ \A i \in DOMAIN AddRule(list, rule) :
                 AddRule(list, rule)[i] = rule \/ \E j \in DOMAIN list : AddRule(list, rule)[i] = list[j]
           /\ InForce(AddRule(list, rule), rule)
           /\ \A other : other.id # rule.id /\ InForce(list, other) => InForce(AddRule(list, rule), other)
<1>1. CASE \E i \in DOMAIN list : list[i].id = rule.id
  <2>1. PICK new : new = [i \in DOMAIN list |-> IF list[i].id = rule.id THEN rule ELSE list[i]]
    OBVIOUS
  <2>2. AddRule(list, rule) = new
    BY <1>1, <2>1 DEF AddRule
  <2>3. new \in Seq(S)
    BY <2>1
  <2>4. \A i \in DOMAIN new : i \in DOMAIN list /\ new[i] = (IF list[i].id = rule.id THEN rule ELSE list[i])
    BY <2>1
  <2>5. InForce(new, rule)
    BY <1>1, <2>1 DEF InForce
  <2>6. ASSUME NEW other, other.id # rule.id, InForce(list, other) PROVE InForce(new, other)
    BY <2>1, <2>6 DEF InForce
  <2>7. QED
    BY <2>2, <2>3, <2>4, <2>5, <2>6
<1>2. CASE ~ \E i \in DOMAIN list : list[i].id = rule.id
  <2>1. PICK new : new = Append(list, rule)
    OBVIOUS
  <2>2. AddRule(list, rule) = new
    BY <1>2, <2>1 DEF AddRule
  <2>3. new \in Seq(S)
    BY <2>1
  <2>4. /\ DOMAIN new = DOMAIN list \cup {Len(list) + 1}
        /\ new[Len(list) + 1] = rule /\ \A i \in DOMAIN list : new[i] = list[i]
    BY <2>1
  <2>5. InForce(new, rule)
    BY <1>2, <2>4 DEF InForce
  <2>6. ASSUME NEW other, other.id # rule.id, InForce(list, other) PROVE InForce(new, other)
    BY <2>4, <2>6 DEF InForce
  <2>7. QED
    BY <2>2, <2>3, <2>4, <2>5, <2>6
<1>3. QED
  BY <1>1, <1>2

\* Removing a rule adds none, and only rules of that id are no longer in force.
LEMMA RemoveRuleIs ==
    ASSUME NEW S, NEW list \in Seq(S), NEW id
    PROVE  /\ RemoveRule(list, id) \in Seq(S)
           /\ \A i \in DOMAIN RemoveRule(list, id) : \E j \in DOMAIN list : RemoveRule(list, id)[i] = list[j]
           /\ \A other : other.id # id /\ InForce(list, other) => InForce(RemoveRule(list, id), other)
<1>1. CASE \E i \in DOMAIN list : list[i].id = id
  <2>1. PICK place : place = CHOOSE i \in DOMAIN list : list[i].id = id
    OBVIOUS
  <2>2. place \in DOMAIN list /\ list[place].id = id /\ place \in 1 .. Len(list) /\ Len(list) \in Nat
    BY <1>1, <2>1
  <2>3. PICK new : new = SubSeq(list, 1, place - 1) \o SubSeq(list, place + 1, Len(list))
    OBVIOUS
  <2>4. RemoveRule(list, id) = new
    BY <1>1, <2>1, <2>3 DEF RemoveRule
  <2>5. PICK left, right : left = SubSeq(list, 1, place - 1) /\ right = SubSeq(list, place + 1, Len(list))
    OBVIOUS
  <2>6. /\ left \in Seq(S) /\ Len(left) = place - 1
        /\ \A i \in 1 .. place - 1 : left[i] = list[i]
    BY <2>2, <2>5
  <2>7. /\ right \in Seq(S) /\ Len(right) = Len(list) - place
        /\ \A i \in 1 .. Len(list) - place : right[i] = list[place + i]
    BY <2>2, <2>5
  <2>8. /\ new \in Seq(S) /\ Len(new) = Len(list) - 1
        /\ \A i \in 1 .. Len(list) - 1 : new[i] = IF i < place THEN list[i] ELSE list[i + 1]
    <3>1. new = left \o right
      BY <2>3, <2>5
    <3>2. QED
      BY <2>2, <2>6, <2>7, <3>1
  <2>9. \A i \in DOMAIN new : \E j \in DOMAIN list : new[i] = list[j]
    BY <2>2, <2>8
  <2>10. \A j \in DOMAIN list : j # place => \E i \in DOMAIN new : new[i] = list[j]
    <3>1. ASSUME NEW j \in DOMAIN list, j < place PROVE j \in DOMAIN new /\ new[j] = list[j]
      BY <2>2, <2>8, <3>1
    <3>2. ASSUME NEW j \in DOMAIN list, j > place PROVE j - 1 \in DOMAIN new /\ new[j - 1] = list[j]
      BY <2>2, <2>8, <3>2
    <3>3. QED
      BY <2>2, <3>1, <3>2
  <2>11. ASSUME NEW other, other.id # id, InForce(list, other) PROVE InForce(new, other)
    BY <2>2, <2>9, <2>10, <2>11 DEF InForce
  <2>12. QED
    BY <2>4, <2>8, <2>9, <2>11
<1>2. CASE ~ \E i \in DOMAIN list : list[i].id = id
  BY <1>2 DEF RemoveRule
<1>3. QED
  BY <1>1, <1>2

\* A deny rule that holds, that nothing overrides and nothing is above, decides.
LEMMA DenyDecides ==
    ASSUME NEW S, NEW list \in Seq(S), NEW rule, NEW ctx, InForce(list, rule),
           rule.action = "deny", rule.enabled, EvaluateRule(rule, ctx) = "true",
           rule.priority \in Int,
           \A i \in DOMAIN list : \/ list[i] = rule
                                  \/ list[i].priority \in Int /\ list[i].priority < rule.priority,
           \A i \in DOMAIN list : rule.id \notin list[i].overrides
    PROVE  Evaluate(list, <<>>, ctx) = "deny"
<1>1. list \o <<>> = list
  OBVIOUS
<1>2. PICK applicable : applicable = ApplyOverrides(list, GetApplicableRules(list, <<>>, ctx))
  OBVIOUS
<1>3. PICK matched : matched = { i \in applicable : EvaluateRule(list[i], ctx) = "true" }
  OBVIOUS
<1>4. applicable \subseteq DOMAIN list
  BY <1>1, <1>2 DEF ApplyOverrides, GetApplicableRules
<1>5. MatchSector(rule, ctx)
  BY DEF EvaluateRule
<1>6. \E i \in matched : list[i] = rule
  <2>1. PICK i \in DOMAIN list : list[i] = rule
    BY DEF InForce
  <2>2. i \in GetApplicableRules(list, <<>>, ctx)
    BY <1>1, <1>5, <2>1 DEF GetApplicableRules
  <2>3. GetApplicableRules(list, <<>>, ctx) \subseteq DOMAIN list
    BY <1>1 DEF GetApplicableRules
  <2>4. i \in applicable
    BY <1>2, <2>1, <2>2, <2>3 DEF ApplyOverrides
  <2>5. QED
    BY <1>3, <2>1, <2>4
<1>7. PICK first \in matched : /\ list[first] = rule
                               /\ \A i \in matched : list[i] = rule => first <= i
  <2>1. PICK T : T = { i \in matched : list[i] = rule }
    OBVIOUS
  <2>2. T \subseteq Nat /\ T # {}
    BY <1>3, <1>4, <1>6, <2>1
  <2>3. PICK first \in T : \A i \in T : first <= i
    BY <2>2, Least
  <2>4. QED
    BY <2>1, <2>3
<1>8. PICK top : top = HighestPriority(list, matched)
  OBVIOUS
<1>9. top \in matched /\ list[top] = rule
  <2>1. \A j \in matched : \/ list[j].priority < list[first].priority
                           \/ list[j].priority = list[first].priority /\ first <= j
    BY <1>3, <1>4, <1>7
  <2>2. /\ top \in matched
        /\ \A j \in matched : \/ list[j].priority < list[top].priority
                              \/ list[j].priority = list[top].priority /\ top <= j
    BY <1>8, <2>1 DEF HighestPriority
  <2>3. \/ list[first].priority < list[top].priority
        \/ list[first].priority = list[top].priority
    BY <2>2
  <2>4. QED
    BY <1>3, <1>4, <1>7, <2>2, <2>3
<1>10. PerformEvaluation(list, <<>>, ctx) \in {"throws", "deny"}
  <2>1. RuleDecision(rule) = "deny"
    BY DEF RuleDecision
  <2>2. matched # {}
    BY <1>9
  <2>3. QED
    BY <1>1, <1>2, <1>3, <1>8, <1>9, <2>1, <2>2 DEF PerformEvaluation
<1>11. QED
  BY <1>10 DEF Evaluate

\* What a request carries stays once it has arrived, and a response once it was given.
Onwards(p) ==
    /\ pc[p] # "idle" => /\ pc'[p] # "idle" /\ request'[p] = request[p]
                         /\ before'[p] = before[p] /\ bootOf'[p] = bootOf[p]
    /\ pc'[p] = "idle" => request'[p] = None
    /\ Answered(p) => pc'[p] = "done" /\ response'[p] = response[p]

\* Rules only come; a rule that has no rival now had none before.
LEMMA RivalsOnward ==
    ASSUME RulesFit, \A p \in Reqs : Onwards(p)
    PROVE  /\ KnownRules \subseteq KnownRules'
           /\ \A c \in Reqs : pc[c] # "idle" /\ Unrivalled(c)' => Unrivalled(c)
<1>1. KnownRules \subseteq KnownRules'
  BY DEF Onwards, KnownRules
<1>2. ASSUME NEW c \in Reqs, pc[c] # "idle", Unrivalled(c)' PROVE Unrivalled(c)
  <2>1. request'[c] = request[c]
    BY <1>2 DEF Onwards
  <2>2. Others(c) \subseteq Others(c)'
    BY DEF Onwards, Others
  <2>3. \A r \in Reqs \ {c} : request[r] # None => request'[r] = request[r]
    BY DEF Onwards, RulesFit
  <2>4. QED
    BY <1>2, <2>1, <2>2, <2>3 DEF Unrivalled
<1>3. QED
  BY <1>1, <1>2

\* What was decided stays right: the rules that count were confirmed before.
LEMMA DecisionOnward ==
    ASSUME TypeOK, IndInv, ReadsFit, RulesFit, \A p \in Reqs : Onwards(p),
           NEW e \in Reqs, decision'[e] = decision[e]
    PROVE  DecisionFits(e)'
<1> SUFFICES ASSUME decision[e] # None PROVE DecisionFits(e)'
  BY DEF DecisionFits
<1>1. pc[e] # "idle"
  BY DEF IndInv, PlaceFits, Unserved
<1>2. before'[e] = before[e] /\ request'[e] = request[e] /\ bootOf'[e] = bootOf[e]
  BY <1>1 DEF Onwards
<1>3. ASSUME NEW c \in before[e]
      PROVE  /\ request'[c] = request[c] /\ bootOf'[c] = bootOf[c]
             /\ Confirmed(c)' => Confirmed(c)
             /\ Unrivalled(c)' => Unrivalled(c)
  <2>1. c \in Reqs /\ Answered(c)
    BY DEF ReadsFit, TypeOK
  <2>2. pc[c] # "idle"
    BY <2>1 DEF Answered
  <2>3. QED
    BY <2>1, <2>2, RivalsOnward DEF Onwards, Answered, Confirmed
<1>4. DecisionFits(e)
  BY DEF RulesFit
<1>5. QED
  BY <1>2, <1>3, <1>4 DEF DecisionFits

\* A step that leaves the engine and the decisions alone.
LEMMA RulesKept ==
    ASSUME TypeOK, IndInv, ReadsFit, RulesFit, \A p \in Reqs : Onwards(p),
           rules' = rules, decision' = decision,
           \/ phase' = "down"
           \/ phase # "down" /\ \A p \in Reqs : Placed(p)' => Placed(p)
           \/ \A p \in Reqs : ~ Placed(p)'
    PROVE  RulesFit'
<1>1. \A r \in Reqs : pc'[r] = "idle" => request'[r] = None
  BY DEF Onwards
<1>2. \A i \in DOMAIN rules' : rules'[i] \in KnownRules'
  BY RivalsOnward DEF RulesFit
<1>3. \A e \in Reqs : DecisionFits(e)'
  BY DecisionOnward
<1>4. ASSUME phase' # "down", NEW c \in Reqs, Placed(c)', Unrivalled(c)'
      PROVE  InForce(rules', request'[c].rule)
  <2>1. Placed(c) /\ phase # "down"
    BY <1>4
  <2>2. pc[c] # "idle"
    BY <2>1 DEF Placed, Confirmed, Answered
  <2>3. Unrivalled(c) /\ request'[c] = request[c]
    BY <1>4, <2>2, RivalsOnward DEF Onwards
  <2>4. QED
    BY <2>1, <2>3 DEF RulesFit
<1>5. rules' \in Seq(RuleSet)
  BY DEF RulesFit
<1>6. QED
  BY <1>1, <1>2, <1>3, <1>4, <1>5 DEF RulesFit

\* The same, when one request is served.
LEMMA ServedRulesKept ==
    ASSUME TypeOK, IndInv, ReadsFit, RulesFit, NEW r \in Reqs,
           pc[r] \notin {"idle", "done"}, pc'[r] # "idle",
           \A p \in Reqs \ {r} : pc'[p] = pc[p] /\ response'[p] = response[p],
           UNCHANGED <<rules, decision, request, before, bootOf, boot, phase>>,
           phase # "down",
           Placed(r)' => Placed(r)
    PROVE  RulesFit'
<1>1. \A p \in Reqs : Onwards(p)
  BY DEF Onwards, Answered, RulesFit
<1>2. ASSUME NEW p \in Reqs, Placed(p)' PROVE Placed(p)
  BY <1>2 DEF Placed, Confirmed, Answered
<1>3. QED
  BY <1>1, <1>2, RulesKept

\* Another rule than that of c is put into the engine or taken out of it.
LEMMA OthersApart ==
    ASSUME TypeOK, NEW c \in Reqs, Unrivalled(c), NEW r \in Reqs \ {c}, request[r] # None
    PROVE  /\ request[r].id # request[c].rule.id
           /\ request[r].kind = "createRule" => request[r].rule.id # request[c].rule.id
<1>1. request[r] \in Inputs
  BY DEF TypeOK
<1>2. QED
  BY <1>1, InputsAssumption DEF Unrivalled

\* What a handler that changes the engine leaves alone.
LEMMA EngineChange ==
    ASSUME TypeOK, IndInv, ReadsFit, RulesFit, NEW r \in Reqs,
           pc[r] = "handler", pc'[r] = "connAudit", \A p \in Reqs \ {r} : pc'[p] = pc[p],
           UNCHANGED <<decision, request, response, before, bootOf, boot, phase>>,
           phase # "down",
           rules' \in Seq(RuleSet), \A i \in DOMAIN rules' : rules'[i] \in KnownRules',
           request[r].kind = "createRule" => InForce(rules', request[r].rule),
           \A c \in Reqs \ {r} : Unrivalled(c) /\ InForce(rules, request[c].rule)
                                    => InForce(rules', request[c].rule)
    PROVE  RulesFit'
<1>1. \A p \in Reqs : Onwards(p)
  BY DEF Onwards, Answered, RulesFit
<1>2. \A e \in Reqs : DecisionFits(e)'
  BY <1>1, DecisionOnward
<1>3. ASSUME NEW c \in Reqs, Placed(c)', Unrivalled(c)' PROVE InForce(rules', request'[c].rule)
  <2>1. CASE c = r
    BY <1>3, <2>1 DEF Placed
  <2>2. CASE c # r
    <3>1. Placed(c)
      BY <1>3, <2>2 DEF Placed, Confirmed, Answered
    <3>2. pc[c] # "idle"
      BY <3>1 DEF Placed, Confirmed, Answered
    <3>3. Unrivalled(c)
      BY <1>1, <1>3, <3>2, RivalsOnward
    <3>4. InForce(rules, request[c].rule)
      BY <3>1, <3>3 DEF RulesFit
    <3>5. QED
      BY <2>2, <3>3, <3>4
  <2>3. QED
    BY <2>1, <2>2
<1>4. \A p \in Reqs : pc'[p] = "idle" => request'[p] = None
  BY <1>1 DEF Onwards
<1>5. QED
  BY <1>2, <1>3, <1>4 DEF RulesFit

\* handleCreateRule puts its rule into the engine, beside those of other ids.
LEMMA CreateRuleStep ==
    ASSUME TypeOK, IndInv, ReadsFit, RulesFit, phase # "down", NEW r \in Reqs, StartCreateRule(r)
    PROVE  RulesFit'
<1>1. /\ pc[r] = "handler" /\ pc'[r] = "connAudit" /\ \A p \in Reqs \ {r} : pc'[p] = pc[p]
      /\ UNCHANGED <<decision, request, response, before, bootOf, boot, phase>>
      /\ request[r].kind = "createRule" /\ rules' = AddRule(rules, request[r].rule)
  BY DEF StartCreateRule, Admitted, Goto, envVars, historyVars, TypeOK
<1>2. request[r] \in Inputs /\ request[r] # None
  BY <1>1, NoneAssumption DEF TypeOK
<1>3. request[r].rule \in RuleSet /\ rules \in Seq(RuleSet)
  BY <1>2 DEF RuleSet, RulesFit
<1>4. /\ rules' \in Seq(RuleSet)
      /\ \A i \in DOMAIN rules' : rules'[i] = request[r].rule \/ \E j \in DOMAIN rules : rules'[i] = rules[j]
      /\ InForce(rules', request[r].rule)
      /\ \A other : other.id # request[r].rule.id /\ InForce(rules, other) => InForce(rules', other)
  <2>1. PICK rule \in RuleSet : rule = request[r].rule
    BY <1>3
  <2>2. /\ AddRule(rules, rule) \in Seq(RuleSet)
        /\ \A i \in DOMAIN AddRule(rules, rule) : \/ AddRule(rules, rule)[i] = rule
                                                  \/ \E j \in DOMAIN rules : AddRule(rules, rule)[i] = rules[j]
        /\ InForce(AddRule(rules, rule), rule)
        /\ \A other : other.id # rule.id /\ InForce(rules, other) => InForce(AddRule(rules, rule), other)
    BY <1>3, AddRuleIs
  <2>3. QED
    BY <1>1, <2>1, <2>2
<1>5. request[r].rule \in KnownRules' /\ KnownRules \subseteq KnownRules'
  BY <1>1 DEF KnownRules
<1>6. \A i \in DOMAIN rules' : rules'[i] \in KnownRules'
  BY <1>4, <1>5 DEF RulesFit
<1>7. ASSUME NEW c \in Reqs \ {r}, Unrivalled(c), InForce(rules, request[c].rule)
      PROVE  InForce(rules', request[c].rule)
  BY <1>1, <1>2, <1>4, <1>7, OthersApart
<1>8. QED
  BY <1>1, <1>4, <1>6, <1>7, EngineChange

\* handleDeleteRule takes out no rule of another id.
LEMMA DeleteRuleStep ==
    ASSUME TypeOK, IndInv, ReadsFit, RulesFit, phase # "down", NEW r \in Reqs, StartDeleteRule(r)
    PROVE  RulesFit'
<1>1. /\ pc[r] = "handler" /\ pc'[r] = "connAudit" /\ \A p \in Reqs \ {r} : pc'[p] = pc[p]
      /\ UNCHANGED <<decision, request, response, before, bootOf, boot, phase>>
      /\ request[r].kind = "deleteRule" /\ rules' = RemoveRule(rules, request[r].id)
  BY DEF StartDeleteRule, Admitted, Goto, envVars, historyVars, TypeOK
<1>2. request[r] # None
  BY <1>1, NoneAssumption DEF TypeOK
<1>3. rules \in Seq(RuleSet)
  BY DEF RulesFit
<1>4. /\ rules' \in Seq(RuleSet)
      /\ \A i \in DOMAIN rules' : \E j \in DOMAIN rules : rules'[i] = rules[j]
      /\ \A other : other.id # request[r].id /\ InForce(rules, other) => InForce(rules', other)
  BY <1>1, <1>3, RemoveRuleIs
<1>5. KnownRules \subseteq KnownRules'
  BY <1>1 DEF KnownRules
<1>6. \A i \in DOMAIN rules' : rules'[i] \in KnownRules'
  BY <1>4, <1>5 DEF RulesFit
<1>7. ASSUME NEW c \in Reqs \ {r}, Unrivalled(c), InForce(rules, request[c].rule)
      PROVE  InForce(rules', request[c].rule)
  BY <1>2, <1>4, <1>7, OthersApart
<1>8. QED
  BY <1>1, <1>4, <1>6, <1>7, EngineChange

\* handleEvaluate: a rule that is in force, holds and has no rival is the one that decides.
LEMMA EvaluateStep ==
    ASSUME TypeOK, IndInv, ReadsFit, RulesFit, phase # "down", NEW r \in Reqs, bootOf[r] = boot,
           StartEvaluate(r)
    PROVE  RulesFit'
<1>1. /\ pc[r] = "handler" /\ pc'[r] = "connEvidence"
      /\ \A p \in Reqs \ {r} : pc'[p] = pc[p] /\ decision'[p] = decision[p]
      /\ UNCHANGED <<rules, request, response, before, bootOf, boot, phase>>
      /\ decision'[r] = Evaluate(rules, <<>>, request[r].ctx)
  BY DEF StartEvaluate, Admitted, Goto, processVars, envVars, historyVars, TypeOK
<1>2. \A p \in Reqs : Onwards(p)
  BY <1>1 DEF Onwards, Answered, RulesFit
<1>3. ASSUME NEW c \in before[r], Confirmed(c)', request'[c].kind = "createRule",
             bootOf'[c] = bootOf'[r], Unrivalled(c)',
             EvaluateRule(request'[c].rule, request'[r].ctx) = "true"
      PROVE  decision'[r] = "deny"
  <2>1. c \in Reqs /\ Answered(c) /\ c # r
    BY <1>1 DEF ReadsFit, TypeOK, Answered
  <2>2. Confirmed(c) /\ Placed(c)
    BY <1>1, <1>3, <2>1 DEF Confirmed, Answered, Placed
  <2>3. Unrivalled(c)
    BY <1>2, <1>3, <2>1, RivalsOnward DEF Answered
  <2>4. PICK rule : rule = request[c].rule
    OBVIOUS
  <2>5. InForce(rules, rule)
    BY <2>1, <2>2, <2>3, <2>4 DEF RulesFit
  <2>6. request[c] \in Inputs /\ rule.priority \in Int
    BY <1>1, <1>3, <2>1, <2>4, InputsAssumption DEF TypeOK, Answered
  <2>7. ASSUME NEW i \in DOMAIN rules
        PROVE  /\ \/ rules[i] = rule
                  \/ rules[i].priority \in Int /\ rules[i].priority < rule.priority
               /\ rule.id \notin rules[i].overrides
    <3>1. rules[i] \in KnownRules
      BY DEF RulesFit
    <3>2. rules[i] \in Others(c) \/ rules[i] = rule
      BY <2>4, <3>1 DEF KnownRules, Others
    <3>3. rules[i].priority \in Int
      <4>1. \A p \in Reqs : pc[p] # "idle" /\ request[p].kind = "createRule"
                               => request[p].rule.priority \in Int
        BY InputsAssumption DEF TypeOK
      <4>2. QED
        BY <3>1, <4>1, DefaultRulesAssumption DEF KnownRules
    <3>4. CASE rules[i] = rule
      BY <2>3, <2>4, <3>4 DEF Unrivalled
    <3>5. CASE rules[i] \in Others(c)
      BY <2>3, <2>4, <2>5, <3>3, <3>5 DEF Unrivalled, InForce
    <3>6. QED
      BY <3>2, <3>4, <3>5
  <2>8. rule.action = "deny" /\ rule.enabled
    BY <2>3, <2>4 DEF Unrivalled
  <2>9. EvaluateRule(rule, request[r].ctx) = "true" /\ rules \in Seq(RuleSet)
    BY <1>1, <1>3, <2>4 DEF RulesFit
  <2>10. QED
    BY <1>1, <2>5, <2>6, <2>7, <2>8, <2>9, DenyDecides
<1>4. DecisionFits(r)'
  BY <1>1, <1>3 DEF DecisionFits
<1>5. \A e \in Reqs : DecisionFits(e)'
  BY <1>1, <1>2, <1>4, DecisionOnward
<1>6. ASSUME NEW c \in Reqs, Placed(c)', Unrivalled(c)' PROVE InForce(rules', request'[c].rule)
  <2>1. Placed(c)
    BY <1>1, <1>6 DEF Placed, Confirmed, Answered
  <2>2. pc[c] # "idle"
    BY <2>1 DEF Placed, Confirmed, Answered
  <2>3. Unrivalled(c)
    BY <1>2, <1>6, <2>2, RivalsOnward
  <2>4. QED
    BY <1>1, <2>1, <2>3 DEF RulesFit
<1>7. \A i \in DOMAIN rules' : rules'[i] \in KnownRules'
  BY <1>1, <1>2, RivalsOnward DEF RulesFit
<1>8. \A p \in Reqs : pc'[p] = "idle" => request'[p] = None
  BY <1>2 DEF Onwards
<1>9. QED
  BY <1>1, <1>5, <1>6, <1>7, <1>8 DEF RulesFit

\* Every step keeps RulesFit.
LEMMA RulesStep == TypeOK /\ IndInv /\ ProcessFits /\ ReadsFit /\ RulesFit /\ [Next]_vars => RulesFit'
<1> SUFFICES ASSUME TypeOK, IndInv, ProcessFits, ReadsFit, RulesFit, [Next]_vars PROVE RulesFit'
  OBVIOUS
<1>1. ASSUME NEW r \in Reqs, pc[r] \in OpenPcs PROVE phase # "down" /\ bootOf[r] = boot
  BY <1>1 DEF ProcessFits, InFlight
<1>2. ASSUME NEW r \in Reqs, NEW q \in Inputs, Receive(r, q) PROVE RulesFit'
  <2>1. /\ pc[r] = "idle" /\ pc'[r] \in {"body", "route"}
        /\ \A p \in Reqs \ {r} : /\ pc'[p] = pc[p] /\ request'[p] = request[p]
                                 /\ before'[p] = before[p] /\ bootOf'[p] = bootOf[p]
        /\ UNCHANGED <<rules, decision, response, boot, phase>> /\ phase # "down"
    BY <1>2 DEF Receive, Goto, TypeOK, processVars, envVars
  <2>2. \A p \in Reqs : Onwards(p)
    BY <2>1 DEF Onwards, Answered, RulesFit
  <2>3. ASSUME NEW p \in Reqs, Placed(p)' PROVE Placed(p)
    BY <2>1, <2>3 DEF Placed, Confirmed, Answered
  <2>4. QED
    BY <2>1, <2>2, <2>3, RulesKept
\* Answers that do not confirm a change.
<1>3. ASSUME NEW r \in Reqs,
             \/ RejectBody(r) \/ NotFound(r) \/ LimitRate(r) \/ Unauthenticated(r)
             \/ Forbidden(r) \/ HandlerThrows(r) \/ AnswerLocally(r)
             \/ ConnectFail(r) \/ QueryFail(r) \/ EvidenceFound(r) \/ EvidenceNotFound(r) \/ AuditRead(r) \/ Ready(r)
      PROVE  RulesFit'
  <2>1. PICK status \in Statuses \ {201, 204} : \E rows : Answers(r, status, rows)
    BY <1>3, OtherAnswers
  <2>2. /\ pc[r] \in OpenPcs /\ pc'[r] = "done" /\ response'[r].status \notin {201, 204}
        /\ \A p \in Reqs \ {r} : pc'[p] = pc[p] /\ response'[p] = response[p]
        /\ UNCHANGED <<request, decision>>
    BY <2>1 DEF Answers, Respond, Goto, TypeOK
  <2>3. UNCHANGED <<rules, before, bootOf, boot, phase>>
    BY <1>3 DEF RejectBody, NotFound, LimitRate, Unauthenticated, Forbidden, HandlerThrows, AnswerLocally,
       ConnectFail, QueryFail, EvidenceFound, EvidenceNotFound, AuditRead, Ready, ReadDone, processVars, envVars,
       historyVars
  <2>4. ~ Placed(r)'
    BY <2>2 DEF Placed, Confirmed
  <2>5. pc[r] \notin {"idle", "done"} /\ phase # "down"
    BY <1>1, <2>2 DEF OpenPcs, ConnPcs, RunPcs, InsertPcs
  <2>6. QED
    BY <2>2, <2>3, <2>4, <2>5, ServedRulesKept
<1>4. ASSUME NEW r \in Reqs, BodyComplete(r) \/ Dispatch(r) \/ StartRead(r) \/ Acquire(r)
      PROVE  RulesFit'
  <2>1. /\ pc[r] \in OpenPcs /\ pc'[r] \in OpenPcs /\ \A p \in Reqs \ {r} : pc'[p] = pc[p]
        /\ UNCHANGED <<rules, decision, request, response, before, bootOf, boot, phase>>
        /\ pc'[r] \in {"connAudit", "runAudit"} => pc[r] = "connAudit"
    BY <1>4 DEF BodyComplete, Dispatch, CountRequest, StartRead, Admitted, Acquire, RunAfter, Goto, OpenPcs,
       ConnPcs, RunPcs, InsertPcs, processVars, envVars, historyVars, TypeOK
  <2>2. Placed(r)' => Placed(r)
    BY <2>1 DEF Placed, Confirmed, Answered, OpenPcs, ConnPcs, RunPcs, InsertPcs
  <2>3. pc[r] \notin {"idle", "done"} /\ pc'[r] # "idle" /\ phase # "down"
    BY <1>1, <2>1 DEF OpenPcs, ConnPcs, RunPcs, InsertPcs
  <2>4. QED
    BY <2>1, <2>2, <2>3, ServedRulesKept
<1>5. ASSUME NEW r \in Reqs, EvidenceStored(r) PROVE RulesFit'
  <2>1. /\ pc[r] = "runEvidence" /\ pc'[r] = "connAudit" /\ \A p \in Reqs \ {r} : pc'[p] = pc[p]
        /\ UNCHANGED <<rules, decision, request, response, before, bootOf, boot, phase>>
    BY <1>5 DEF EvidenceStored, Goto, envVars, historyVars, TypeOK
  <2>2. ~ Placed(r)'
    BY <2>1 DEF Placed, IndInv, PlaceFits
  <2>3. phase # "down"
    BY <1>1, <2>1 DEF OpenPcs, RunPcs, InsertPcs
  <2>4. QED
    BY <2>1, <2>2, <2>3, ServedRulesKept
<1>6. ASSUME NEW r \in Reqs, AuditStored(r) PROVE RulesFit'
  <2>1. /\ pc[r] = "runAudit" /\ pc'[r] = "done"
        /\ \A p \in Reqs \ {r} : pc'[p] = pc[p] /\ response'[p] = response[p]
        /\ UNCHANGED <<rules, decision, request, before, bootOf, boot, phase>>
    BY <1>6 DEF AuditStored, Finish, Respond, Goto, envVars, historyVars, TypeOK
  <2>2. Placed(r)' => Placed(r)
    BY <2>1 DEF Placed
  <2>3. phase # "down"
    BY <1>1, <2>1 DEF OpenPcs, RunPcs, InsertPcs
  <2>4. QED
    BY <2>1, <2>2, <2>3, ServedRulesKept
<1>7. ASSUME NEW r \in Reqs, StartEvaluate(r) \/ StartCreateRule(r) \/ StartDeleteRule(r)
      PROVE  RulesFit'
  <2>1. pc[r] \in OpenPcs
    BY <1>7 DEF StartEvaluate, StartCreateRule, StartDeleteRule, Admitted, OpenPcs
  <2>2. phase # "down" /\ bootOf[r] = boot
    BY <1>1, <2>1
  <2>3. QED
    BY <1>7, <2>2, EvaluateStep, CreateRuleStep, DeleteRuleStep
\* Steps of PostgreSQL, of the process, and none.
<1>8. CASE \/ \E row \in sql : Commit(row) \/ Reject(row)
           \/ Signal \/ EndPool \/ Tick \/ UNCHANGED vars
           \/ \E r \in Reqs : Disconnect(r)
  <2>1. /\ UNCHANGED <<rules, pc, decision, request, response, before, bootOf, boot>>
        /\ phase = "down" => phase' = "down"
    BY <1>8 DEF Disconnect, Commit, Reject, Signal, EndPool, Tick, vars, processVars, requestVars, envVars, historyVars
  <2>2. \A p \in Reqs : Onwards(p) /\ (Placed(p)' => Placed(p))
    BY <2>1 DEF Onwards, Answered, RulesFit, Placed, Confirmed
  <2>3. QED
    BY <2>1, <2>2, RulesKept
<1>9. CASE Exit \/ Crash
  <2>1. /\ phase' = "down" /\ rules' = DefaultRules
        /\ \A p \in Reqs : pc'[p] = IF p \in InFlight THEN "lost" ELSE pc[p]
        /\ UNCHANGED <<decision, request, response, before, bootOf>>
    BY <1>9 DEF Exit, Crash, LoseMemory, envVars, historyVars
  <2>2. \A p \in Reqs : p \in InFlight => pc[p] \notin {"idle", "done"}
    BY DEF InFlight, OpenPcs, ConnPcs, RunPcs, InsertPcs
  <2>3. \A p \in Reqs : Onwards(p)
    BY <2>1, <2>2 DEF Onwards, Answered, RulesFit
  <2>4. rules' \in Seq(RuleSet) /\ \A i \in DOMAIN rules' : rules'[i] \in KnownRules'
    BY <2>1, DefaultRulesAssumption DEF RuleSet, KnownRules
  <2>5. \A e \in Reqs : DecisionFits(e)'
    BY <2>1, <2>3, DecisionOnward
  <2>6. \A p \in Reqs : pc'[p] = "idle" => request'[p] = None
    BY <2>3 DEF Onwards
  <2>7. QED
    BY <2>1, <2>4, <2>5, <2>6 DEF RulesFit
<1>10. CASE Restart
  <2>1. /\ boot' = boot + 1 /\ boot \in Nat
        /\ UNCHANGED <<rules, pc, decision, request, response, before, bootOf>>
    BY <1>10 DEF Restart, requestVars, historyVars, TypeOK
  <2>2. \A p \in Reqs : Onwards(p)
    BY <2>1 DEF Onwards, Answered, RulesFit
  <2>3. \A p \in Reqs : bootOf[p] \in Nat /\ bootOf[p] <= boot
    BY DEF ProcessFits, TypeOK
  <2>4. \A p \in Reqs : ~ Placed(p)'
    BY <2>1, <2>3 DEF Placed
  <2>5. QED
    BY <2>1, <2>2, <2>4, RulesKept
<1>11. QED
  BY NextCases, <1>2, <1>3, <1>4, <1>5, <1>6, <1>7, <1>8, <1>9, <1>10

(***************************************************************************)
(* A confirmed deny rule is in force: an evaluation that arrives after the *)
(* confirmation, at the same process, is answered with a deny when the     *)
(* rule holds for its context, is above every other rule and nothing       *)
(* overrides it (handleCreateRule, addRule, performEvaluation), whatever   *)
(* other rules come and go meanwhile.                                      *)
(***************************************************************************)
THEOREM DenyRulesInForce == Spec => []DenyRuleInForce
<1>1. Init => RulesFit
  BY DefaultRulesAssumption DEF Init, RulesFit, RuleSet, KnownRules, Placed, Confirmed, Answered, DecisionFits
<1>2. Init => ReadsFit
  BY DEF Init, ReadsFit, ReadFits, Answered
<1>3. IndInv /\ RulesFit => DenyRuleInForce
  <2> SUFFICES ASSUME IndInv, RulesFit, NEW e \in Reqs, NEW c \in before[e], Decided(e), Confirmed(c),
                      request[c].kind = "createRule", bootOf[c] = bootOf[e], Unrivalled(c),
                      EvaluateRule(request[c].rule, request[e].ctx) = "true"
               PROVE  response[e].decision = "deny"
    BY DEF DenyRuleInForce
  <2>1. response[e].decision = decision[e] /\ decision[e] # None
    BY DEF IndInv, EvaluationRecorded, Decided
  <2>2. DecisionFits(e)
    BY DEF RulesFit
  <2>3. QED
    BY <2>1, <2>2 DEF DecisionFits
<1>4. QED
  BY <1>1, <1>2, <1>3, RulesStep, ReadsStep, ProcessInit, ProcessStep, TypeCorrect, IndInvHolds, PTL DEF Spec
===============================================================================
