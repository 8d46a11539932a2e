------------------------- MODULE Gate530ApiProperties -------------------------
(***************************************************************************)
(* What makes the Wave 1 API correct, over the specification Gate530Api.   *)
(***************************************************************************)
EXTENDS Gate530Api, FiniteSetsExt

Pcs == {"idle", "done", "lost"} \cup OpenPcs

Entry == [count : Nat, resetAt : Int]

(***************************************************************************)
(* Every variable keeps its type; in particular a decision is one of the   *)
(* three the engine knows, whatever action a stored rule names             *)
(* (engine.ts, the switch of performEvaluation).                           *)
(***************************************************************************)
TypeOK ==
    /\ phase \in {"up", "closing", "ending", "down"}
    /\ rateLimitStore \in [Ips -> Entry]
    /\ busy \subseteq Reqs
    /\ requestsTotal \in Nat
    /\ requestsByStatus \in [Statuses -> Nat]
    /\ activeConnections \in Int
    /\ sockets \subseteq Reqs
    /\ pc \in [Reqs -> Pcs]
    /\ request \in [Reqs -> Inputs \cup {None}]
    /\ \A r \in Reqs : pc[r] # "idle" => request[r] \in Inputs
    /\ decision \in [Reqs -> Decisions \cup {None}]
    /\ stamp \in [Reqs -> [evidence : Nat, audit : Nat]]
    /\ response \in [Reqs -> [status : Statuses \cup {0}, decision : Decisions \cup {None},
                              rows : SUBSET db]]
    /\ \A row \in sql \cup db : row.by \in Reqs
    /\ now \in Nat
    /\ boot \in Nat
    /\ before \in [Reqs -> SUBSET Reqs]
    /\ bootOf \in [Reqs -> Nat]

Answered(r) == pc[r] = "done"

\* r is an evaluation whose handler told the caller its decision.
Decided(r) == /\ Answered(r)
              /\ request[r].kind = "evaluate"
              /\ response[r].status \in {200, 403}
              /\ response[r].decision # None

\* r is an administrative change that was confirmed.
Confirmed(r) == Answered(r) /\ response[r].status \in {201, 204}

(***************************************************************************)
(* Two answers tell a decision.  The 200 or 403 of handleEvaluate tells    *)
(* the one it took, and only when the evidence of this very decision and   *)
(* its audit event are both in PostgreSQL and the status agrees with it;   *)
(* neither a broken connection, nor a late statement, nor a restart takes  *)
(* them away.  The catch of handleRequest tells DENY with a 500, on every  *)
(* route: that DENY is nobody's decision, it has no records of its own,    *)
(* and it may contradict evidence of an allow that is already stored.  So  *)
(* nothing but a DENY, and that only with a 500, is told without records.  *)
(***************************************************************************)
EvaluationRecorded ==
    \A r \in Reqs : Answered(r) /\ response[r].decision # None =>
        \/ response[r].status = 500 /\ response[r].decision = "deny"
        \/ /\ request[r].kind = "evaluate"
           /\ response[r].decision = decision[r]
           /\ response[r].status = (IF decision[r] = "deny" THEN 403 ELSE 200)
           /\ EvidenceRow(r) \in db
           /\ AuditRow(r) \in db

(***************************************************************************)
(* handleCreateRule, handleDeleteRule: a confirmed change has its audit    *)
(* event in PostgreSQL.                                                    *)
(***************************************************************************)
ConfirmedChangeAudited == \A r \in Reqs : Confirmed(r) => AuditRow(r) \in db

(***************************************************************************)
(* The order of the two inserts of handleEvaluate: an audit event of an    *)
(* evaluation never exists, and is never even sent, without the evidence   *)
(* of the same decision, also when a connection broke and PostgreSQL       *)
(* executes a statement after its client was answered or died.             *)
(***************************************************************************)
AuditFollowsEvidence ==
    \A row \in sql \cup db :
        row.table = "audit_events" /\ request[row.by].kind = "evaluate"
            => \E e \in EvidenceRows : e.by = row.by /\ e.decision = row.decision

(***************************************************************************)
(* Every path of every ApiDatabase method releases the connection it took, *)
(* and only that: the pool holds exactly the requests that wait for a      *)
(* reply, never more than max.                                             *)
(***************************************************************************)
PoolBalanced ==
    /\ busy = { r \in Reqs : pc[r] \in RunPcs }
    /\ Cardinality(busy) <= MaxConnections

(***************************************************************************)
(* The early returns of handleRequest: active_connections is the number of *)
(* requests not yet answered, and every request since the start is         *)
(* active, counted under a status, or refused by the rate limiter (the one *)
(* answer that is not counted).                                            *)
(***************************************************************************)
MetricsBalanced ==
    LET limited == { r \in Reqs : /\ bootOf[r] = boot /\ response[r].status = 429 } IN
    phase # "down" =>
        /\ activeConnections = Cardinality(InFlight)
        /\ requestsTotal = MapThenSumSet(LAMBDA s : requestsByStatus[s], Statuses)
                           + activeConnections + Cardinality(limited)

(***************************************************************************)
(* requiresAdmin: while the process runs, its rules change only in a step  *)
(* of a request whose credentials are those of an administrator.           *)
(***************************************************************************)
RulesChangedByAdmin ==
    [][rules' # rules =>
           \/ phase' = "down"
           \/ \E r \in InFlight : /\ request[r].cred = "admin"
                                  /\ pc[r] = "handler" /\ pc'[r] # "handler"]_vars

(***************************************************************************)
(* A request sent after an answer sees what was answered.  The evidence of *)
(* a disclosed decision is found, no older than that decision.  An audit   *)
(* query without an offset whose filters let the event of a disclosed      *)
(* decision or a confirmed change through returns it, unless its LIMIT is  *)
(* used up by events that are all at least as new.                         *)
(***************************************************************************)
UsedUp(query, rows, row) ==
    /\ query.limit > 0 /\ Cardinality(rows) = query.limit
    /\ \A other \in rows : other.stamp >= row.stamp

ReadYourWrites ==
    \A g \in Reqs : \A e \in before[g] :
        Answered(g) /\ response[g].status \in {200, 404} =>
            /\ (/\ Decided(e)
                /\ request[g].kind = "getEvidence" /\ request[g].id = request[e].id)
                   => /\ response[g].status = 200
                      /\ \A row \in response[g].rows : row.stamp >= stamp[e].evidence
            /\ (/\ Decided(e) \/ Confirmed(e)
                /\ request[g].kind = "adminAudit" /\ request[g].query.offset = 0
                /\ Selects(request[g].query, AuditRow(e)))
                   => \/ AuditRow(e) \in response[g].rows
                      \/ UsedUp(request[g].query, response[g].rows, AuditRow(e))

(***************************************************************************)
(* A confirmed deny rule is in force: an evaluation that arrives after the *)
(* confirmation, at the same process, is a deny when the rule holds for    *)
(* its context, is above every other rule and cannot be overridden, and no *)
(* other request names its id.                                             *)
(***************************************************************************)
Others(c) == { request[r].rule : r \in { r \in Reqs \ {c} :
                   pc[r] # "idle" /\ request[r].kind = "createRule" } }
             \cup { DefaultRules[i] : i \in DOMAIN DefaultRules }

Unrivalled(c) ==
    LET rule == request[c].rule IN
    /\ rule.action = "deny" /\ rule.enabled
    /\ \A other \in Others(c) : /\ other.id = rule.id \/ other.priority < rule.priority
                                /\ rule.id \notin other.overrides
    /\ rule.id \notin rule.overrides
    /\ \A r \in Reqs \ {c} : request[r] # None => request[r].id # rule.id

DenyRuleInForce ==
    \A e \in Reqs : \A c \in before[e] :
        (/\ Decided(e) /\ Confirmed(c) /\ request[c].kind = "createRule"
         /\ bootOf[c] = bootOf[e]
         /\ Unrivalled(c)
         /\ EvaluateRule(request[c].rule, request[e].ctx) = "true")
            => response[e].decision = "deny"

(***************************************************************************)
(* Graceful shutdown (api-index.ts): server.close() waits for sockets and  *)
(* pool.end() for connections of the pool, neither for handlers.  So a     *)
(* request may be cut off by the exit of the process, also between its two *)
(* inserts, but only one whose client had closed its socket before, and    *)
(* PostgreSQL has executed or refused every statement it sent.             *)
(***************************************************************************)
ShutdownCutsNobodyOff ==
    [][Exit => \A r \in InFlight : r \notin sockets /\ \A row \in sql : row.by # r]_vars

\* Every request that arrives is answered, unless the process dies (handleRequest).
EveryRequestAnswered ==
    \A r \in Reqs : pc[r] \in OpenPcs ~> pc[r] \in {"done", "lost"}

\* A process that got SIGTERM ends (shutdown() of api-index.ts).
ShutdownCompletes == phase = "closing" ~> phase = "down"

(***************************************************************************)
(* The inductive invariant: it says where a request can be by what is in   *)
(* the tables and in flight, which the properties above leave open.  A row *)
(* that was sent is the row of a request as it still stands (so a late     *)
(* statement cannot bring back another decision), and it was sent when the *)
(* request had a connection for it; a statement in flight is in no table,  *)
(* and its request waits for the reply or does not wait any more; a        *)
(* request is past the evidence insert only when its evidence is           *)
(* committed.                                                              *)
(***************************************************************************)
Unserved  == {"idle", "body", "route", "handler"}
Ended     == {"done", "lost"}
AuditSent == {"runAudit"} \cup Ended

RowFits(row) ==
    LET r == row.by IN
    /\ r \in Reqs
    /\ pc[r] \notin Unserved \cup {"connEvidence"}
    /\ \/ row = EvidenceRow(r) /\ decision[r] # None
       \/ /\ row = AuditRow(r)
          /\ pc[r] \in AuditSent
          /\ decision[r] # None \/ request[r].kind # "evaluate"
          /\ decision[r] # None => EvidenceRow(r) \in db

StatementFits(row) == row \notin db /\ pc[row.by] \in InsertPcs \cup Ended

PlaceFits(r) ==
    /\ pc[r] \in Unserved => decision[r] = None
    /\ decision[r] # None => request[r] # None /\ request[r].kind = "evaluate"
    /\ pc[r] \in {"connEvidence", "runEvidence"} => decision[r] # None
    /\ pc[r] \in {"connAudit", "runAudit"} =>
          /\ decision[r] # None \/ request[r].kind \in {"createRule", "deleteRule"}
          /\ decision[r] # None => EvidenceRow(r) \in db
    /\ pc[r] \in {"connRead", "runRead"} => request[r].kind \in ReadKinds

IndInv ==
    /\ PoolBalanced
    /\ \A row \in sql \cup db : RowFits(row)
    /\ \A row \in sql : StatementFits(row)
    /\ \A r \in Reqs : PlaceFits(r)
    /\ EvaluationRecorded
    /\ ConfirmedChangeAudited

(***************************************************************************)
(* The API implements ComplianceLedger: the two inserts and the answer of  *)
(* an evaluation, with the faults of the pool, of PostgreSQL and of the    *)
(* process, are steps that record evidence, then audit it, then disclose.  *)
(* A 500 tells the decision in its body without records: the ledger calls  *)
(* that FailClosed.  A request the process died on has no answer.          *)
(***************************************************************************)
Ground(r) == IF Decided(r) THEN "verdict"
             ELSE IF Confirmed(r) THEN "change"
             ELSE IF response[r].status = 500 THEN "error" ELSE "other"

Answer(r) == IF Answered(r) THEN [tells |-> response[r].decision, because |-> Ground(r)]
             ELSE None

Ledger == INSTANCE ComplianceLedger
              WITH verdict  <- decision,
                   evidence <- { <<row.by, row.decision>> : row \in EvidenceRows },
                   audited  <- { row.by : row \in AuditRows },
                   answer   <- [r \in Reqs |-> Answer(r)]

ImplementsLedger == Ledger!Spec

===============================================================================
