------------------------------ MODULE Gate530Api ------------------------------
(***************************************************************************)
(* The Wave 1 compliance API of packages/gate-530/src: api-server.ts (the  *)
(* HTTP server, its rate limiter, its handlers and its metrics), api-db.ts *)
(* (the PostgreSQL pool and its statements) and api-index.ts (start and    *)
(* graceful shutdown), with engine.ts as the operators of RuleEngine.      *)
(*                                                                         *)
(* The server is one Node.js process, so an action is the code a request   *)
(* runs between two awaits.  The awaits a model has to keep apart are the  *)
(* body, the credentials (a JWKS fetch), a pooled connection and the reply *)
(* of PostgreSQL.  PostgreSQL is an actor of its own: a statement that was *)
(* sent stays in sql until the database commits or rejects it, whatever    *)
(* happened to the client in the meantime.                                 *)
(***************************************************************************)
EXTENDS RuleEngine, RateLimit, FiniteSets

CONSTANTS
    Reqs,             \* the HTTP requests of a behaviour, each sent once
    Inputs,           \* what a request may carry, see the assumption below
    Ids,              \* request ids, rule ids and actor ids
    Uuids,            \* those that PostgreSQL accepts in a UUID column
    Ips,              \* client addresses
    None,             \* no value
    DefaultRules,     \* what buildEngine() puts into the engine
    MaxConnections,   \* DB_MAX_CONNECTIONS
    DbFaults,         \* whether PostgreSQL and its connections may fail
    Disconnects,      \* whether clients may close their socket before the answer
    Signals,          \* whether SIGTERM may arrive
    MaxTime, MaxBoot  \* bounds: ticks of the clock, starts of the process

AuthKinds  == {"evaluate", "createRule", "deleteRule", "adminAudit"}
AdminKinds == {"createRule", "deleteRule", "adminAudit"}
BodyKinds  == {"evaluate", "createRule"}
ReadKinds  == {"getEvidence", "adminAudit", "ready"}
LocalKinds == {"health", "metrics"}
Kinds      == AuthKinds \cup ReadKinds \cup LocalKinds \cup {"unknown"}

AuditedTables == {"evidence_records", "compliance_rules"}
Operations    == {"INSERT", "DELETE"}

\* The query string of GET /admin/audit: None is a filter that is not given.
AuditQueries == [actorId : Ids \cup {None}, operation : Operations \cup {None},
                 tableName : AuditedTables \cup {None}, limit : Nat, offset : Nat]

\* malformed: the body is JSON and no object (null), or a field of it has no toString.
ASSUME InputsAssumption ==
    /\ Uuids \subseteq Ids
    /\ Inputs \subseteq [kind : Kinds, ip : Ips, cred : {"none", "user", "admin"},
                         malformed : BOOLEAN, id : Ids, actor : Ids,
                         ctx : {q.ctx : q \in Inputs}, rule : {q.rule : q \in Inputs},
                         query : AuditQueries \cup {None}]
    \* handleCreateRule: the id of the record is that of the rule, a priority is a number.
    /\ \A q \in Inputs : q.kind = "createRule" => q.rule.id = q.id /\ q.rule.priority \in Int
    /\ \A q \in Inputs : q.kind = "adminAudit" => q.query \in AuditQueries

\* buildEngine() adds its rules to a Map.
ASSUME DefaultRulesAssumption ==
    /\ DefaultRules \in Seq({ DefaultRules[i] : i \in DOMAIN DefaultRules })
    /\ \A i, j \in DOMAIN DefaultRules : DefaultRules[i].id = DefaultRules[j].id => i = j
    /\ \A i \in DOMAIN DefaultRules : DefaultRules[i].priority \in Int

ASSUME BoundsAssumption ==
    /\ IsFiniteSet(Reqs)
    /\ MaxConnections \in Nat \ {0}
    /\ {DbFaults, Disconnects, Signals} \subseteq BOOLEAN
    /\ {MaxTime, MaxBoot} \subseteq Nat

ASSUME NoneAssumption == None \notin Decisions /\ None \notin Inputs /\ None \notin Ids

VARIABLES
    \* the process
    phase,              \* "up", "closing", "ending" (the pool), "down"
    rules,              \* engine.rules
    rateLimitStore,     \* ip -> entry
    busy,               \* requests that hold a connection of the pool
    requestsTotal, requestsByStatus, activeConnections,   \* metrics
    sockets,            \* requests whose socket is open, of server.close()
    \* the requests
    pc, request, decision,
    stamp,              \* r -> the timestamps of its evidence and of its audit event
    response,
    \* PostgreSQL
    sql,                \* statements sent and not yet executed
    db,                 \* rows of evidence_records and of audit_events
    \* the environment
    now,                \* Date.now()
    boot,               \* starts of the process
    \* history
    before,             \* r -> requests answered when r arrived
    bootOf              \* r -> the start of the process that received r

processVars == <<phase, rules, rateLimitStore, busy>>
serverVars  == <<requestsTotal, requestsByStatus, activeConnections, sockets>>
requestVars == <<pc, request, decision, stamp, response>>
envVars     == <<now, boot>>
historyVars == <<before, bootOf>>
vars == <<processVars, serverVars, requestVars, sql, db, envVars, historyVars>>

Statuses == {200, 201, 204, 400, 401, 403, 404, 429, 500, 503}

InsertPcs == {"runEvidence", "runAudit"}
RunPcs    == InsertPcs \cup {"runRead"}
ConnPcs   == {"connEvidence", "connAudit", "connRead"}
OpenPcs   == {"body", "route", "handler"} \cup ConnPcs \cup RunPcs
InFlight  == { r \in Reqs : pc[r] \in OpenPcs }

NoResponse == [status |-> 0, decision |-> None, rows |-> {}]

(***************************************************************************)
(* Rows carry the request that wrote them: crypto.randomUUID() gives each  *)
(* insert an id of its own.                                                *)
(***************************************************************************)
EvidenceRow(r) == [table |-> "evidence_records", by |-> r, id |-> request[r].id,
                   decision |-> decision[r], stamp |-> stamp[r].evidence]
AuditRow(r)    == [table |-> "audit_events", by |-> r, id |-> request[r].id,
                   decision |-> decision[r], stamp |-> stamp[r].audit,
                   actor |-> request[r].actor,
                   tableName |-> IF request[r].kind = "evaluate"
                                 THEN "evidence_records" ELSE "compliance_rules",
                   operation |-> IF request[r].kind = "deleteRule" THEN "DELETE" ELSE "INSERT"]

EvidenceRows == { row \in db : row.table = "evidence_records" }
AuditRows    == { row \in db : row.table = "audit_events" }

\* The statement of request r while it waits for PostgreSQL to execute it.
Statement(r) == IF pc[r] = "runEvidence" THEN EvidenceRow(r) ELSE AuditRow(r)

\* request_id, record_id and actor_id are UUID columns.
Storable(row) == /\ row.id \in Uuids
                 /\ row.table = "audit_events" => row.actor \in Uuids

-------------------------------------------------------------------------------
Init ==
    /\ phase = "up"
    /\ rules = DefaultRules
    /\ rateLimitStore = [ip \in Ips |-> NoEntry]
    /\ busy = {}
    /\ requestsTotal = 0
    /\ requestsByStatus = [s \in Statuses |-> 0]
    /\ activeConnections = 0
    /\ sockets = {}
    /\ pc = [r \in Reqs |-> "idle"]
    /\ request = [r \in Reqs |-> None]
    /\ decision = [r \in Reqs |-> None]
    /\ stamp = [r \in Reqs |-> [evidence |-> 0, audit |-> 0]]
    /\ response = [r \in Reqs |-> NoResponse]
    /\ sql = {}
    /\ db = {}
    /\ now = 0
    /\ boot = 1
    /\ before = [r \in Reqs |-> {}]
    /\ bootOf = [r \in Reqs |-> 0]

(***************************************************************************)
(* The end of handleRequest: the response, recordMetrics, and the          *)
(* connection no longer active.                                            *)
(***************************************************************************)
Goto(r, label) == pc' = [pc EXCEPT ![r] = label]

RecordMetrics(status) ==
    requestsByStatus' = [requestsByStatus EXCEPT ![status] = @ + 1]

\* A response has a status, and a decision or rows of the database or neither.
Respond(r, status, decided, rows) ==
    /\ Goto(r, "done")
    /\ response' = [response EXCEPT ![r] =
                        [status |-> status, decision |-> decided, rows |-> rows]]
    /\ activeConnections' = activeConnections - 1
    /\ sockets' = sockets \ {r}
    /\ UNCHANGED requestsTotal

Finish(r, status, decided, rows) == Respond(r, status, decided, rows) /\ RecordMetrics(status)

Conclude(r, status) == Finish(r, status, None, {})

-------------------------------------------------------------------------------
(* handleRequest up to the handler.                                        *)

\* server.close() refuses new connections: those still open may carry another request.
Receive(r, q) ==
    /\ phase \in {"up", "closing"}
    /\ pc[r] = "idle"
    /\ requestsTotal' = requestsTotal + 1
    /\ activeConnections' = activeConnections + 1
    /\ sockets' = sockets \cup {r}
    /\ Goto(r, IF q.kind \in BodyKinds THEN "body" ELSE "route")
    /\ request' = [request EXCEPT ![r] = q]
    /\ before' = [before EXCEPT ![r] = { p \in Reqs : pc[p] = "done" }]
    /\ bootOf' = [bootOf EXCEPT ![r] = boot]
    /\ UNCHANGED <<processVars, requestsByStatus, decision, stamp, response, sql, db, envVars>>

BodyComplete(r) ==
    /\ pc[r] = "body"
    /\ r \in sockets
    /\ Goto(r, "route")
    /\ UNCHANGED <<processVars, serverVars, request, decision, stamp, response, sql, db,
                   envVars, historyVars>>

\* Mutant: no timer, a body that never completes is waited for forever.
RejectBodyUntimed(r) == FALSE

\* parseBody rejects: too large, not JSON, broken off, or not complete within 5 seconds.
\* req.destroy() of a body that is too large closes a socket that is answered here.
RejectBody(r) ==
    /\ pc[r] = "body"
    /\ Conclude(r, 400)
    /\ UNCHANGED <<processVars, request, decision, stamp, sql, db, envVars, historyVars>>

NotFound(r) ==
    /\ pc[r] = "route"
    /\ request[r].kind = "unknown"
    /\ Conclude(r, 404)
    /\ UNCHANGED <<processVars, request, decision, stamp, sql, db, envVars, historyVars>>

\* checkRateLimit: one entry per address, shared by both classes of routes.
IsAdminRoute(r) == request[r].kind \in AdminKinds

Counted(r) == Count(rateLimitStore[request[r].ip], IsAdminRoute(r), now)

WithinRate(r) == Within(Counted(r), IsAdminRoute(r))

CountRequest(r) ==
    /\ pc[r] = "route"
    /\ request[r].kind # "unknown"
    /\ rateLimitStore' = [rateLimitStore EXCEPT ![request[r].ip] = Counted(r)]

Dispatch(r) ==
    /\ CountRequest(r)
    /\ WithinRate(r)
    /\ Goto(r, "handler")
    /\ UNCHANGED <<phase, rules, busy, serverVars, request, decision, stamp, response,
                   sql, db, envVars, historyVars>>

\* Mutant: the early return forgets activeConnections--.
LimitRateStillActive(r) ==
    /\ CountRequest(r)
    /\ ~ WithinRate(r)
    /\ Goto(r, "done")
    /\ response' = [response EXCEPT ![r].status = 429]
    /\ sockets' = sockets \ {r}
    /\ UNCHANGED <<phase, rules, busy, requestsTotal, requestsByStatus, activeConnections,
                   request, decision, stamp, sql, db, envVars, historyVars>>

\* The 429 answer does not go through recordMetrics.
LimitRate(r) ==
    /\ CountRequest(r)
    /\ ~ WithinRate(r)
    /\ Respond(r, 429, None, {})
    /\ UNCHANGED <<phase, rules, busy, requestsByStatus, request, decision, stamp,
                   sql, db, envVars, historyVars>>

Unauthenticated(r) ==
    /\ pc[r] = "handler"
    /\ request[r].kind \in AuthKinds
    /\ request[r].cred = "none"
    /\ Conclude(r, 401)
    /\ UNCHANGED <<processVars, request, decision, stamp, sql, db, envVars, historyVars>>

Forbidden(r) ==
    /\ pc[r] = "handler"
    /\ IsAdminRoute(r)
    /\ request[r].cred = "user"
    /\ Conclude(r, 403)
    /\ UNCHANGED <<processVars, request, decision, stamp, sql, db, envVars, historyVars>>

\* Mutant: requiresAdmin is not checked.
AdmittedAnyRole(r, kind) ==
    /\ pc[r] = "handler"
    /\ request[r].kind = kind
    /\ kind \in AuthKinds => request[r].cred # "none"

Admitted(r, kind) ==
    /\ pc[r] = "handler"
    /\ request[r].kind = kind
    /\ kind \in AuthKinds  => request[r].cred # "none"
    /\ kind \in AdminKinds => request[r].cred = "admin"

-------------------------------------------------------------------------------
(* The handlers, up to their first database call.                          *)

\* The catch of handleRequest: whatever was decided before, the caller is told DENY.
AnswerError(r) == Finish(r, 500, "deny", {})

\* body.requestId of a body that is null: a TypeError before anything is decided.
HandlerThrows(r) ==
    /\ \E kind \in BodyKinds : Admitted(r, kind)
    /\ request[r].malformed
    /\ AnswerError(r)
    /\ UNCHANGED <<processVars, request, decision, stamp, sql, db, envVars, historyVars>>

\* handleEvaluate: decide, sign, then store.  The API registers no sector rules.
StartEvaluate(r) ==
    /\ Admitted(r, "evaluate")
    /\ ~ request[r].malformed
    /\ decision' = [decision EXCEPT ![r] = Evaluate(rules, <<>>, request[r].ctx)]
    /\ stamp' = [stamp EXCEPT ![r].evidence = now]
    /\ Goto(r, "connEvidence")
    /\ UNCHANGED <<processVars, serverVars, request, response, sql, db, envVars, historyVars>>

\* The engine changes before the audit event is stored.
StartCreateRule(r) ==
    /\ Admitted(r, "createRule")
    /\ ~ request[r].malformed
    /\ rules' = AddRule(rules, request[r].rule)
    /\ stamp' = [stamp EXCEPT ![r].audit = now]
    /\ Goto(r, "connAudit")
    /\ UNCHANGED <<phase, rateLimitStore, busy, serverVars, request, decision,
                   response, sql, db, envVars, historyVars>>

StartDeleteRule(r) ==
    /\ Admitted(r, "deleteRule")
    /\ rules' = RemoveRule(rules, request[r].id)
    /\ stamp' = [stamp EXCEPT ![r].audit = now]
    /\ Goto(r, "connAudit")
    /\ UNCHANGED <<phase, rateLimitStore, busy, serverVars, request, decision,
                   response, sql, db, envVars, historyVars>>

StartRead(r) ==
    /\ \E kind \in ReadKinds : Admitted(r, kind)
    /\ Goto(r, "connRead")
    /\ UNCHANGED <<processVars, serverVars, request, decision, stamp, response,
                   sql, db, envVars, historyVars>>

\* handleHealth and handleMetrics do not wait for anything.
AnswerLocally(r) ==
    /\ \E kind \in LocalKinds : Admitted(r, kind)
    /\ Conclude(r, 200)
    /\ UNCHANGED <<processVars, request, decision, stamp, sql, db, envVars, historyVars>>

-------------------------------------------------------------------------------
(* ApiDatabase: connect, query, release.                                   *)

RunAfter == [connEvidence |-> "runEvidence", connAudit |-> "runAudit", connRead |-> "runRead"]

Release(r) == busy' = busy \ {r}

\* A pool that is ending refuses a new attempt (ConnectFail), but one that was under way
\* when it was ended may still get its connection; the two are not told apart here.
Acquire(r) ==
    /\ pc[r] \in ConnPcs
    /\ Cardinality(busy) < MaxConnections
    /\ busy' = busy \cup {r}
    /\ Goto(r, RunAfter[pc[r]])
    /\ sql' = CASE pc[r] = "connEvidence" -> sql \cup {EvidenceRow(r)}
                [] pc[r] = "connAudit"    -> sql \cup {AuditRow(r)}
                [] OTHER                  -> sql
    /\ UNCHANGED <<phase, rules, rateLimitStore, serverVars, request, decision, stamp,
                   response, db, envVars, historyVars>>

\* A database error ends in the catch; healthCheck has its own, and /ready says 503.
Fail(r) == IF request[r].kind = "ready" THEN Conclude(r, 503) ELSE AnswerError(r)

\* connectionTimeoutMillis, a refused connection, or a pool that was ended.
ConnectFail(r) ==
    /\ pc[r] \in ConnPcs
    /\ DbFaults \/ phase = "ending" \/ Cardinality(busy) >= MaxConnections
    /\ Fail(r)
    /\ UNCHANGED <<processVars, request, decision, stamp, sql, db, envVars, historyVars>>

Commit(row) ==
    /\ row \in sql
    /\ Storable(row)
    /\ sql' = sql \ {row}
    /\ db' = db \cup {row}
    /\ UNCHANGED <<processVars, serverVars, requestVars, envVars, historyVars>>

\* A value of the wrong type, or a fault: the statement has no effect.
Reject(row) ==
    /\ row \in sql
    /\ DbFaults \/ ~ Storable(row)
    /\ sql' = sql \ {row}
    /\ UNCHANGED <<processVars, serverVars, requestVars, db, envVars, historyVars>>

\* request_id and actor_id are compared with what the query names: they are UUID columns.
Readable(r) ==
    /\ request[r].kind = "getEvidence" => request[r].id \in Uuids
    /\ request[r].kind = "adminAudit"  => request[r].query.actorId \in Uuids \cup {None}

\* The reply is an error, or the connection broke while it was awaited.
Refused(r) == IF pc[r] \in InsertPcs
              THEN Statement(r) \notin sql \cup db
              ELSE ~ Readable(r)

\* Mutant: no finally, the connection is not released on an error.
QueryFailLeaking(r) ==
    /\ pc[r] \in RunPcs
    /\ DbFaults \/ Refused(r)
    /\ Fail(r)
    /\ UNCHANGED <<processVars, request, decision, stamp, sql, db, envVars, historyVars>>

QueryFail(r) ==
    /\ pc[r] \in RunPcs
    /\ DbFaults \/ Refused(r)
    /\ Release(r)
    /\ Fail(r)
    /\ UNCHANGED <<phase, rules, rateLimitStore, request, decision, stamp, sql, db,
                   envVars, historyVars>>

\* Mutant: storeEvidence is not awaited.
EvidenceNotAwaited(r) ==
    /\ pc[r] = "runEvidence"
    /\ Release(r)
    /\ stamp' = [stamp EXCEPT ![r].audit = now]
    /\ Goto(r, "connAudit")
    /\ UNCHANGED <<phase, rules, rateLimitStore, serverVars, request, decision, response,
                   sql, db, envVars, historyVars>>

EvidenceStored(r) ==
    /\ pc[r] = "runEvidence"
    /\ EvidenceRow(r) \in db
    /\ Release(r)
    /\ stamp' = [stamp EXCEPT ![r].audit = now]
    /\ Goto(r, "connAudit")
    /\ UNCHANGED <<phase, rules, rateLimitStore, serverVars, request, decision, response,
                   sql, db, envVars, historyVars>>

SuccessStatus(r) ==
    CASE request[r].kind = "createRule" -> 201
      [] request[r].kind = "deleteRule" -> 204
      [] OTHER -> IF decision[r] = "deny" THEN 403 ELSE 200

\* Mutant: storeAuditEvent is not awaited.
AuditNotAwaited(r) ==
    /\ pc[r] = "runAudit"
    /\ Release(r)
    /\ Finish(r, SuccessStatus(r), decision[r], {})
    /\ UNCHANGED <<phase, rules, rateLimitStore, request, decision, stamp, sql, db,
                   envVars, historyVars>>

AuditStored(r) ==
    /\ pc[r] = "runAudit"
    /\ AuditRow(r) \in db
    /\ Release(r)
    /\ Finish(r, SuccessStatus(r), decision[r], {})
    /\ UNCHANGED <<phase, rules, rateLimitStore, request, decision, stamp, sql, db,
                   envVars, historyVars>>

\* Mutant: ORDER BY timestamp ASC.
OldestEvidence(id) ==
    LET rows == { row \in EvidenceRows : row.id = id }
    IN  { row \in rows : \A other \in rows : other.stamp >= row.stamp }

\* ORDER BY timestamp DESC LIMIT 1: any of the rows with the latest timestamp.
LatestEvidence(id) ==
    LET rows == { row \in EvidenceRows : row.id = id }
    IN  { row \in rows : \A other \in rows : other.stamp <= row.stamp }

ReadDone(r, kind, status, rows) ==
    /\ pc[r] = "runRead"
    /\ request[r].kind = kind
    /\ Release(r)
    /\ Finish(r, status, None, rows)
    /\ UNCHANGED <<phase, rules, rateLimitStore, request, decision, stamp, sql, db,
                   envVars, historyVars>>

EvidenceFound(r) ==
    /\ pc[r] = "runRead" /\ Readable(r)
    /\ \E row \in LatestEvidence(request[r].id) : ReadDone(r, "getEvidence", 200, {row})

EvidenceNotFound(r) ==
    /\ pc[r] = "runRead" /\ Readable(r)
    /\ LatestEvidence(request[r].id) = {}
    /\ ReadDone(r, "getEvidence", 404, {})

(***************************************************************************)
(* getAuditEvents: WHERE has a condition for each filter that is given,    *)
(* ORDER BY timestamp DESC leaves rows of one timestamp in any order, and  *)
(* a limit or an offset of 0 puts no clause into the statement.            *)
(***************************************************************************)
Selects(query, row) == /\ query.actorId \in {None, row.actor}
                       /\ query.operation \in {None, row.operation}
                       /\ query.tableName \in {None, row.tableName}

Selected(query) == { row \in AuditRows : Selects(query, row) }

\* Mutant: ORDER BY timestamp ASC, a page begins with the oldest events.
Oldest(rows, n) ==
    { part \in SUBSET rows :
          /\ Cardinality(part) = n \/ (part = rows /\ Cardinality(rows) < n)
          /\ \A row \in part, other \in rows \ part : row.stamp <= other.stamp }

\* The first n of rows in that order, all of them when they are fewer.
Newest(rows, n) ==
    { part \in SUBSET rows :
          /\ Cardinality(part) = n \/ (part = rows /\ Cardinality(rows) < n)
          /\ \A row \in part, other \in rows \ part : row.stamp >= other.stamp }

Skipped(query) == IF query.offset = 0 THEN {{}} ELSE Newest(Selected(query), query.offset)

Pages(query, rows) == IF query.limit = 0 THEN {rows} ELSE Newest(rows, query.limit)

AuditRead(r) ==
    /\ pc[r] = "runRead" /\ Readable(r)
    /\ request[r].kind = "adminAudit"
    /\ \E skipped \in Skipped(request[r].query) :
          \E page \in Pages(request[r].query, Selected(request[r].query) \ skipped) :
             ReadDone(r, "adminAudit", 200, page)

Ready(r) == ReadDone(r, "ready", 200, {})

-------------------------------------------------------------------------------
(* The process: SIGTERM, crash and restart.                                *)

Signal ==
    /\ Signals
    /\ phase = "up"
    /\ phase' = "closing"
    /\ UNCHANGED <<rules, rateLimitStore, busy, serverVars, requestVars, sql, db,
                   envVars, historyVars>>

\* Mutant: db.disconnect() does not wait for server.close().
EndPoolAtOnce ==
    /\ phase = "closing"
    /\ phase' = "ending"
    /\ UNCHANGED <<rules, rateLimitStore, busy, serverVars, requestVars, sql, db,
                   envVars, historyVars>>

\* server.close() has called back: no socket is left, though a handler may go on without
\* one; then db.disconnect().
EndPool ==
    /\ phase = "closing"
    /\ sockets = {}
    /\ phase' = "ending"
    /\ UNCHANGED <<rules, rateLimitStore, busy, serverVars, requestVars, sql, db,
                   envVars, historyVars>>

\* What a process that ends loses: all that is not in PostgreSQL.
LoseMemory ==
    /\ phase' = "down"
    /\ rules' = DefaultRules
    /\ rateLimitStore' = [ip \in Ips |-> NoEntry]
    /\ busy' = {}
    /\ requestsTotal' = 0
    /\ requestsByStatus' = [s \in Statuses |-> 0]
    /\ activeConnections' = 0
    /\ sockets' = {}
    /\ pc' = [r \in Reqs |-> IF r \in InFlight THEN "lost" ELSE pc[r]]
    /\ UNCHANGED <<request, decision, stamp, response, sql, db, envVars, historyVars>>

\* pool.end() resolves when every connection has been released; then process.exit(0).
Exit ==
    /\ phase = "ending"
    /\ busy = {}
    /\ LoseMemory

Crash == phase # "down" /\ LoseMemory

Restart ==
    /\ phase = "down"
    /\ boot < MaxBoot
    /\ phase' = "up"
    /\ boot' = boot + 1
    /\ UNCHANGED <<rules, rateLimitStore, busy, serverVars, requestVars, sql, db,
                   now, historyVars>>

Tick ==
    /\ now < MaxTime
    /\ now' = now + 1
    /\ UNCHANGED <<processVars, serverVars, requestVars, sql, db, boot, historyVars>>

\* The handler is not told: nothing in the code listens for the end of a socket.
Disconnect(r) ==
    /\ Disconnects
    /\ r \in sockets
    /\ sockets' = sockets \ {r}
    /\ UNCHANGED <<processVars, requestsTotal, requestsByStatus, activeConnections,
                   requestVars, sql, db, envVars, historyVars>>

-------------------------------------------------------------------------------
Admission(r) == NotFound(r) \/ Dispatch(r) \/ LimitRate(r)
Handler(r)   == \/ Unauthenticated(r) \/ Forbidden(r) \/ HandlerThrows(r)
                \/ StartEvaluate(r) \/ StartCreateRule(r) \/ StartDeleteRule(r)
                \/ StartRead(r) \/ AnswerLocally(r)
Connect(r)   == Acquire(r) \/ ConnectFail(r)
Reply(r)     == \/ QueryFail(r) \/ EvidenceStored(r) \/ AuditStored(r)
                \/ EvidenceFound(r) \/ EvidenceNotFound(r) \/ AuditRead(r) \/ Ready(r)

Next ==
    \/ \E r \in Reqs : \/ \E q \in Inputs : Receive(r, q)
                       \/ BodyComplete(r) \/ RejectBody(r)
                       \/ Admission(r) \/ Handler(r) \/ Connect(r) \/ Reply(r)
                       \/ Disconnect(r)
    \/ \E row \in sql : Commit(row) \/ Reject(row)
    \/ Signal \/ EndPool \/ Exit \/ Crash \/ Restart \/ Tick

Spec == Init /\ [][Next]_vars

(***************************************************************************)
(* Fairness.  parseBody has a timer of 5 seconds, a microtask always runs, *)
(* the pool gives a connection or its timer fires, and the driver gets a   *)
(* reply, or an error of its connection, to a statement PostgreSQL has     *)
(* executed.  Nothing is assumed of clients (a body may never be complete),*)
(* of signals or of crashes.                                               *)
(***************************************************************************)
FairSpec ==
    /\ Spec
    /\ \A r \in Reqs : /\ WF_vars(RejectBody(r)) /\ WF_vars(Admission(r))
                       /\ WF_vars(Handler(r)) /\ WF_vars(Connect(r)) /\ WF_vars(Reply(r))
                       /\ WF_vars(\E row \in sql : row.by = r /\ (Commit(row) \/ Reject(row)))
    /\ WF_vars(EndPool) /\ WF_vars(Exit)

===============================================================================
