------------------------------ MODULE Middleware ------------------------------
(***************************************************************************)
(* The middleware of packages/middleware-engine/src: the HTTP server       *)
(* (server.ts), the pipeline of layers (orchestrator.ts), the policy layer *)
(* with its cache, the evidence layer with its store and the audit layer   *)
(* with its write buffer.                                                  *)
(*                                                                         *)
(* Every layer works in memory, so a request waits for nothing but its     *)
(* body and the microtasks of its own awaits.  Requests that arrive        *)
(* together interleave at those awaits: after the authentication, after    *)
(* the evaluation and after the hash of an audit event.  An action is the  *)
(* code between two of them.                                               *)
(***************************************************************************)
EXTENDS RateLimit, Sequences, FiniteSets, Integers, TLC

CONSTANTS
    Reqs,            \* the HTTP requests of a behaviour, each sent once
    Inputs,          \* what a request may carry, see the assumption below
    ReqIds,          \* ids a client gives its evaluations, and asks evidence of
    Tenants, Sectors, Intents, RuleIds, Ips,
    Tokens,          \* bearer tokens
    None,            \* no value
    CacheTtl,        \* policy.cacheTtlMs, in ticks
    BatchSize,       \* audit.batchSize
    FailClosed,      \* orchestrator failClosed
    DefaultEffect,   \* policy.defaultEffect
    EvidenceFaults,  \* whether createEvidence may throw (no usable signing key)
    MaxTime          \* bound: ticks of the clock

AdminKinds == {"createRule", "updateRule", "deleteRule", "adminAudit"}
BodyKinds  == {"evaluate", "retrieve", "createRule", "updateRule"}
Kinds      == BodyKinds \cup AdminKinds \cup {"getEvidence", "stateless", "unknown"}

Effects   == {"allow", "deny"}
Decisions == {"ALLOW", "DENY", "REVIEW"}

\* The body of an administrator: a field may be missing, an effect may be no effect;
\* '*' is a sector or an action that matches any.
Body == [id : RuleIds, sector : Sectors \cup {"*", None}, action : Intents \cup {"*", None},
         effect : Effects \cup {"invalid", None}]

(***************************************************************************)
(* Evaluations and inferences (the same code) carry what the first two     *)
(* layers make of them: whether the credentials are accepted, the tenant,  *)
(* the sector, the intent and whether the sensitivity is critical.  A body *)
(* is malformed when its handler throws on it: it is null, or it has a     *)
(* field that toString() cannot turn into a string.                        *)
(***************************************************************************)
ASSUME MiddlewareAssumption ==
    /\ Inputs \subseteq [kind : Kinds, ip : Ips, token : Tokens \cup {None}, id : ReqIds,
                         authentic : BOOLEAN, critical : BOOLEAN, tenant : Tenants,
                         sector : Sectors, intent : Intents, rule : Body, malformed : BOOLEAN]
    /\ CacheTtl \in Nat /\ BatchSize \in Nat \ {0} /\ MaxTime \in Nat
    /\ {FailClosed, EvidenceFaults} \subseteq BOOLEAN
    /\ DefaultEffect \in Effects
    /\ IsFiniteSet(Reqs)
    /\ None \notin Inputs \cup [by : Reqs, decision : Decisions]

VARIABLES
    \* the server
    rateLimitStore, adminTokens, requestsTotal, requestsByStatus, activeConnections,
    \* the layers
    store,      \* tenant -> its rules, for the tenants that had a rule
    cache,      \* <<tenant, sector, intent>> -> rules and expiry
    evidence,   \* request id -> the evidence record stored last, None
    buffer,     \* audit events accepted and not yet persisted
    events,     \* audit events persisted
    \* the requests
    pc, request, loaded, decision, pending, response,
    \* the clock
    now,
    \* history
    inForce,    \* the stores there have been, with the time
    loadedAt    \* r -> when r loaded its policies, -1 if it has not

serverVars  == <<rateLimitStore, adminTokens, requestsTotal, requestsByStatus, activeConnections>>
metricVars  == <<requestsTotal, requestsByStatus, activeConnections>>
policyVars  == <<store, cache, inForce>>
auditVars   == <<buffer, events>>
requestVars == <<pc, request, loaded, decision, pending, response, loadedAt>>
vars == <<serverVars, policyVars, evidence, auditVars, requestVars, now>>

Statuses == {200, 201, 204, 400, 403, 404, 429, 500}

NoResponse == [status |-> 0, decision |-> None, rows |-> {}]
Uncached   == [rules |-> {}, expiresAt |-> -1]

-------------------------------------------------------------------------------
Init ==
    /\ rateLimitStore = [ip \in Ips |-> NoEntry]
    /\ adminTokens = [t \in Tokens |-> -1]
    /\ requestsTotal = 0
    /\ requestsByStatus = [s \in Statuses |-> 0]
    /\ activeConnections = 0
    /\ store = <<>>
    /\ cache = [key \in Tenants \X Sectors \X Intents |-> Uncached]
    /\ evidence = [id \in ReqIds |-> None]
    /\ buffer = <<>>
    /\ events = <<>>
    /\ pc = [r \in Reqs |-> "idle"]
    /\ request = [r \in Reqs |-> None]
    /\ loaded = [r \in Reqs |-> {}]
    /\ decision = [r \in Reqs |-> None]
    /\ pending = [r \in Reqs |-> None]
    /\ response = [r \in Reqs |-> NoResponse]
    /\ now = 0
    /\ inForce = {[at |-> 0, store |-> store]}
    /\ loadedAt = [r \in Reqs |-> -1]

Goto(r, label) == pc' = [pc EXCEPT ![r] = label]

Respond(r, status, decided, rows) ==
    /\ Goto(r, "done")
    /\ response' = [response EXCEPT ![r] =
                        [status |-> status, decision |-> decided, rows |-> rows]]
    /\ activeConnections' = activeConnections - 1
    /\ UNCHANGED requestsTotal

\* The end of handleRequest; a 429 of the middleware is recorded as well.
Finish(r, status, decided, rows) ==
    /\ Respond(r, status, decided, rows)
    /\ requestsByStatus' = [requestsByStatus EXCEPT ![status] = @ + 1]

Conclude(r, status) == Finish(r, status, None, {})

-------------------------------------------------------------------------------
(* handleRequest.                                                          *)

Receive(r, q) ==
    /\ pc[r] = "idle"
    /\ requestsTotal' = requestsTotal + 1
    /\ activeConnections' = activeConnections + 1
    /\ request' = [request EXCEPT ![r] = q]
    /\ Goto(r, IF q.kind \in BodyKinds THEN "body" ELSE "ready")
    /\ UNCHANGED <<rateLimitStore, adminTokens, requestsByStatus, policyVars, evidence, auditVars,
                   loaded, decision, pending, response, loadedAt, now>>

BodyComplete(r) ==
    /\ pc[r] = "body"
    /\ Goto(r, "ready")
    /\ UNCHANGED <<serverVars, policyVars, evidence, auditVars, request, loaded, decision, pending,
                   response, loadedAt, now>>

\* The early return for a bad body does not go through recordMetrics.
RejectBody(r) ==
    /\ pc[r] = "body"
    /\ Respond(r, 400, None, {})
    /\ UNCHANGED <<rateLimitStore, adminTokens, requestsByStatus, policyVars, evidence, auditVars,
                   request, loaded, decision, pending, loadedAt, now>>

NotFound(r) ==
    /\ pc[r] = "ready"
    /\ request[r].kind = "unknown"
    /\ Conclude(r, 404)
    /\ UNCHANGED <<rateLimitStore, adminTokens, policyVars, evidence, auditVars, request, loaded,
                   decision, pending, loadedAt, now>>

\* verifyAdminToken; createAuthToken gives a token an expiry.
ValidToken(t) == t \in Tokens /\ now <= adminTokens[t]

IsAdminRoute(r) == request[r].kind \in AdminKinds

\* The administrator is checked before the rate is; an expired token is dropped.
AdminRefused(r) ==
    /\ pc[r] = "ready"
    /\ IsAdminRoute(r)
    /\ ~ ValidToken(request[r].token)
    /\ adminTokens' = [adminTokens EXCEPT ![request[r].token] = -1]
    /\ Conclude(r, 403)
    /\ UNCHANGED <<rateLimitStore, policyVars, evidence, auditVars, request, loaded, decision,
                   pending, loadedAt, now>>

Counted(r) == Count(rateLimitStore[request[r].ip], IsAdminRoute(r), now)

Reaches(r) ==
    /\ pc[r] = "ready"
    /\ request[r].kind # "unknown"
    /\ IsAdminRoute(r) => ValidToken(request[r].token)
    /\ rateLimitStore' = [rateLimitStore EXCEPT ![request[r].ip] = Counted(r)]
    /\ UNCHANGED adminTokens

LimitRate(r) ==
    /\ Reaches(r)
    /\ ~ Within(Counted(r), IsAdminRoute(r))
    /\ Conclude(r, 429)
    /\ UNCHANGED <<policyVars, evidence, auditVars, request, loaded, decision, pending, loadedAt,
                   now>>

Handles(r, kind) ==
    /\ Reaches(r)
    /\ Within(Counted(r), IsAdminRoute(r))
    /\ request[r].kind = kind

-------------------------------------------------------------------------------
(* The policy layer.  A tenant's rules are a set: the order of the list    *)
(* only chooses which deny is named in the answer.  What cachePolicies()   *)
(* writes under the bare tenant is never read by loadPolicies(), whose     *)
(* keys have a sector and an action; so a stored or deleted rule leaves    *)
(* the entries below as they are.                                          *)

DefaultPolicies == {[id |-> "default-deny", sector |-> "*", action |-> "*",
                     effect |-> DefaultEffect]}

Applicable(stores, key) ==
    LET all == IF key[1] \in DOMAIN stores THEN stores[key[1]] ELSE DefaultPolicies
    IN  { rule \in all : rule.sector \in {"*", key[2]} /\ rule.action \in {"*", key[3]} }

KeyOf(r) == <<request[r].tenant, request[r].sector, request[r].intent>>

\* Mutant: one tick too long.
FreshAtExpiry(entry) == now <= entry.expiresAt

Fresh(entry) == now < entry.expiresAt

LoadPolicies(key) == IF Fresh(cache[key]) THEN cache[key].rules ELSE Applicable(store, key)

\* A miss makes a new entry, a hit leaves the entry.
CachePolicies(key) ==
    cache' = IF Fresh(cache[key]) THEN cache
             ELSE [cache EXCEPT ![key] = [rules |-> LoadPolicies(key), expiresAt |-> now + CacheTtl]]

Rules(tenant) == IF tenant \in DOMAIN store THEN store[tenant] ELSE {}

Stored(tenant, rule) == { x \in Rules(tenant) : x.id # rule.id } \cup {rule}

SetRules(tenant, rules) ==
    /\ store' = (tenant :> rules) @@ store
    /\ inForce' = inForce \cup {[at |-> now, store |-> store']}
    /\ UNCHANGED cache

-------------------------------------------------------------------------------
(* The audit layer.  recordEvent() awaits the hash before it buffers, so   *)
(* an event is pending until then.                                         *)

Event(r, action, result) == [by |-> r, action |-> action, result |-> result]

Await(r, event) ==
    /\ Goto(r, "audit")
    /\ pending' = [pending EXCEPT ![r] = event]

\* Mutant: the batch is taken before the new event is in the buffer.
RecordAfterFlush(event) ==
    IF Len(buffer) + 1 >= BatchSize
    THEN events' = events \o buffer /\ buffer' = <<event>>
    ELSE buffer' = Append(buffer, event) /\ UNCHANGED events

\* Mutant: a full batch overwrites the log.
RecordDropping(event) ==
    IF Len(buffer) + 1 >= BatchSize
    THEN events' = Append(buffer, event) /\ buffer' = <<>>
    ELSE buffer' = Append(buffer, event) /\ UNCHANGED events

RecordEvent(event) ==
    IF Len(buffer) + 1 >= BatchSize
    THEN events' = events \o Append(buffer, event) /\ buffer' = <<>>
    ELSE buffer' = Append(buffer, event) /\ UNCHANGED events

\* Mutant: the timer does not fire.
FlushNever == FALSE

\* The flush timer.
Flush ==
    /\ buffer # <<>>
    /\ events' = events \o buffer
    /\ buffer' = <<>>
    /\ UNCHANGED <<serverVars, policyVars, evidence, requestVars, now>>

-------------------------------------------------------------------------------
(* The administrative handlers.                                            *)

Or(value, default) == IF value = None THEN default ELSE value

Created(body) == [id |-> body.id, sector |-> Or(body.sector, "*"),
                  action |-> Or(body.action, "*"), effect |-> Or(body.effect, "deny")]

Updated(before, body) == [before EXCEPT !.sector = Or(body.sector, @),
                                        !.action = Or(body.action, @),
                                        !.effect = Or(body.effect, @)]

Change(r, tenant, rules, action) ==
    /\ SetRules(tenant, rules)
    /\ Await(r, Event(r, action, "success"))
    /\ UNCHANGED <<metricVars, evidence, auditVars, request, loaded, decision, response, loadedAt,
                   now>>

Refuse(r, status) ==
    /\ Conclude(r, status)
    /\ UNCHANGED <<policyVars, evidence, auditVars, request, loaded, decision, pending, loadedAt,
                   now>>

CreateRule(r) ==
    /\ Handles(r, "createRule")
    /\ ~ request[r].malformed
    /\ LET q == request[r]
           rule == Created(q.rule)
       IN  IF rule.effect \in Effects
           THEN Change(r, q.tenant, Stored(q.tenant, rule), "admin.createRule")
           ELSE Refuse(r, 400)

\* A null body names no tenant, but is looked at only when the rule is known.
UpdateRule(r) ==
    /\ Handles(r, "updateRule")
    /\ LET q == request[r]
           known == { x \in Rules(q.tenant) : x.id = q.rule.id }
       IN  \/ known = {} /\ Refuse(r, 404)
           \/ ~ q.malformed /\ \E before \in known :
                 LET after == Updated(before, q.rule) IN
                 IF after.effect \in Effects
                 THEN Change(r, q.tenant, Stored(q.tenant, after), "admin.updateRule")
                 ELSE Refuse(r, 400)

DeleteRule(r) ==
    /\ Handles(r, "deleteRule")
    /\ LET q == request[r]
           rest == { x \in Rules(q.tenant) : x.id # q.rule.id }
       IN  IF rest = Rules(q.tenant) THEN Refuse(r, 404)
           ELSE Change(r, q.tenant, rest, "admin.deleteRule")

\* handleAdminAudit: what has been persisted; the default limit is beyond the bounds.
AdminAudit(r) ==
    /\ Handles(r, "adminAudit")
    /\ Finish(r, 200, None, { events[i] : i \in DOMAIN events })
    /\ UNCHANGED <<policyVars, evidence, auditVars, request, loaded, decision, pending, loadedAt,
                   now>>

\* health, ready, metrics, state-lookup and retrieve keep no state.
Stateless(r) ==
    \/ Handles(r, "stateless") /\ \E status \in {200, 400} : Refuse(r, status)
    \/ Handles(r, "retrieve") /\ ~ request[r].malformed /\ Refuse(r, 200)

GetEvidence(r) ==
    /\ Handles(r, "getEvidence")
    /\ LET found == evidence[request[r].id]
       IN  IF found = None THEN Conclude(r, 404) ELSE Finish(r, 200, None, {found})
    /\ UNCHANGED <<policyVars, evidence, auditVars, request, loaded, decision, pending, loadedAt,
                   now>>

\* handleError: whatever was asked, the answer to a handler that threw says DENY.
HandlerThrows(r) ==
    /\ \E kind \in BodyKinds : Handles(r, kind)
    /\ request[r].malformed
    /\ Finish(r, 500, "DENY", {})
    /\ UNCHANGED <<policyVars, evidence, auditVars, request, loaded, decision, pending, loadedAt,
                   now>>

-------------------------------------------------------------------------------
(* process(): the pipeline of an evaluation.                               *)

Authenticate(r) ==
    /\ Handles(r, "evaluate")
    /\ ~ request[r].malformed
    /\ Goto(r, "policy")
    /\ UNCHANGED <<metricVars, policyVars, evidence, auditVars, request, loaded, decision, pending,
                   response, loadedAt, now>>

DenyWith(r, action) ==
    /\ decision' = [decision EXCEPT ![r] = "DENY"]
    /\ Await(r, Event(r, action, "DENY"))
    /\ UNCHANGED <<serverVars, store, inForce, evidence, auditVars, request, response, now>>

CriticalDenied(r) == request[r].critical /\ FailClosed

\* Layers 1 and 2: nothing is loaded for what they deny.
DenyEarly(r) ==
    /\ pc[r] = "policy"
    /\ \/ ~ request[r].authentic /\ DenyWith(r, "auth.failure")
       \/ request[r].authentic /\ CriticalDenied(r) /\ DenyWith(r, "classification.critical")
    /\ UNCHANGED <<cache, loaded, loadedAt>>

Load(r) ==
    /\ pc[r] = "policy"
    /\ request[r].authentic
    /\ ~ CriticalDenied(r)
    /\ CachePolicies(KeyOf(r))
    /\ loaded' = [loaded EXCEPT ![r] = LoadPolicies(KeyOf(r))]
    /\ loadedAt' = [loadedAt EXCEPT ![r] = now]

Denies(rules) == \E rule \in rules : rule.effect = "deny"

\* Layer 3: the conditions of a rule are not evaluated, a deny denies.
DenyByPolicy(r) ==
    /\ Load(r)
    /\ Denies(loaded'[r])
    /\ DenyWith(r, "policy.deny")

(***************************************************************************)
(* Layer 4: evaluate() looks at the loaded rules once more.  A deny cannot *)
(* be among them here, so it never answers DENY.                           *)
(***************************************************************************)
EvaluatePolicies(r) ==
    /\ Load(r)
    /\ ~ Denies(loaded'[r])
    /\ decision' = [decision EXCEPT ![r] = IF loaded'[r] # {} THEN "ALLOW" ELSE "REVIEW"]
    /\ Goto(r, "evidence")
    /\ UNCHANGED <<serverVars, store, inForce, evidence, auditVars, request, pending, response, now>>

\* Layers 5 and 6; the store keeps one record for a request id.
CreateEvidence(r) ==
    /\ pc[r] = "evidence"
    /\ evidence' = [evidence EXCEPT ![request[r].id] = [by |-> r, decision |-> decision[r]]]
    /\ Await(r, Event(r, "request.processed", decision[r]))
    /\ UNCHANGED <<serverVars, policyVars, auditVars, request, loaded, decision, response, loadedAt,
                   now>>

\* Mutant: the error is recorded, and the decision taken so far stands.
FailOpen(r) ==
    /\ EvidenceFaults
    /\ pc[r] = "evidence"
    /\ Await(r, Event(r, "orchestrator.error", "ERROR"))
    /\ UNCHANGED <<serverVars, policyVars, evidence, auditVars, request, loaded, decision, response,
                   loadedAt, now>>

\* The catch of process(), or else handleError: a denial, as a 500 answer unless it fails closed.
OrchestratorError(r) ==
    /\ EvidenceFaults
    /\ pc[r] = "evidence"
    /\ decision' = [decision EXCEPT ![r] = "DENY"]
    /\ Await(r, Event(r, "orchestrator.error", "ERROR"))
    /\ UNCHANGED <<serverVars, policyVars, evidence, auditVars, request, loaded, response,
                   loadedAt, now>>

SuccessStatus(r) ==
    CASE request[r].kind = "createRule" -> 201
      [] request[r].kind = "deleteRule" -> 204
      [] request[r].kind = "updateRule" -> 200
      [] pending[r].result = "ERROR" /\ ~ FailClosed -> 500
      [] decision[r] = "DENY" -> 403
      [] OTHER -> 200

\* The event is buffered, and the request answered.
Audit(r) ==
    /\ pc[r] = "audit"
    /\ RecordEvent(pending[r])
    /\ Finish(r, SuccessStatus(r), decision[r], {})
    /\ UNCHANGED <<rateLimitStore, adminTokens, policyVars, evidence, request, loaded, decision,
                   pending, loadedAt, now>>

-------------------------------------------------------------------------------
(* The environment.                                                        *)

\* createAuthToken, called by whoever embeds the middleware; a token is random, so new.
CreateAuthToken(t, expiresAt) ==
    /\ adminTokens[t] = -1
    /\ adminTokens' = [adminTokens EXCEPT ![t] = expiresAt]
    /\ UNCHANGED <<rateLimitStore, metricVars, policyVars, evidence, auditVars, requestVars, now>>

Tick ==
    /\ now < MaxTime
    /\ now' = now + 1
    /\ inForce' = inForce \cup {[at |-> now', store |-> store]}
    /\ UNCHANGED <<serverVars, store, cache, evidence, auditVars, requestVars>>

Start(r) == \/ NotFound(r) \/ AdminRefused(r) \/ LimitRate(r) \/ CreateRule(r)
            \/ UpdateRule(r) \/ DeleteRule(r) \/ AdminAudit(r) \/ Stateless(r)
            \/ GetEvidence(r) \/ HandlerThrows(r) \/ Authenticate(r)
Continue(r) == \/ DenyEarly(r) \/ DenyByPolicy(r) \/ EvaluatePolicies(r)
               \/ CreateEvidence(r) \/ OrchestratorError(r) \/ Audit(r)

Next ==
    \/ \E r \in Reqs : \/ \E q \in Inputs : Receive(r, q)
                       \/ BodyComplete(r) \/ RejectBody(r) \/ Start(r) \/ Continue(r)
    \/ Flush \/ Tick
    \/ \E t \in Tokens : \E expiresAt \in now .. MaxTime : CreateAuthToken(t, expiresAt)

Spec == Init /\ [][Next]_vars

(***************************************************************************)
(* Fairness: parseBody has a timer of 5 seconds, microtasks always run and *)
(* the flush timer keeps firing (flushIntervalMs is positive).             *)
(***************************************************************************)
FairSpec ==
    /\ Spec
    /\ \A r \in Reqs : WF_vars(RejectBody(r)) /\ WF_vars(Start(r)) /\ WF_vars(Continue(r))
    /\ WF_vars(Flush)

===============================================================================
