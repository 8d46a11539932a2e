---------------------------- MODULE MiddlewareProofs ----------------------------
(***************************************************************************)
(* Proofs about Middleware, for every set of requests and inputs, every    *)
(* limit, batch size and cache lifetime, failing closed or not, with a     *)
(* createEvidence that may throw or not.                                   *)
(***************************************************************************)
EXTENDS MiddlewareProperties, FiniteSetTheorems, TLAPS

RuleKinds == {"createRule", "updateRule", "deleteRule"}

Labels == {"idle", "body", "ready", "policy", "evidence", "audit", "done"}

Types ==
    /\ now \in Nat
    /\ pc \in [Reqs -> Labels]
    /\ request \in [Reqs -> Inputs \cup {None}]
    /\ decision \in [Reqs -> Decisions \cup {None}]
    /\ pending \in [Reqs -> EventType \cup {None}]
    /\ loadedAt \in [Reqs -> Nat \cup {-1}]
    /\ DOMAIN loaded = Reqs /\ DOMAIN response = Reqs
    /\ DOMAIN evidence = ReqIds
    /\ buffer \in Seq(EventType) /\ events \in Seq(EventType)

(***************************************************************************)
(* The policy layer: every rule set in use, cached or loaded, is what a    *)
(* store there has been made of it, and a cached one expires one CacheTtl  *)
(* after that store.                                                       *)
(***************************************************************************)
PolicyFits ==
    /\ \A past \in inForce : past.at \in Nat
    /\ \E past \in inForce : past.at = now /\ past.store = store
    /\ DOMAIN cache = Tenants \X Sectors \X Intents
    /\ \A key \in DOMAIN cache :
          \/ cache[key].expiresAt = -1
          \/ \E past \in inForce : /\ cache[key].rules = Applicable(past.store, key)
                                   /\ past.at <= now
                                   /\ cache[key].expiresAt = past.at + CacheTtl

\* What the first three layers let through.
Passed(r) ==
    /\ request[r].kind = "evaluate" /\ request[r].authentic
    /\ ~ (request[r].critical /\ FailClosed)
    /\ ~ Denies(loaded[r])

Permitted(r) == decision[r] \in {"ALLOW", "REVIEW"}

\* A request on its way; its event, when it waits to be buffered, agrees with the decision.
RequestFits(r) ==
    /\ pc[r] = "idle" => loadedAt[r] = -1
    /\ pc[r] # "idle" => request[r] \in Inputs
    /\ loadedAt[r] # -1 => pc[r] # "idle" /\ loadedAt[r] <= now
    /\ pc[r] \in {"idle", "body", "ready"} => decision[r] = None
    /\ pc[r] = "policy" => request[r].kind = "evaluate"
    /\ pc[r] = "evidence" => Passed(r) /\ Permitted(r)
    /\ pc[r] = "audit" =>
          /\ pending[r] \in EventType /\ pending[r].by = r
          /\ \/ /\ request[r].kind \in RuleKinds /\ decision[r] = None
                /\ pending[r].result = "success"
             \/ /\ request[r].kind = "evaluate" /\ decision[r] = "DENY"
                /\ pending[r].result \in {"DENY", "ERROR"}
             \/ /\ Passed(r) /\ Permitted(r) /\ evidence[request[r].id] # None
                /\ pending[r].result = decision[r]

\* The log: one event of a request at most, and only when it has been answered.
LogFits ==
    /\ \A i, j \in DOMAIN Log : Log[i].by = Log[j].by => i = j
    /\ \A i \in DOMAIN Log : Answered(Log[i].by)

\* An answer: what the log and the layers have to say of it.
AnswerFits(r) ==
    /\ Told(r) /\ ~ Thrown(r) => \E i \in DOMAIN Log :
          /\ Log[i].by = r
          /\ \/ Log[i].result = response[r].decision
             \/ Log[i].result = "ERROR" /\ response[r].decision = "DENY"
    /\ Changed(r) => \E i \in DOMAIN Log : Log[i].by = r /\ Log[i].result = "success"
    /\ Told(r) /\ response[r].decision # "DENY" =>
          Passed(r) /\ evidence[request[r].id] # None /\ response[r].status = 200

IndInv ==
    /\ Types /\ PolicyFits /\ PoliciesRecent /\ LogFits
    /\ \A r \in Reqs : RequestFits(r) /\ AnswerFits(r)

-------------------------------------------------------------------------------
(* What a step of one request leaves to the others.                        *)

\* A request that a step does not touch keeps what it had: evidence and log only grow.
LEMMA KeepFit ==
    ASSUME NEW q \in Reqs, RequestFits(q), AnswerFits(q),
           now \in Nat, now' \in Nat, now <= now', loadedAt[q] \in Nat \cup {-1},
           pc'[q] = pc[q], request'[q] = request[q], loaded'[q] = loaded[q],
           decision'[q] = decision[q], pending'[q] = pending[q], response'[q] = response[q],
           loadedAt'[q] = loadedAt[q],
           evidence[request[q].id] # None => evidence'[request[q].id] # None,
           \A i \in DOMAIN Log : i \in DOMAIN Log' /\ Log'[i] = Log[i]
    PROVE  RequestFits(q)' /\ AnswerFits(q)'
<1>1. RequestFits(q)'
  BY DEF RequestFits, Passed, Permitted
<1>2. AnswerFits(q)'
  BY DEF AnswerFits, Told, Thrown, Changed, Answered, Passed
<1>3. QED
  BY <1>1, <1>2

\* Rules that have been loaded stay explained as more stores come into force.
LEMMA PoliciesKept ==
    ASSUME PoliciesRecent, inForce \subseteq inForce',
           \A q \in Reqs : loadedAt'[q] # -1 =>
               /\ loadedAt'[q] = loadedAt[q] /\ loaded'[q] = loaded[q] /\ request'[q] = request[q]
    PROVE  PoliciesRecent'
BY DEF PoliciesRecent, KeyOf, Applicable, DefaultPolicies

LEMMA PolicyKept ==
    ASSUME PolicyFits, UNCHANGED policyVars, now' = now
    PROVE  PolicyFits'
BY DEF PolicyFits, policyVars, Applicable, DefaultPolicies

LEMMA LogKept ==
    ASSUME LogFits, Log' = Log, \A q \in Reqs : Answered(q) => Answered(q)',
           \A i \in DOMAIN Log : Log[i].by \in Reqs
    PROVE  LogFits'
BY DEF LogFits, Answered

LEMMA LogTypes ==
    ASSUME Types
    PROVE  Log \in Seq(EventType) /\ \A i \in DOMAIN Log : Log[i] \in EventType /\ Log[i].by \in Reqs
<1>1. Log \in Seq(EventType)
  BY DEF Types, Log
<1>2. \A i \in DOMAIN Log : Log[i] \in EventType
  BY <1>1
<1>3. QED
  BY <1>1, <1>2 DEF EventType

-------------------------------------------------------------------------------
(* The kinds of steps a request takes.                                     *)

\* What an answer may say of a decision that no layer has taken.
SaysNoMore(r, status, decided) ==
    decided # None => decided = "DENY" /\ request[r].malformed /\ status = 500

\* An answer of a handler or of the server that took no decision; it says DENY when
\* the handler threw.
LEMMA AnswerWithout ==
    ASSUME IndInv, NEW r \in Reqs, pc[r] \in {"body", "ready"}, NEW status, NEW rows, NEW decided,
           Respond(r, status, decided, rows),
           SaysNoMore(r, status, decided),
           status \in {200, 201, 204} => request[r].kind \notin RuleKinds,
           UNCHANGED <<policyVars, evidence, auditVars, request, loaded, decision, pending, loadedAt, now>>
    PROVE  IndInv'
<1>0. /\ Goto(r, "done")
      /\ response' = [response EXCEPT ![r] = [status |-> status, decision |-> decided, rows |-> rows]]
  BY DEF Respond
<1>1. Types'
  BY <1>0 DEF IndInv, Types, Goto, Labels, auditVars
<1>2. Log' = Log
  BY DEF Log, auditVars
<1>3. PolicyFits'
  BY PolicyKept DEF IndInv
<1>4. PoliciesRecent'
  BY PoliciesKept DEF IndInv, policyVars
<1>5. LogFits'
  BY <1>0, <1>2, LogKept, LogTypes DEF IndInv, Goto, Answered, Types
<1>6. ASSUME NEW q \in Reqs, q # r PROVE RequestFits(q)' /\ AnswerFits(q)'
  BY <1>0, <1>2, <1>6, KeepFit DEF IndInv, Types, Goto
<1>7. RequestFits(r)' /\ AnswerFits(r)'
  <2>1. pc'[r] = "done" /\ response'[r].decision = decided /\ response'[r].status = status
    BY <1>0 DEF IndInv, Types, Goto
  <2>2. RequestFits(r)'
    BY <2>1 DEF IndInv, RequestFits
  <2>3. AnswerFits(r)'
    BY <2>1 DEF IndInv, AnswerFits, Told, Thrown, Changed, RuleKinds, SaysNoMore
  <2>4. QED
    BY <2>2, <2>3
<1>8. QED
  BY <1>1, <1>3, <1>4, <1>5, <1>6, <1>7 DEF IndInv

LEMMA AnswerNothing ==
    ASSUME IndInv, NEW r \in Reqs, pc[r] \in {"body", "ready"}, NEW status, NEW rows,
           Respond(r, status, None, rows),
           status \in {200, 201, 204} => request[r].kind \notin RuleKinds,
           UNCHANGED <<policyVars, evidence, auditVars, request, loaded, decision, pending, loadedAt, now>>
    PROVE  IndInv'
<1>1. SaysNoMore(r, status, None)
  BY DEF SaysNoMore
<1>2. QED
  BY <1>1, AnswerWithout, Zenon

\* The server takes a request up, reads its body and checks its administrator and its rate.
LEMMA MoveOn ==
    ASSUME IndInv, NEW r \in Reqs, NEW label \in {"body", "ready", "policy"}, Goto(r, label),
           pc[r] \in {"idle", "body", "ready"}, NEW q \in Inputs,
           request' = [request EXCEPT ![r] = q], pc[r] # "idle" => q = request[r],
           label = "policy" => q.kind = "evaluate",
           UNCHANGED <<policyVars, evidence, auditVars, loaded, decision, pending, response, loadedAt, now>>
    PROVE  IndInv'
<1>1. Types'
  BY DEF IndInv, Types, Goto, Labels, auditVars
<1>2. Log' = Log
  BY DEF Log, auditVars
<1>3. PolicyFits'
  BY PolicyKept DEF IndInv
<1>0. RequestFits(r)
  BY DEF IndInv
<1>4. PoliciesRecent'
  <2>1. \A p \in Reqs : loadedAt[p] # -1 => request'[p] = request[p]
    BY <1>0 DEF IndInv, Types, RequestFits
  <2>2. QED
    BY <2>1, PoliciesKept DEF IndInv, policyVars
<1>5. LogFits'
  BY <1>2, LogKept, LogTypes DEF IndInv, Goto, Answered, Types
<1>6. ASSUME NEW p \in Reqs, p # r PROVE RequestFits(p)' /\ AnswerFits(p)'
  BY <1>2, <1>6, KeepFit DEF IndInv, Types, Goto
<1>7. RequestFits(r)' /\ AnswerFits(r)'
  <2>1. pc'[r] = label /\ request'[r] = q
    BY DEF IndInv, Types, Goto
  <2>2. RequestFits(r)'
    BY <1>0, <2>1 DEF RequestFits
  <2>3. AnswerFits(r)'
    BY <2>1 DEF AnswerFits, Told, Thrown, Changed, Answered
  <2>4. QED
    BY <2>2, <2>3
<1>8. QED
  BY <1>1, <1>3, <1>4, <1>5, <1>6, <1>7 DEF IndInv

\* A rule is stored, changed or deleted; the entries of the cache stay.
LEMMA ChangeStep ==
    ASSUME IndInv, NEW r \in Reqs, pc[r] = "ready", request[r].kind \in RuleKinds,
           NEW tenant, NEW rules,
           NEW action \in {"admin.createRule", "admin.updateRule", "admin.deleteRule"},
           Change(r, tenant, rules, action)
    PROVE  IndInv'
<1>0. /\ Goto(r, "audit") /\ inForce' = inForce \cup {[at |-> now, store |-> store']}
      /\ pending' = [pending EXCEPT ![r] = Event(r, action, "success")]
      /\ UNCHANGED <<cache, evidence, auditVars, request, loaded, decision, response, loadedAt, now>>
  BY DEF Change, SetRules, Await
<1>1. PICK e \in EventType : e = Event(r, action, "success")
  BY DEF Event, EventType
<1>2. Types'
  BY <1>0, <1>1 DEF IndInv, Types, Goto, Labels, auditVars
<1>3. Log' = Log
  BY <1>0 DEF Log, auditVars
<1>4. PolicyFits'
  <2>1. PICK new : new = [at |-> now, store |-> store']
    OBVIOUS
  <2>2. new \in inForce' /\ inForce \subseteq inForce' /\ new.at = now /\ new.store = store'
    BY <1>0, <2>1
  <2>3. now \in Nat /\ \A past \in inForce' : past.at \in Nat
    BY <1>0 DEF IndInv, Types, PolicyFits
  <2>4. QED
    BY <1>0, <2>2, <2>3 DEF IndInv, PolicyFits, Applicable, DefaultPolicies
<1>5. PoliciesRecent'
  BY <1>0, PoliciesKept DEF IndInv
<1>6. LogFits'
  BY <1>0, <1>3, LogKept, LogTypes DEF IndInv, Goto, Answered, Types
<1>7. ASSUME NEW p \in Reqs, p # r PROVE RequestFits(p)' /\ AnswerFits(p)'
  BY <1>0, <1>3, <1>7, KeepFit, SMTT(30) DEF IndInv, Types, Goto
<1>8. RequestFits(r)' /\ AnswerFits(r)'
  <2>1. pc'[r] = "audit" /\ pending'[r] = e /\ e.by = r /\ e.result = "success"
    BY <1>0, <1>1 DEF IndInv, Types, Goto, Event
  <2>2. RequestFits(r)'
    BY <1>0, <2>1 DEF IndInv, RequestFits
  <2>3. AnswerFits(r)'
    BY <2>1 DEF AnswerFits, Told, Thrown, Changed, Answered
  <2>4. QED
    BY <2>2, <2>3
<1>9. QED
  BY <1>2, <1>4, <1>5, <1>6, <1>7, <1>8 DEF IndInv

(***************************************************************************)
(* loadPolicies(): what it returns, from the cache or from the store, is   *)
(* what a store less than one CacheTtl old says; what it writes into the   *)
(* cache expires one CacheTtl after the store it was made of.              *)
(***************************************************************************)
LEMMA LoadStep ==
    ASSUME IndInv, NEW r \in Reqs, Load(r), UNCHANGED <<store, inForce, request, now>>
    PROVE  /\ PolicyFits' /\ PoliciesRecent'
           /\ loadedAt'[r] = now /\ loadedAt' \in [Reqs -> Nat \cup {-1}]
           /\ DOMAIN loaded' = Reqs
           /\ \A q \in Reqs \ {r} : loaded'[q] = loaded[q] /\ loadedAt'[q] = loadedAt[q]
<1>1. /\ loaded' = [loaded EXCEPT ![r] = LoadPolicies(KeyOf(r))]
      /\ loadedAt' = [loadedAt EXCEPT ![r] = now] /\ CachePolicies(KeyOf(r)) /\ pc[r] = "policy"
  BY DEF Load
<1>2. /\ loadedAt'[r] = now /\ loadedAt' \in [Reqs -> Nat \cup {-1}]
      /\ DOMAIN loaded' = Reqs /\ loaded'[r] = LoadPolicies(KeyOf(r))
      /\ \A q \in Reqs \ {r} : loaded'[q] = loaded[q] /\ loadedAt'[q] = loadedAt[q]
  BY <1>1 DEF IndInv, Types
<1>3. PICK key : key = KeyOf(r)
  OBVIOUS
<1>4. key \in DOMAIN cache
  <2>1. request[r] \in Inputs
    BY <1>1 DEF IndInv, RequestFits
  <2>2. request[r].tenant \in Tenants /\ request[r].sector \in Sectors /\ request[r].intent \in Intents
    BY <2>1, MiddlewareAssumption
  <2>3. QED
    BY <1>3, <2>2 DEF KeyOf, IndInv, PolicyFits
<1>5. PICK present \in inForce : present.at = now /\ present.store = store
  BY DEF IndInv, PolicyFits
<1>6. now \in Nat /\ CacheTtl \in Nat
  BY MiddlewareAssumption DEF IndInv, Types
<1>7. CASE Fresh(cache[key])
  <2>1. loaded'[r] = cache[key].rules /\ cache' = cache
    BY <1>1, <1>2, <1>3, <1>7 DEF LoadPolicies, CachePolicies
  <2>2. PICK seen \in inForce : /\ cache[key].rules = Applicable(seen.store, key)
                                /\ seen.at <= now /\ now < seen.at + CacheTtl
    BY <1>4, <1>6, <1>7 DEF Fresh, IndInv, PolicyFits
  <2>3. PolicyFits'
    BY <2>1 DEF IndInv, PolicyFits, Applicable, DefaultPolicies
  <2>4. PoliciesRecent'
    <3>1. ASSUME NEW q \in Reqs, loadedAt'[q] # -1
          PROVE  (\E past \in inForce : /\ loaded[q] = Applicable(past.store, KeyOf(q))
                                        /\ past.at <= loadedAt[q]
                                        /\ past.at = loadedAt[q] \/ loadedAt[q] < past.at + CacheTtl)'
      <4>1. PICK old \in inForce : /\ loaded'[q] = Applicable(old.store, KeyOf(q))
                                   /\ old.at <= loadedAt'[q]
                                   /\ old.at = loadedAt'[q] \/ loadedAt'[q] < old.at + CacheTtl
        <5>1. CASE q = r
          BY <1>2, <1>3, <2>1, <2>2, <5>1
        <5>2. CASE q # r
          BY <1>2, <3>1, <5>2 DEF IndInv, PoliciesRecent
        <5>3. QED
          BY <5>1, <5>2
      <4>2. loaded'[q] = Applicable(old.store, KeyOf(q))' /\ inForce' = inForce
        BY <4>1 DEF KeyOf, Applicable, DefaultPolicies
      <4>3. QED
        BY <4>1, <4>2
    <3>2. QED
      BY <3>1 DEF PoliciesRecent
  <2>5. QED
    BY <1>2, <2>3, <2>4
<1>8. CASE ~ Fresh(cache[key])
  <2>1. PICK rules : rules = Applicable(store, key)
    OBVIOUS
  <2>2. loaded'[r] = rules /\ cache' = [cache EXCEPT ![key] = [rules |-> rules, expiresAt |-> now + CacheTtl]]
    BY <1>1, <1>2, <1>3, <1>8, <2>1 DEF LoadPolicies, CachePolicies
  <2>3. PolicyFits'
    <3>1. ASSUME NEW k \in DOMAIN cache
          PROVE  \/ cache'[k].expiresAt = -1
                 \/ \E old \in inForce : /\ cache'[k].rules = Applicable(old.store, k)
                                          /\ old.at <= now
                                          /\ cache'[k].expiresAt = old.at + CacheTtl
      <4>1. CASE k = key
        BY <1>4, <1>5, <1>6, <2>1, <2>2, <4>1
      <4>2. CASE k # key
        BY <2>2, <4>2 DEF IndInv, PolicyFits
      <4>3. QED
        BY <4>1, <4>2
    <3>2. DOMAIN cache' = DOMAIN cache
      BY <2>2
    <3>3. QED
      BY <3>1, <3>2 DEF IndInv, PolicyFits, Applicable, DefaultPolicies
  <2>4. PoliciesRecent'
    <3>1. ASSUME NEW q \in Reqs, loadedAt'[q] # -1
          PROVE  (\E past \in inForce : /\ loaded[q] = Applicable(past.store, KeyOf(q))
                                        /\ past.at <= loadedAt[q]
                                        /\ past.at = loadedAt[q] \/ loadedAt[q] < past.at + CacheTtl)'
      <4>1. PICK old \in inForce : /\ loaded'[q] = Applicable(old.store, KeyOf(q))
                                   /\ old.at <= loadedAt'[q]
                                   /\ old.at = loadedAt'[q] \/ loadedAt'[q] < old.at + CacheTtl
        <5>1. CASE q = r
          BY <1>2, <1>3, <1>5, <1>6, <2>1, <2>2, <5>1
        <5>2. CASE q # r
          BY <1>2, <3>1, <5>2 DEF IndInv, PoliciesRecent
        <5>3. QED
          BY <5>1, <5>2
      <4>2. loaded'[q] = Applicable(old.store, KeyOf(q))' /\ inForce' = inForce
        BY <4>1 DEF KeyOf, Applicable, DefaultPolicies
      <4>3. QED
        BY <4>1, <4>2
    <3>2. QED
      BY <3>1 DEF PoliciesRecent
  <2>5. QED
    BY <1>2, <2>3, <2>4
<1>9. QED
  BY <1>7, <1>8

\* A layer denies: the event is waiting, and says DENY or ERROR.
LEMMA DenyStep ==
    ASSUME IndInv, NEW r \in Reqs, pc[r] \in {"policy", "evidence"},
           NEW action \in {"auth.failure", "classification.critical", "policy.deny", "orchestrator.error"},
           NEW result \in {"DENY", "ERROR"},
           decision' = [decision EXCEPT ![r] = "DENY"],
           Await(r, Event(r, action, result)),
           UNCHANGED <<evidence, auditVars, request, response, now>>,
           PolicyFits', PoliciesRecent',
           DOMAIN loaded' = Reqs, loadedAt' \in [Reqs -> Nat \cup {-1}],
           loadedAt'[r] \in {loadedAt[r], now},
           \A q \in Reqs \ {r} : loaded'[q] = loaded[q] /\ loadedAt'[q] = loadedAt[q]
    PROVE  IndInv'
<1>0. Goto(r, "audit") /\ pending' = [pending EXCEPT ![r] = Event(r, action, result)]
  BY DEF Await
<1>1. PICK e \in EventType : e = Event(r, action, result)
  BY DEF Event, EventType, Decisions
<1>2. Types'
  BY <1>0, <1>1 DEF IndInv, Types, Goto, Labels, auditVars, Decisions
<1>3. Log' = Log
  BY DEF Log, auditVars
<1>4. LogFits'
  BY <1>0, <1>3, LogKept, LogTypes DEF IndInv, Goto, Answered, Types
<1>5. ASSUME NEW p \in Reqs, p # r PROVE RequestFits(p)' /\ AnswerFits(p)'
  BY <1>0, <1>3, <1>5, KeepFit DEF IndInv, Types, Goto
<1>6. RequestFits(r)' /\ AnswerFits(r)'
  <2>1. /\ pc'[r] = "audit" /\ pending'[r] = e /\ e.by = r /\ e.result = result
        /\ decision'[r] = "DENY"
    BY <1>0, <1>1 DEF IndInv, Types, Goto, Event
  <2>2. RequestFits(r)
    BY DEF IndInv
  <2>3. RequestFits(r)'
    BY <2>1, <2>2 DEF IndInv, Types, RequestFits, Passed
  <2>4. AnswerFits(r)'
    BY <2>1 DEF AnswerFits, Told, Thrown, Changed, Answered
  <2>5. QED
    BY <2>3, <2>4
<1>7. QED
  BY <1>2, <1>4, <1>5, <1>6 DEF IndInv

LEMMA PolicySteps ==
    ASSUME IndInv, NEW r \in Reqs, DenyEarly(r) \/ DenyByPolicy(r) \/ EvaluatePolicies(r)
    PROVE  IndInv'
<1>1. CASE DenyEarly(r)
  <2>1. PolicyFits' /\ PoliciesRecent'
    BY <1>1, PolicyKept, PoliciesKept DEF IndInv, DenyEarly, DenyWith, policyVars
  <2>2. PICK action \in {"auth.failure", "classification.critical"} : DenyWith(r, action)
    BY <1>1 DEF DenyEarly
  <2>3. QED
    BY <1>1, <2>1, <2>2, DenyStep DEF IndInv, Types, DenyEarly, DenyWith
<1>2. CASE DenyByPolicy(r)
  BY <1>2, LoadStep, DenyStep DEF DenyByPolicy, DenyWith, Load
<1>3. CASE EvaluatePolicies(r)
  <2>0. /\ Load(r) /\ ~ Denies(loaded'[r]) /\ pc[r] = "policy" /\ Goto(r, "evidence")
        /\ request[r].authentic /\ ~ (request[r].critical /\ FailClosed)
        /\ decision' = [decision EXCEPT ![r] = IF loaded'[r] # {} THEN "ALLOW" ELSE "REVIEW"]
        /\ UNCHANGED <<serverVars, store, inForce, evidence, auditVars, request, pending, response, now>>
    BY <1>3 DEF EvaluatePolicies, Load, CriticalDenied
  <2>1. /\ PolicyFits' /\ PoliciesRecent'
        /\ loadedAt'[r] = now /\ loadedAt' \in [Reqs -> Nat \cup {-1}]
        /\ DOMAIN loaded' = Reqs
        /\ \A q \in Reqs \ {r} : loaded'[q] = loaded[q] /\ loadedAt'[q] = loadedAt[q]
    BY <2>0, LoadStep
  <2>2. Types'
    BY <2>0, <2>1 DEF IndInv, Types, Goto, Labels, auditVars, Decisions
  <2>3. Log' = Log
    BY <2>0 DEF Log, auditVars
  <2>4. LogFits'
    BY <2>0, <2>3, LogKept, LogTypes DEF IndInv, Goto, Answered, Types
  <2>5. ASSUME NEW p \in Reqs, p # r PROVE RequestFits(p)' /\ AnswerFits(p)'
    BY <2>0, <2>1, <2>3, <2>5, KeepFit DEF IndInv, Types, Goto
  <2>6. RequestFits(r)' /\ AnswerFits(r)'
    <3>1. pc'[r] = "evidence" /\ decision'[r] \in {"ALLOW", "REVIEW"}
      BY <2>0 DEF IndInv, Types, Goto
    <3>2. RequestFits(r) /\ now \in Nat
      BY DEF IndInv, Types
    <3>3. RequestFits(r)'
      BY <2>0, <2>1, <3>1, <3>2 DEF RequestFits, Passed, Permitted
    <3>4. AnswerFits(r)'
      BY <3>1 DEF AnswerFits, Told, Thrown, Changed, Answered
    <3>5. QED
      BY <3>3, <3>4
  <2>7. QED
    BY <2>1, <2>2, <2>4, <2>5, <2>6 DEF IndInv
<1>4. QED
  BY <1>1, <1>2, <1>3

\* Evidence is stored before its event waits to be buffered; a throw denies instead.
LEMMA EvidenceSteps ==
    ASSUME IndInv, NEW r \in Reqs, CreateEvidence(r) \/ OrchestratorError(r)
    PROVE  IndInv'
<1>1. CASE OrchestratorError(r)
  <2>1. PolicyFits' /\ PoliciesRecent'
    BY <1>1, PolicyKept, PoliciesKept DEF IndInv, OrchestratorError, policyVars
  <2>2. QED
    BY <1>1, <2>1, DenyStep DEF IndInv, Types, OrchestratorError
<1>2. CASE CreateEvidence(r)
  <2>0. /\ pc[r] = "evidence" /\ Goto(r, "audit")
        /\ pending' = [pending EXCEPT ![r] = Event(r, "request.processed", decision[r])]
        /\ evidence' = [evidence EXCEPT ![request[r].id] = [by |-> r, decision |-> decision[r]]]
        /\ UNCHANGED <<policyVars, auditVars, request, loaded, decision, response, loadedAt, now>>
    BY <1>2 DEF CreateEvidence, Await
  <2>1. Passed(r) /\ Permitted(r) /\ request[r] \in Inputs /\ RequestFits(r)
    BY <2>0 DEF IndInv, RequestFits
  <2>2. decision[r] \in Decisions
    BY <2>1 DEF Permitted, Decisions
  <2>3. PICK e \in EventType : e = Event(r, "request.processed", decision[r])
    BY <2>2 DEF Event, EventType
  <2>4. PICK record \in [by : Reqs, decision : Decisions] : record = [by |-> r, decision |-> decision[r]]
    BY <2>2
  <2>5. request[r].id \in ReqIds /\ record # None
    BY <2>1, MiddlewareAssumption
  <2>6. /\ evidence'[request[r].id] # None /\ DOMAIN evidence' = ReqIds
        /\ \A id \in ReqIds : evidence[id] # None => evidence'[id] # None
    BY <2>0, <2>4, <2>5 DEF IndInv, Types
  <2>7. Types'
    BY <2>0, <2>3, <2>6 DEF IndInv, Types, Goto, Labels, auditVars
  <2>8. Log' = Log
    BY <2>0 DEF Log, auditVars
  <2>9. PolicyFits' /\ PoliciesRecent'
    BY <2>0, PolicyKept, PoliciesKept DEF IndInv, policyVars
  <2>10. LogFits'
    BY <2>0, <2>8, LogKept, LogTypes DEF IndInv, Goto, Answered, Types
  <2>11. ASSUME NEW p \in Reqs, p # r PROVE RequestFits(p)' /\ AnswerFits(p)'
    <3>1. evidence[request[p].id] # None => evidence'[request[p].id] # None
      BY <2>0, <2>4, <2>5 DEF IndInv, Types
    <3>2. QED
      BY <2>0, <2>8, <2>11, <3>1, KeepFit DEF IndInv, Types, Goto
  <2>12. RequestFits(r)' /\ AnswerFits(r)'
    <3>1. /\ pc'[r] = "audit" /\ pending'[r] = e /\ e.by = r /\ e.result = decision[r]
      BY <2>0, <2>3 DEF IndInv, Types, Goto, Event
    <3>2. RequestFits(r)'
      BY <2>0, <2>1, <2>6, <3>1 DEF RequestFits, Passed, Permitted
    <3>3. AnswerFits(r)'
      BY <3>1 DEF AnswerFits, Told, Thrown, Changed, Answered
    <3>4. QED
      BY <3>2, <3>3
  <2>13. QED
    BY <2>7, <2>9, <2>10, <2>11, <2>12 DEF IndInv
<1>3. QED
  BY <1>1, <1>2

-------------------------------------------------------------------------------
(* The audit layer.                                                        *)

\* Whether the batch was full or not, the log has one more event, at its end.
LEMMA RecordedAtTheEnd ==
    ASSUME Types, NEW e \in EventType, RecordEvent(e)
    PROVE  /\ buffer' \in Seq(EventType) /\ events' \in Seq(EventType)
           /\ Log' = Append(Log, e)
           /\ Len(events') \in {Len(events), Len(Log) + 1}
<1>0. buffer \in Seq(EventType) /\ events \in Seq(EventType)
  BY DEF Types
<1>1. CASE Len(buffer) + 1 >= BatchSize
  <2>1. events' = events \o Append(buffer, e) /\ buffer' = <<>>
    BY <1>1 DEF RecordEvent
  <2>2. /\ events' \in Seq(EventType) /\ buffer' \in Seq(EventType)
        /\ Len(events') = Len(events) + Len(buffer) + 1
    BY <1>0, <2>1
  <2>3. events' \o buffer' = Append(events \o buffer, e)
    BY <1>0, <2>1, <2>2
  <2>4. QED
    BY <1>0, <2>2, <2>3 DEF Log
<1>2. CASE ~ Len(buffer) + 1 >= BatchSize
  <2>1. events' = events /\ buffer' = Append(buffer, e)
    BY <1>2 DEF RecordEvent
  <2>2. events' \o buffer' = Append(events \o buffer, e)
    BY <1>0, <2>1
  <2>3. QED
    BY <1>0, <2>1, <2>2 DEF Log
<1>3. QED
  BY <1>1, <1>2

LEMMA AuditStep ==
    ASSUME IndInv, NEW r \in Reqs, Audit(r)
    PROVE  IndInv'
<1>0. /\ pc[r] = "audit" /\ RecordEvent(pending[r]) /\ Goto(r, "done")
      /\ UNCHANGED <<policyVars, evidence, request, loaded, decision, pending, loadedAt, now>>
  BY DEF Audit, Finish, Respond
<1>1. PICK status : status = SuccessStatus(r)
  OBVIOUS
<1>2. response' = [response EXCEPT ![r] = [status |-> status, decision |-> decision[r], rows |-> {}]]
  BY <1>1 DEF Audit, Finish, Respond
<1>3. PICK e \in EventType : e = pending[r] /\ e.by = r
  BY <1>0 DEF IndInv, RequestFits
<1>4. /\ buffer' \in Seq(EventType) /\ events' \in Seq(EventType) /\ Log' = Append(Log, e)
      /\ Log \in Seq(EventType)
  BY <1>0, <1>3, RecordedAtTheEnd, LogTypes DEF IndInv
<1>5. PICK next \in Nat \ {0} : next = Len(Log) + 1
  BY <1>4
<1>6. /\ DOMAIN Log = 1 .. (next - 1) /\ DOMAIN Log' = 1 .. next
      /\ \A i \in DOMAIN Log : Log'[i] = Log[i]
      /\ Log'[next] = e
  BY <1>4, <1>5
<1>7. Types'
  BY <1>0, <1>2, <1>4 DEF IndInv, Types, Goto, Labels
<1>8. PolicyFits' /\ PoliciesRecent'
  BY <1>0, PolicyKept, PoliciesKept DEF IndInv, policyVars
<1>9. LogFits'
  <2>1. pc' = [pc EXCEPT ![r] = "done"] /\ pc \in [Reqs -> Labels]
    BY <1>0 DEF Goto, IndInv, Types
  <2>2. \A i \in DOMAIN Log : Log[i].by # r /\ Log[i].by \in Reqs
    BY <1>0, LogTypes DEF IndInv, LogFits, Answered
  <2>3. ASSUME NEW i \in DOMAIN Log', NEW j \in DOMAIN Log', Log'[i].by = Log'[j].by PROVE i = j
    <3>1. CASE i = next
      BY <1>3, <1>6, <2>2, <2>3, <3>1
    <3>2. CASE j = next
      BY <1>3, <1>6, <2>2, <2>3, <3>2
    <3>3. CASE i # next /\ j # next
      BY <1>6, <2>3, <3>3 DEF IndInv, LogFits
    <3>4. QED
      BY <3>1, <3>2, <3>3
  <2>4. ASSUME NEW i \in DOMAIN Log' PROVE pc'[Log'[i].by] = "done"
    <3>1. CASE i = next
      BY <1>3, <1>6, <2>1, <3>1
    <3>2. CASE i # next
      BY <1>6, <2>1, <2>2, <3>2 DEF IndInv, LogFits, Answered
    <3>3. QED
      BY <3>1, <3>2
  <2>5. QED
    BY <2>3, <2>4 DEF LogFits, Answered
<1>10. ASSUME NEW p \in Reqs, p # r PROVE RequestFits(p)' /\ AnswerFits(p)'
  <2>1. \A i \in DOMAIN Log : i \in DOMAIN Log' /\ Log'[i] = Log[i]
    BY <1>6
  <2>2. QED
    BY <1>0, <1>2, <1>10, <2>1, KeepFit DEF IndInv, Types, Goto
<1>11. RequestFits(r)' /\ AnswerFits(r)'
  <2>1. /\ pc'[r] = "done" /\ response'[r].status = status /\ response'[r].decision = decision[r]
        /\ request' = request /\ loaded' = loaded /\ evidence' = evidence /\ pending' = pending
    BY <1>0, <1>2 DEF IndInv, Types, Goto
  <2>2. RequestFits(r) /\ next \in DOMAIN Log' /\ Log'[next].by = r /\ Log'[next].result = pending[r].result
    BY <1>3, <1>6 DEF IndInv
  <2>3. RequestFits(r)'
    BY <1>0, <2>1, <2>2 DEF RequestFits
  <2>4. CASE request[r].kind \in RuleKinds
    BY <1>0, <2>1, <2>2, <2>4 DEF RequestFits, AnswerFits, Told, Thrown, Changed, RuleKinds, Passed
  <2>5. CASE request[r].kind = "evaluate"
    <3>1. decision[r] # "DENY" => status = 200
      BY <1>0, <1>1, <2>2, <2>5 DEF RequestFits, SuccessStatus, RuleKinds, Permitted
    <3>2. QED
      BY <1>0, <2>1, <2>2, <2>5, <3>1 DEF RequestFits, AnswerFits, Told, Thrown, Changed, RuleKinds, Passed
  <2>6. QED
    BY <1>0, <2>2, <2>3, <2>4, <2>5 DEF RequestFits, Passed
<1>12. QED
  BY <1>7, <1>8, <1>9, <1>10, <1>11 DEF IndInv

\* The clock, the flush timer and a new token.
LEMMA OtherSteps ==
    ASSUME IndInv,
           \/ Flush \/ Tick \/ UNCHANGED vars
           \/ \E t \in Tokens : \E expiresAt \in now .. MaxTime : CreateAuthToken(t, expiresAt)
    PROVE  IndInv' /\ Log' = Log
<1>1. CASE Flush
  <2>0. /\ events' = events \o buffer /\ buffer' = <<>>
        /\ UNCHANGED <<policyVars, evidence, requestVars, now>>
    BY <1>1 DEF Flush
  <2>1. Types' /\ Log' = Log
    <3>1. events \in Seq(EventType) /\ buffer \in Seq(EventType)
      BY DEF IndInv, Types
    <3>2. events' \in Seq(EventType) /\ buffer' \in Seq(EventType) /\ events' \o buffer' = events \o buffer
      BY <2>0, <3>1
    <3>3. QED
      BY <2>0, <3>2 DEF IndInv, Types, Log, requestVars
  <2>2. PolicyFits' /\ PoliciesRecent'
    BY <2>0, PolicyKept, PoliciesKept DEF IndInv, policyVars, requestVars
  <2>3. LogFits'
    BY <2>0, <2>1, LogKept, LogTypes DEF IndInv, Answered, requestVars
  <2>4. ASSUME NEW p \in Reqs PROVE RequestFits(p)' /\ AnswerFits(p)'
    BY <2>0, <2>1, KeepFit DEF IndInv, Types, requestVars
  <2>5. QED
    BY <2>1, <2>2, <2>3, <2>4 DEF IndInv
<1>2. CASE Tick
  <2>0. /\ now' = now + 1 /\ inForce' = inForce \cup {[at |-> now', store |-> store]}
        /\ UNCHANGED <<store, cache, evidence, auditVars, requestVars>>
    BY <1>2 DEF Tick
  <2>1. Types' /\ Log' = Log /\ now \in Nat
    BY <2>0 DEF IndInv, Types, Log, requestVars, auditVars
  <2>2. PolicyFits'
    <3>1. PICK new : new = [at |-> now', store |-> store]
      OBVIOUS
    <3>2. new \in inForce' /\ new.at = now' /\ new.store = store' /\ inForce \subseteq inForce'
      BY <2>0, <3>1
    <3>3. \A past \in inForce : past.at \in Nat
      BY DEF IndInv, PolicyFits
    <3>4. \A past \in inForce' : past.at \in Nat
      BY <2>0, <2>1, <3>3
    <3>5. QED
      BY <2>0, <2>1, <3>2, <3>3, <3>4 DEF IndInv, PolicyFits, Applicable, DefaultPolicies
  <2>3. PoliciesRecent'
    BY <2>0, PoliciesKept DEF IndInv, requestVars
  <2>4. LogFits'
    BY <2>0, <2>1, LogKept, LogTypes DEF IndInv, Answered, requestVars
  <2>5. ASSUME NEW p \in Reqs PROVE RequestFits(p)' /\ AnswerFits(p)'
    BY <2>0, <2>1, KeepFit DEF IndInv, Types, requestVars
  <2>6. QED
    BY <2>1, <2>2, <2>3, <2>4, <2>5 DEF IndInv
<1>3. CASE \/ UNCHANGED vars
           \/ \E t \in Tokens : \E expiresAt \in now .. MaxTime : CreateAuthToken(t, expiresAt)
  <2>0. UNCHANGED <<policyVars, evidence, auditVars, requestVars, now>>
    BY <1>3 DEF CreateAuthToken, vars
  <2>1. Types' /\ Log' = Log
    BY <2>0 DEF IndInv, Types, Log, requestVars, auditVars
  <2>2. PolicyFits' /\ PoliciesRecent'
    BY <2>0, PolicyKept, PoliciesKept DEF IndInv, policyVars, requestVars
  <2>3. LogFits'
    BY <2>0, <2>1, LogKept, LogTypes DEF IndInv, Answered, requestVars
  <2>4. ASSUME NEW p \in Reqs PROVE RequestFits(p)' /\ AnswerFits(p)'
    BY <2>0, <2>1, KeepFit DEF IndInv, Types, requestVars
  <2>5. QED
    BY <2>1, <2>2, <2>3, <2>4 DEF IndInv
<1>4. QED
  BY <1>1, <1>2, <1>3

-------------------------------------------------------------------------------
(* Every step.                                                             *)

LEMMA ServerSteps ==
    ASSUME IndInv, NEW r \in Reqs, (\E q \in Inputs : Receive(r, q)) \/ BodyComplete(r) \/ Authenticate(r)
    PROVE  IndInv'
<1>0. pc[r] # "idle" => request[r] \in Inputs /\ request = [request EXCEPT ![r] = request[r]]
  BY DEF IndInv, RequestFits, Types
<1>1. ASSUME NEW q \in Inputs, Receive(r, q) PROVE IndInv'
  <2>1. PICK label \in {"body", "ready"} : Goto(r, label)
    BY <1>1 DEF Receive
  <2>2. QED
    BY <1>1, <2>1, MoveOn DEF Receive
<1>2. CASE BodyComplete(r)
  BY <1>0, <1>2, MoveOn DEF BodyComplete
<1>3. CASE Authenticate(r)
  BY <1>0, <1>3, MoveOn DEF Authenticate, Handles, Reaches
<1>4. QED
  BY <1>1, <1>2, <1>3

LEMMA RefuseStep ==
    ASSUME IndInv, NEW r \in Reqs, pc[r] = "ready", NEW status, Refuse(r, status),
           status \in {200, 201, 204} => request[r].kind \notin RuleKinds
    PROVE  IndInv'
BY AnswerNothing DEF Refuse, Conclude, Finish

LEMMA HandlerSteps ==
    ASSUME IndInv, NEW r \in Reqs,
           \/ RejectBody(r) \/ NotFound(r) \/ AdminRefused(r) \/ LimitRate(r)
           \/ AdminAudit(r) \/ Stateless(r) \/ GetEvidence(r) \/ HandlerThrows(r)
    PROVE  IndInv'
<1>0. ASSUME NEW status \in {400, 403, 404, 429}, pc[r] \in {"body", "ready"}, Respond(r, status, None, {}),
             UNCHANGED <<policyVars, evidence, auditVars, request, loaded, decision, pending, loadedAt, now>>
      PROVE  IndInv'
  <2>1. status \in {200, 201, 204} => request[r].kind \notin RuleKinds
    BY <1>0
  <2>2. QED
    BY <1>0, <2>1, AnswerNothing
<1>1. CASE RejectBody(r)
  BY <1>0, <1>1 DEF RejectBody
<1>2. CASE NotFound(r)
  BY <1>0, <1>2 DEF NotFound, Conclude, Finish
<1>3. CASE AdminRefused(r)
  BY <1>0, <1>3 DEF AdminRefused, Conclude, Finish
<1>4. CASE LimitRate(r)
  BY <1>0, <1>4 DEF LimitRate, Reaches, Conclude, Finish
<1>5. CASE AdminAudit(r)
  BY <1>5, AnswerNothing DEF AdminAudit, Handles, Reaches, Finish, RuleKinds
<1>6. CASE Stateless(r)
  BY <1>6, RefuseStep DEF Stateless, Handles, Reaches, RuleKinds
<1>7. CASE GetEvidence(r)
  <2>1. PICK status, rows : Finish(r, status, None, rows)
    BY <1>7 DEF GetEvidence, Conclude
  <2>2. QED
    BY <1>7, <2>1, AnswerNothing DEF GetEvidence, Handles, Reaches, Finish, RuleKinds
<1>8. CASE HandlerThrows(r)
  BY <1>8, AnswerWithout DEF HandlerThrows, Handles, Reaches, Finish, RuleKinds, SaysNoMore
<1>9. QED
  BY <1>1, <1>2, <1>3, <1>4, <1>5, <1>6, <1>7, <1>8

LEMMA RuleSteps ==
    ASSUME IndInv, NEW r \in Reqs, CreateRule(r) \/ UpdateRule(r) \/ DeleteRule(r)
    PROVE  IndInv'
<1>1. pc[r] = "ready" /\ request[r].kind \in RuleKinds
  BY DEF CreateRule, UpdateRule, DeleteRule, Handles, Reaches, RuleKinds
<1>2. \/ \E status \in {400, 404} : Refuse(r, status)
      \/ \E tenant, rules : \E action \in {"admin.createRule", "admin.updateRule", "admin.deleteRule"} :
             Change(r, tenant, rules, action)
  BY DEF CreateRule, UpdateRule, DeleteRule
<1>3. QED
  BY <1>1, <1>2, ChangeStep, RefuseStep

LEMMA IndInvStep == IndInv /\ [Next]_vars => IndInv'
<1> SUFFICES ASSUME IndInv, [Next]_vars PROVE IndInv'
  OBVIOUS
<1>1. ASSUME NEW r \in Reqs, \/ \E q \in Inputs : Receive(r, q)
                             \/ BodyComplete(r) \/ RejectBody(r) \/ Start(r) \/ Continue(r)
      PROVE  IndInv'
  BY <1>1, ServerSteps, HandlerSteps, RuleSteps, PolicySteps, EvidenceSteps, AuditStep DEF Start, Continue
<1>2. QED
  BY <1>1, OtherSteps DEF Next

LEMMA IndInvInit == Init => IndInv
<1> SUFFICES ASSUME Init PROVE IndInv
  OBVIOUS
<1>1. Types /\ Log = <<>>
  BY DEF Init, Types, Labels, Log
<1>2. PolicyFits
  <2>1. PICK start : start = [at |-> 0, store |-> store]
    OBVIOUS
  <2>2. inForce = {start} /\ start.at = now /\ start.store = store /\ now = 0
    BY <2>1 DEF Init
  <2>3. DOMAIN cache = Tenants \X Sectors \X Intents /\ \A key \in DOMAIN cache : cache[key].expiresAt = -1
    BY DEF Init, Uncached
  <2>4. QED
    BY <2>2, <2>3 DEF PolicyFits
<1>3. PoliciesRecent
  BY DEF Init, PoliciesRecent
<1>4. LogFits
  BY <1>1 DEF LogFits
<1>5. \A r \in Reqs : RequestFits(r) /\ AnswerFits(r)
  BY DEF Init, RequestFits, AnswerFits, Told, Thrown, Changed, Answered
<1>6. QED
  BY <1>1, <1>2, <1>3, <1>4, <1>5 DEF IndInv

\* The inductive invariant: what is in the cache and the requests, the events that wait
\* and the log agree, wherever the layers of several requests are.
THEOREM MiddlewareInvariant == Spec => []IndInv
BY IndInvInit, IndInvStep, PTL DEF Spec

\* PoliciesRecent: no evaluation uses rules that went out of force one CacheTtl before.
THEOREM PoliciesAlwaysRecent == Spec => []PoliciesRecent
<1>1. IndInv => PoliciesRecent
  BY DEF IndInv
<1>2. QED
  BY <1>1, MiddlewareInvariant, PTL

\* PassedEveryLayer: an answer that is not a denial passed every layer in its order, and
\* its evidence is on record.
THEOREM LayersAlwaysPassed == Spec => []PassedEveryLayer
<1>1. IndInv => PassedEveryLayer
  BY DEF IndInv, AnswerFits, PassedEveryLayer, Passed
<1>2. QED
  BY <1>1, MiddlewareInvariant, PTL

\* EveryAnswerAudited: who is told a decision or a change has one event of his own that
\* agrees, however the batches are flushed, unless his handler threw on a malformed body.
THEOREM AnswersAlwaysAudited == Spec => []EveryAnswerAudited
<1>1. ASSUME IndInv, NEW r \in Reqs
      PROVE  /\ Cardinality(EventsOf(r)) <= 1
             /\ EventsOf(r) # {} => Answered(r)
             /\ Told(r) /\ ~ Thrown(r) => \E i \in EventsOf(r) :
                   \/ Log[i].result = response[r].decision
                   \/ Log[i].result = "ERROR" /\ response[r].decision = "DENY"
             /\ Changed(r) => \E i \in EventsOf(r) : Log[i].result = "success"
  <2>1. \A i, j \in EventsOf(r) : i = j
    BY <1>1 DEF EventsOf, IndInv, LogFits
  <2>2. Cardinality(EventsOf(r)) <= 1
    <3>1. CASE EventsOf(r) = {}
      BY <3>1, FS_EmptySet
    <3>2. CASE EventsOf(r) # {}
      <4>1. PICK i : EventsOf(r) = {i}
        BY <2>1, <3>2
      <4>2. QED
        BY <4>1, FS_Singleton
    <3>3. QED
      BY <3>1, <3>2
  <2>3. QED
    BY <1>1, <2>2 DEF EventsOf, IndInv, LogFits, AnswerFits
<1>2. IndInv => EveryAnswerAudited
  BY <1>1 DEF EveryAnswerAudited
<1>3. QED
  BY <1>2, MiddlewareInvariant, PTL

\* ImplementsTrail: the buffer, its batches and its timer implement an append-only log.
THEOREM TrailImplemented == Spec => ImplementsTrail
<1>1. Init => Trail!Init
  BY DEF Init, Trail!Init, Log
<1>2. IndInv /\ [Next]_vars => [Trail!Next]_(Trail!vars)
  <2> SUFFICES ASSUME IndInv, [Next]_vars PROVE [Trail!Next]_(Trail!vars)
    OBVIOUS
  <2>1. CASE UNCHANGED auditVars
    BY <2>1 DEF Trail!vars, Log, auditVars
  <2>2. ASSUME NEW r \in Reqs, Audit(r) PROVE Trail!Next
    <3>1. PICK e \in EventType : e = pending[r]
      BY <2>2 DEF Audit, IndInv, RequestFits
    <3>2. Log' = Append(Log, e) /\ Len(events') \in {Len(events), Len(Log) + 1}
      BY <2>2, <3>1, RecordedAtTheEnd DEF Audit, IndInv
    <3>3. QED
      BY <3>2 DEF Trail!Next, Trail!Accept
  <2>3. CASE Flush
    <3>1. Log' = Log
      BY <2>3, OtherSteps
    <3>2. Len(events') = Len(Log)
      BY <2>3 DEF Flush, Log
    <3>3. QED
      BY <3>1, <3>2 DEF Trail!Next, Trail!Publish
  <2>4. QED
    BY <2>1, <2>2, <2>3, ZenonT(90) DEF Next, Start, Continue, vars, Tick, CreateAuthToken, Receive, BodyComplete,
       RejectBody, NotFound, AdminRefused, LimitRate, CreateRule, UpdateRule, DeleteRule, AdminAudit,
       Stateless, GetEvidence, HandlerThrows, Authenticate, DenyEarly, DenyByPolicy, EvaluatePolicies, DenyWith,
       CreateEvidence, OrchestratorError, Change, Refuse
<1>3. QED
  BY <1>1, <1>2, MiddlewareInvariant, PTL DEF Spec, ImplementsTrail, Trail!Spec

=================================================================================
