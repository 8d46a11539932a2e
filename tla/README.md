# IOS-PLUS: a verification project in TLA+

IOS-PLUS is a TypeScript monorepo (`src/packages/*`) for compliance decisions: a
request is authenticated, decided by a rule engine that fails closed, and leaves
signed evidence and an append-only audit event in PostgreSQL. This directory
holds TLA+ modules of its stateful parts, the TLC configurations that check them
on small instances, and theorems that TLAPS checks for every value of the
constants. Paths below are relative to the repository (`src/`).

    tlc -workers 2 -config MCGate530Api_api.cfg MCGate530Api     # a run
    tlapm Gate530ApiProofs.tla                                     # the proofs of a component

`PROJECT.json` lists the runs, the mutants that show each property can fail, the
source lines each definition stands for, the disagreements found between the
code and its documents (`findings`), the hazards and the theorems.


## 1. Inventory

### gate-530 (`packages/gate-530/src`)

| part | state | operations | interacts with |
|---|---|---|---|
| Decision engine (`engine.ts`, `rules.ts`, `sector.ts`) | a Map of rules, a Map of sector rules | `evaluate`, `addRule`, `removeRule` | called by the API and by the transports |
| Wave 1 API (`api-server.ts`) | the engine, rate limit store, metrics; per request a handler with awaits | `handleRequest` and eight handlers | the engine, the signer, `ApiDatabase` |
| `ApiDatabase` (`api-db.ts`) | a `pg.Pool` of `DB_MAX_CONNECTIONS` | one method per statement: connect, query, release | PostgreSQL |
| Start and shutdown (`api-index.ts`) | the phase of the process | `main`, `shutdown` on SIGTERM and SIGINT | `close()` then `disconnect()` |
| JWT and API keys (`api-auth.ts`) | none (the key set is always empty) | `verifyJwt`, `verifyApiKey` | the JWKS endpoint |
| Diagnostics (`diagnostics.ts`) | the last status of each check, an interval timer | `runChecksAsync`, `runReadinessChecks`, `start`, `stop` | the embedded server |
| Transports (`transport.ts`) | the transport of the server, its listener and counters, a buffer per connection | `start`, `stop`, dispatch of HTTP/2 streams and of a Unix socket | the engine |

Correct when: nobody learns a decision that is not recorded, but for the DENY that
goes with an error; the audit event of an evaluation never precedes its evidence; a confirmed rule is in force for later
requests; only administrators change rules; a rule that throws is a deny; the
pool loses no connection; metrics balance on every early return; SIGTERM cuts
nobody off who still waits, and ends; every request is answered. A transport answers a request as
the engine decides it however its bytes are cut, its counters account for every
request, and one that listens can be reached and stopped.

### middleware-engine (`packages/middleware-engine/src`)

| part | state | operations | interacts with |
|---|---|---|---|
| Server (`server.ts`) | rate limit store, metrics, routes | middlewares, handlers, `close` | the orchestrator |
| Orchestrator (`orchestrator.ts`) | none of its own | `process`: six layers, each with an early deny | all layers |
| Policy layer (`layers/policy.ts`) | policies, a cache with a TTL | `loadPolicies`, `storeRule`, `deleteRule` | the gate engine |
| Audit layer (`layers/audit.ts`) | a WORM buffer, the flushed log, a flush timer | `recordEvent`, `getAuditTrail`, `flush`, `shutdown` | none |
| Evidence, evaluation, retrieval, classification, auth layers | small caches and stores | one call each | the gate engine, the signer |

Correct when: a denied layer ends the pipeline and leaves an audit event; an
event that was accepted reaches the log once and in order; a deleted or replaced
policy stops being applied after a bounded time.

### cos-plus (`packages/cos-plus/src`, `db/migrations`, `scripts/db`)

| part | state | operations | interacts with |
|---|---|---|---|
| Pool (`connection.ts`) | `poolInstance` and `poolConfig` of the module | `createPool` (connects with retry), `getPool`, `closePool` | PostgreSQL, `pg.Pool` |
| Audit store (`audit.ts`) | `audit_events` and a hash chain of sorts | insert, trail, verify, prune | WORM triggers |
| WORM enforcement (`worm.ts`, `002_worm_triggers.sql`) | triggers of two tables | `enforceWorm`, `verifyWormStatus` | PostgreSQL catalog |
| Evidence store, invariants, grants, vectors | tables | one statement each | PostgreSQL |
| Migrations (`migrations.ts`) | `schema_migrations` | `runMigrations`, meant as one transaction per file; six files commit themselves | the pool, PostgreSQL |

Correct when: no update or delete of a protected row succeeds at any moment of
enforcement or pruning; only expired events are pruned, and the trigger is on
again after a failure; migrations are executed in order, repeated only for a fault,
and never reported complete when one is missing; every open pool can be found and
closed; every job ends.

### evidence-fabric (`packages/evidence-fabric/src`)

| part | state | operations | interacts with |
|---|---|---|---|
| Signer (`signer.ts`) | a key pair, two files, an archive | construction, `sign`, `verify`, `rotateKeys` | the file system |
| Vault transit (`vault-transit.ts`) | key versions in Vault | `sign`, `verify`, `rotateKey` | Vault |
| Evidence (`evidence.ts`, `factory.ts`) | the fields of a builder | setters, `createEvidence`, `createEvidenceAsync`, verify | either signer |
| Triple publication (`triple-publication.ts`) | a set of keys | `addKey`, `removeKey`, `verifyAll`, `verifyWithThreshold` | the signer |
| Canonical JSON (`jcs.ts`) | none | `canonicalize` | the signer |

Correct when: what was signed verifies unless a save was interrupted, a key that
signed is kept, a published key is not older than the one that signed;
a threshold counts distinct keys.

### rag-vault, uco-resolver, shared

| part | state | operations | interacts with |
|---|---|---|---|
| Vault (`rag-vault.ts`, `partition.ts`, `sector.ts`, `retrieval.ts`) | partitions of documents, sector permissions | `addDocument` (awaits an embedding), `removeDocument`, `updatePartition`, `retrieve` | an embedder |
| Resolver (`resolver.ts`, `crosswalk.ts`, `traversal.ts`) | a graph loaded once, an index that freezes | `initialize`, `lookupLicensure`, `resolveLicensurePath` | a loader |
| `shared` | none | types and schemas | everyone |

Correct when: the audit log of the vault is its history, a document has the level
of its partition, and a retrieval returns nothing above the level asked for; an
answer of the resolver has every related code once, however many first lookups
load the files together or fail and are made again.

### What is hard

Interleavings between awaits (every handler, `createPool`, `addDocument`,
`initialize`, `runChecksAsync`); statements that outlive their client; partial
failure of two-step writes (evidence then audit, rule then audit, two key files,
three WORM statements); restarts that lose memory; limits (pool, rate limiter,
buffers); stale caches. `PROJECT.json` lists each at its line.

## 2. Plan

The core, decisions and their records, comes first; what is below it (pool,
statements, table) and beside it (middleware) next; the sequential cores last.

| stage | modules | state |
|---|---|---|
| 1 | `RuleEngine`, `RateLimit`, `Gate530Api`, `ComplianceLedger`; proofs in `Gate530ApiProofs` | done |
| 1 | `RateLimiter`: the limiter over time | done |
| 1 | `Middleware`, `AppendOnlyLog` | done |
| 1 | `WormStore`, `WormTable` | done |
| 1 | `Traversal`, `UcoResolver` | done |
| 1 | `Retrieval`, `RagVault` | done |
| 2 | `LocalSigner` and `EvidenceBuilder` as one composition, with either signer | done |
| 2 | `ConnectionPool`, `Migrations`, `MigrationHistory` | done |
| 2 | `Transport` | done |
| 2 | `WormStore`: pruning and protecting in one run, overlapping each other | done |
| 3 | proofs over every component but the resolver: `RateLimiterProofs`, `MiddlewareProofs`, `WormStoreProofs`, `EvidenceBuilderProofs`, `MigrationsProofs`, `RetrievalProofs` (the vault), `TransportProofs` | done |
| 3 | the last of the API: `MetricsBalanced`, `ShutdownCutsNobodyOff`, `ReadYourWrites`, `DenyRuleInForce` | done |
| 4 | proofs about what the vault and the resolver answer: `ResultsFit`, `AnswersComplete`, `DirectFirst`, in `RetrievalProofs` | done |
| later | overlapping rounds of the diagnostics | open |

`Gate530Api` composes `RuleEngine` and `RateLimit` with the pool and PostgreSQL;
`Middleware` shares `RateLimit` and brings its own layers; `EvidenceBuilder`
extends `LocalSigner`, `Migrations` extends `ConnectionPool`, and `Transport` asks
the same `RuleEngine` as the API; `UcoResolver` and
`RagVault` are state machines over the pure operators of `Traversal` and
`Retrieval`. Each `XProperties` states the properties over `X`, each `MCX` gives
the constants values that TLC can enumerate. Four abstract specifications say
what a component promises without its mechanism: `ComplianceLedger`,
`AppendOnlyLog`, `WormTable` and `MigrationHistory`; the detailed ones are shown to implement them.

Modules that proofs are about use no `RECURSIVE` operator; recursion over
conditions of rules is a recursive function of a finite set of conditions.


## 3. Modules

Operators whose comment begins with "Mutant" are not part of a specification.
They are plausible bugs; replacing the definition below them by them refutes a
property of the run (`mutants` in `PROJECT.json`).

### RuleEngine, Gate530Api (the Wave 1 API)

The server is one Node.js process, so an action is the code of a request between
two awaits; `pc[r]` says at which await request `r` is.

| state | code |
|---|---|
| `rules` | `engine.rules`, filled by `buildEngine()`, lost at the end of the process |
| `rateLimitStore` | `rateLimitStore`, one entry for an address |
| `busy` | the connections taken from the pool |
| `requestsTotal`, `requestsByStatus`, `activeConnections` | `metrics` |
| `sql`, `db` | PostgreSQL: statements sent and not executed, and rows |
| `sockets` | the requests whose client has not closed its socket, for which `server.close()` waits |
| `phase`, `boot` | the process: up, closing, ending the pool, down; how often it started |
| `stamp` | the timestamps of the two rows of a request |
| `before`, `bootOf` | history for the properties |

| action | code |
|---|---|
| `Receive`, `BodyComplete`, `RejectBody` | the start of `handleRequest`, `parseBody` with its timer |
| `NotFound`, `Dispatch`, `LimitRate` | the route and `checkRateLimit` |
| `Unauthenticated`, `Forbidden` | the checks of credentials and role |
| `HandlerThrows` | a handler that throws on its body before it has done anything |
| `StartEvaluate`, `StartCreateRule`, `StartDeleteRule`, `StartRead`, `AnswerLocally` | the handlers up to their first await of the database |
| `Acquire`, `ConnectFail` | `pool.connect()`: a connection, or its timeout or error |
| `Commit`, `Reject` | PostgreSQL, which executes a sent statement whatever became of its client |
| `EvidenceStored`, `AuditStored`, `EvidenceFound`, `EvidenceNotFound`, `AuditRead`, `Ready`, `QueryFail` | the continuation of a statement, its `finally`, the answer and its metrics |
| `Signal`, `EndPool`, `Exit`, `Crash`, `Restart` | `shutdown()` of `api-index.ts`, the end of a process, a new one |
| `Disconnect` | a client closes its socket; no handler is told |

Inputs say what a request makes the code do: its kind, credentials, ids, actor,
context and rule. `RuleEngine` evaluates conditions for what they are, the two
built-in ones included; the operator `and` that the first of them names is not
one `evaluateCondition` knows, so it throws and the engine fails closed.

**What a 500 tells.** The catch of `handleRequest` (`api-server.ts:254`) answers every
error, on every route, with `decision: 'DENY'` in the body. `AnswerError` keeps that:
the answer tells `deny`, while `decision[r]`, what the engine decided, stays what it is.
So the caller of an evaluation that was decided `allow`, whose evidence is stored and
whose audit insert failed, is told DENY, and no record says so. `EvaluationRecorded`
and `ComplianceLedger` (`FailClosed`) state this as the one thing that is told without
records, always a denial and always with a 500. A body that is JSON `null`, or has a field
without a `toString`, is `malformed`: its handler throws before the engine is asked.

**Shutdown.** `EndPool` waits for `sockets = {}`, as `server.close()` does, and not for
handlers; `Exit` waits for the connections of the pool (`busy = {}`), as `pool.end()`
does. A handler whose client has gone may thus go on while the pool is ended, find no
connection, or be cut off between its two inserts; `ShutdownCutsNobodyOff` says that
this happens to such a request only, and never with a statement in flight. During
`closing` a connection that is still open may carry another request (`Receive`). While the pool is ending
`Acquire` may still give a connection: `pg` refuses a new attempt but serves one that
had been queued, and the two are not told apart. A body that is too large has its socket
destroyed by `parseBody`, whose rejection is answered in the same turn (`RejectBody`).

**Pages of the audit log.** A query has optional filters, a limit and an offset, each a
natural number; 0, like a text `parseInt` makes nothing of, puts no clause into the statement.
`Newest(rows, n)` are all choices of n rows that `ORDER BY timestamp DESC` may put first, as
rows of one millisecond have no order among each other; `AuditRead` returns any page
that skips `offset` of them and takes `limit` of the rest.

### RateLimit, RateLimiter

`Count` and `Within` are `checkRateLimit`; API and middleware use them.
`RateLimiter` is the limiter alone, with a history of what was admitted.

### Middleware

`pc` separates the awaits of the pipeline: after the authentication (`policy`),
after the evaluation (`evidence`), after the hash of an audit event (`audit`).
`store`, `cache`, `evidence`, `buffer` and `events` are the layers' maps and
arrays; `adminTokens` the tokens of the authentication layer. What classification
and evaluation compute from a request alone is part of its input. `inForce` and
`loadedAt` are history. `Middleware` keeps the five ways out of `process()`
(the two of `DenyEarly`, `DenyByPolicy`, `EvaluatePolicies` with `CreateEvidence`, and
`OrchestratorError`) and that each leaves through `Audit`. `HandlerThrows` leaves
without it: on a body that is `null`, or has a field without a `toString`, a handler throws
before `process()`, and `handleError` (`server.ts:311`) tells `decision: 'DENY'`, to an
administrator and to a retrieval as well.

### WormStore

`db` is what PostgreSQL has committed: two tables, the two triggers (that of
`worm.ts`, that of the migrations) and the trigger function; `tx` is the open
transaction of `pruneAuditEvents()` with what it sees. Every statement is an
action; `Crash`, `CallBreaks`, `PruneFails` end a call at any of them; `UpdateRow`
and `DeleteRow` are what an application tries. The lock of `ALTER TABLE` is
`Unlocked`. `PruneExpired` is the function of migration 005, one statement.
`accepted` and `exposed` are history: the rows whose insert was committed, and
those that were in the table while no trigger protected it.

### UcoResolver, Traversal

`Traversal` has the functions of `traversal.ts` on the rows of database and index,
with confidences as exact integers; `UcoResolver` the loading of the files by
overlapping first lookups, the freeze, and the ranked answer. Loops that build a list
are folds (`Rows`, `Extend`, `BestOfEach`); the stable sort of `rankPaths()` is an
insertion behind all paths it does not rank before, and so is that of `Rank` in
`Retrieval`.

### LocalSigner, EvidenceBuilder

`LocalSigner` is one process, its two key files and the archive; the files outlive
it. `writeFileSync` is two steps, truncate and write, so a crash finds a file
absent, empty or whole. A key pair is a number; files match if they hold the same
one. `unsaved` and `interrupted` are history.

`EvidenceBuilder` has the fields of one builder, several calls of
`createEvidence()` and `createEvidenceAsync()`, and the signer that `createSigner()`
chooses (`mode`): Vault, an external key with versions that is rotated at any
time, or `LocalSigner`, whose steps never yield to the calls of its process
(`Running`). `Canonical` keeps what `JSON.stringify` with a list of top-level keys
keeps: nothing below the first level (no nested key of the model has the name of a
top-level one). `disturbed` is history: the calls during
which the builder was used otherwise, or whose key files were half saved.

### RagVault, Retrieval

`Retrieval` is the pipeline of a query: the partition, the filters (those of the
caller replace those of the search), the simulated search, the compliance level,
duplicates, limits. `RagVault` has the documents and the audit log; calls overlap
where they await an embedding, and `provider` says whether one comes.


### ConnectionPool, Migrations

A job is a caller of `cos-plus`: it calls `createPool()`, or `getPool()` when that
is refused, calls `runMigrations()`, and leaves or closes the pool.

| state | code |
|---|---|
| `poolInstance`, `poolConfig` | the variables of `connection.ts`, lost with the process |
| `pool`, `held` | `pg.Pool`: its life, and the clients that were taken and not released |
| `attempt`, `using`, `appliedNames`, `file` | the locals of `connectWithRetry()` and `runMigrations()` |
| `recorded`, `executed` | `schema_migrations`, and how often a file took effect |
| `orphans` | statements whose connection broke or whose process died, and which may still act |
| `overlapped`, `shared`, `told`, `faults` | history and bound |

`FirstQueryFails` is the attempt whose `SELECT 1` fails with its client still out,
so that its `end()` never returns. A file of `SelfCommitting` takes effect when it
is executed; another one with the `COMMIT` of the runner. `NameLocked` is the
unique name that an open transaction has inserted. `MigrationHistory` has only the
files, what is recorded and what was told.

### Transport

A connection sends one of a few scripts of requests, and its bytes arrive in
chunks cut anywhere. HTTP/2 collects the chunks of a stream and dispatches at its
end; the socket dispatches with the chunk that completes a head, takes the rest of
the buffer for the body and ends the connection with its first answer. A chunk
that ends within a character garbles the context (`Garbled`). `server`, `path` and
`transport` are the listeners, the socket file and the field of `Gate530Server`;
`lost`, `failed` and `overlapped` are history.


## 4. Runs

| run | question | bounds | result |
|---|---|---|---|
| `api` | do pool, metrics, shutdown and records stay consistent through every route and fault, and is everyone answered? | 2 requests of 12 kinds, 1 connection, limit 1, faults, disconnects, SIGTERM, 2 starts (172,642 states) | 8 properties hold, two of them liveness |
| `api_records` | are confirmed rules in force and decisions recorded and readable? | 3 requests of 5 kinds, 2 connections, faults, 1 tick, pages of 1 event (1,169,583 states) | 4 invariants hold |
| `rate_limiter` | what does a fixed window bound? | 7 requests, 6 ticks, windows of 2 ticks | 2 invariants hold |
| `claim_public` | is a public resource allowed, as `api.test.ts` says? | 2 requests, no faults | refuted |
| `middleware` | what leaves the pipeline, and what reaches the trail? | 2 requests of 19 kinds, malformed bodies among them, batch of 2, 2 ticks | 3 properties hold, one of them liveness |
| `middleware_policy` | how old may rules be, and is every answer audited? | 3 requests of 8 kinds, cache of 2 ticks, 3 ticks | 2 invariants hold |
| `worm` | is a protected row kept, whoever prunes, protects, unprotects or changes it? | 2 calls of 4 kinds, 1 event, both layouts, 1 tick | 6 properties hold, one of them liveness |
| `resolver` | are answers complete and ordered however files are loaded? | 2 lookups in 434 worlds, faults | 2 invariants hold |
| `evidence` | does a record verify, and is its key kept? | 2 calls, 3 versions or 3 key pairs, 1 setting of each kind, failing writes, crashes | 3 invariants hold |
| `vault` | do log, levels and results fit, however calls overtake each other? | 4 calls of 13 kinds, 2 documents | 3 invariants hold |
| `database` | does the history of a database fit, and do all jobs end? | 2 jobs, 2 files (one commits itself), 1 retry, 2 faults | 4 properties hold, one of them liveness |
| `transport` | do answers and counters fit the requests, however bytes are cut? | 2 connections of 3 scripts, 2 transports | 3 invariants hold |

**Why the bounds are enough.** The hazards of the API take two requests: one at an
await, another that takes its connection, changes its rules or reads its rows.
A third one appears in `api_records`, where a rule is confirmed, used and
asked about; two connections let all of them be between statements at once. One
connection and a limit of one make both limits bind with two requests. One
address suffices, because no entry of the store is read for another. Two starts
let a statement of the first process be executed in the second. `Disconnects` and `Signals`
are on in `api`, where one request whose client has gone and one whose client waits meet a
shutdown; they are off in `api_records`, whose properties are about answers. There the audit
query takes the newest insertion only, so that its LIMIT of one is used up by the event of
another request or of the same millisecond; in `api` it skips one event. For the limiter,
six ticks are two windows and a half, so that every alignment of the observed
span with the windows occurs. In the middleware a batch of two is filled by the
two requests and not filled by one; a cache time of two ticks in a run of three
lets an entry be fresh, stale and expired. A prune, or
a call that makes the trigger anew, is disturbed by one other call. Two calls of a builder are one that awaits and one that
overlaps it; three key pairs allow a rotation after a failed one. Two jobs overlap,
follow each other in one process, or in two, with a crash in between; two files
are one before and one after another, of both kinds; two faults put a second one
into the recovery from the first. A body of three bytes whose last two are one
character is cut before, within and after it, and two requests of one script arrive
together, apart, or one and a half at a time. The worlds of the resolver contain every
combination of a code known to the database, a file, both or neither.
Requests, calls and lookups of a run with `SYMMETRY` are interchangeable;
liveness is checked without symmetry.

**Deadlock.** `CHECK_DEADLOCK FALSE` is set everywhere: a behaviour ends when all
its requests or calls have been made, or its process is down for the last time.

**Fairness.** `Gate530Api!FairSpec`: a body that is not complete is rejected by a
timer (`api-server.ts:287`); a continuation whose promise is settled runs
(`Admission`, `Handler`, `Reply`); `pool.connect()` gives a connection or its timer
fires (`connectionTimeoutMillis`, `api-db.ts:52`); PostgreSQL executes or rejects
what was sent; `server.close()` calls back when no socket is open, `pool.end()` when
every connection is released, and then the process exits. Nothing is assumed of clients, signals or crashes.
`Middleware!FairSpec`: the same timer, the continuations, and the flush timer,
which exists as `flushIntervalMs` is positive. `WormStore!FairSpec`: the steps of
a prune, for the call goes on until an answer or an error comes; a crash ends its
transaction. `Migrations!Spec`: the steps of each job and the end of each orphaned
statement, for timers, the network and PostgreSQL go on; no fault is required, so
a job whose connection fails for ever ends by its bounded retries.
`EveryRequestAnswered` holds for requests of a process that stays alive: a lost
request is one whose process died, or that a shutdown cut off after its client had gone.

**What the runs say that is less than one might hope.**
`EvaluationRecorded`, `ImplementsLedger` and `EveryAnswerAudited` leave out the DENY of
an error: that of every 500 of the API, and in the middleware that of a handler that threw
before `process()`. `ShutdownCutsNobodyOff` leaves out requests whose clients had gone.
`ReadYourWrites` leaves out audit queries with an offset, whose first rows other requests push
on, and says of a page that is full without the event that all in it is at least as new.
`AdmissionsBounded` is twice the maximum, which a fixed window cannot improve,
and it needs `AdminWindow >= Window`, as in the default configuration.
`ProtectedIsBlocked` leaves out calls that were cut off: between DROP and CREATE
an `enforceWorm()` that fails leaves the table open; `NothingLost` leaves out rows
that were exposed by it. `EvidenceVerifies` leaves out calls that shared their
builder, and key files whose last save stopped halfway. With Vault it speaks of `verify()`, which asks
for the version the signature names and ignores the published key; under that key a record
verifies when no rotation came between signature and record, and otherwise the key may be
of a later version, never an earlier one (`PublishedNotOlder`). `NoPoolLost` leaves out
pools whose `createPool()` overlapped another one, and `NoServerLost` transports
whose `start()` came before the `stop()` of another one had returned: in both cases
the code does lose one. `JobsEnd` leaves out a job whose first query on a new
connection failed, and shows that nothing else blocks. `RepeatsExplained` bounds the
executions of a file by the faults while jobs do not migrate at once. `AnswersFit`
names the two ways a transport can spoil a request.
`LogReplays` says that a document which comes back after its removal is in the
log as added again.


## 5. Proofs

Eight modules hold theorems for every value of the constants, seven over one
component each, `RetrievalProofs` over the vault and the resolver: any number of requests, calls, jobs, files, connections, addresses
and times, with every fault and restart of the model. They state every safety invariant and action property the passing runs check, and
TLC, which checks the same properties on small instances (section 4), was asked first. Each proof
has the shape of EWD998's: an inductive invariant `IndInv` in named conjuncts, a
lemma that every action preserves it, and a last step by temporal logic; the
properties follow from `IndInv`, and the refinements from it step by step.

| module | theorems of run properties | refinement |
|---|---|---|
| `Gate530ApiProofs` | `TypeOK`, `EvaluationRecorded`, `AuditFollowsEvidence`, `PoolBalanced`, `RulesChangedByAdmin`, `MetricsBalanced`, `ShutdownCutsNobodyOff`, `ReadYourWrites`, `DenyRuleInForce` | `ComplianceLedger` |
| `RateLimiterProofs` | `NobodyLockedOut`, `AdmissionsBounded` | |
| `MiddlewareProofs` | `PassedEveryLayer`, `PoliciesRecent`, `EveryAnswerAudited` | `AppendOnlyLog` |
| `WormStoreProofs` | `TypeOK`, `NothingLost`, `CompliantIsBlocked`, `ProtectedIsBlocked` | `WormTable` |
| `EvidenceBuilderProofs` | `EvidenceVerifies`, `PublishedNotOlder`, `SignedKeysKept` | |
| `MigrationsProofs` | `NoPoolLost`, `RepeatsExplained` | `MigrationHistory` |
| `RetrievalProofs` | `LogReplays`, `LevelFits`, `ResultsFit`; `AnswersComplete`, `DirectFirst` | |
| `TransportProofs` | `AnswersFit`, `MetricsAgree`, `NoServerLost` | |

**Assumptions.** They stand in the modules that declare the constants, and TLC
evaluates them in the runs: sets that bound a behaviour are finite (`Reqs`,
`Calls`, `Connections`), limits are numbers, inputs are records of the right
fields, and `None` is none of the values it stands beside (`NoneAssumption` of
several modules, `EvidenceBuilderAssumption`, `VaultAssumption`); the rules of
`buildEngine()` have ids of their own (`DefaultRulesAssumption`). What
`TransportAssumption` says of a script is what makes it one: requests with
bodies of natural length, whose wide characters lie within them. What
`UcoResolverAssumption` says of a world are types: queries and files are finite
sequences of codes and rows of their kind, and the database has a list, which may be
empty, for every occupation. `VaultAssumption` takes the limit of a query for a
natural number if there is one. Two theorems of the limiter
have a hypothesis: `ClientsNotLockedOut` that both limits are positive, for a
limit of zero does lock everybody out; `AdmissionsAlwaysBounded` that
`AdminWindow >= Window`, as in the defaults, for an address has one entry, and
a shorter administrative window would replace it early.

### The Wave 1 API

`EvaluationRecorded` is not inductive: it speaks of answered
requests, and the step that answers relies on where the request came from.
`IndInv` adds four facts. `PoolBalanced`: the connections in use are those of
the requests that wait for a reply. `RowFits`: a row that was sent or committed
is the row of its request *as the request still stands*, so that a statement
executed late cannot bring another decision; and an audit row of an evaluation
has its evidence committed. `StatementFits`: a statement in flight is in no table yet,
and its request waits for an insert or has ended. `PlaceFits`: a request at the audit insert has its
evidence committed, one that was not served has no decision, and one that reads
is of a reading kind.

`IndStep` goes through the actions. Those that concern one request go through
`MoveStep` (all other requests keep their rows, places and records) and `PoolStep`
(a connection is taken, given back, or not touched). The actions that answer
without a decision of the engine share one shape, `OtherAnswers` (a 500 tells DENY, the others
nothing: `Told`), and so one proof,
`OtherAnswerStep`. `Commit` and `Reject` move a row that fits already. `Exit` and
`Crash` forget the process, not the rows: `LoseMemory` empties the pool and the
places at once. The other process steps are `IdleStep`.

`EvidenceFirst` follows from `RowFits` alone. `ConfirmedIsAudited` states
`ConfirmedChangeAudited`, which the runs check as part of `ImplementsLedger`.
For the refinement, `LedgerStep` maps
`StartEvaluate` to `Decide`, `Commit` to `RecordEvidence` or `RecordAudit`,
`AuditStored` to `Disclose`, an answer with 500 to `FailClosed`, the other answers to
`AnswerOtherwise` (`OtherAnswerLedger`), and everything else to a stutter (`StutterLedger`);
`AnswersKept` says that the answers of other requests do not change. It needs
`IndInv`: that the row `Commit` moves is recorded after its evidence is `RowFits`.

The other four properties have invariants of their own beside `IndInv`, each with a
lemma that every step keeps it.

- `ProcessFits`, for `MetricsBalanced` and `ShutdownCutsNobodyOff`: a process that
  ends its pool has no sockets, one that is down serves nobody, who is served belongs to the process that runs and has no
  response yet (so a refusal is counted once), and a process that is down has counted
  nothing (so the next one starts at zero). The fold of the statuses, `Total`, is
  unfolded to the sum of the ten (`SumIs`), which makes an answer one more (`TotalAdds`).
  That the exit leaves no statement behind is `StatementFits` with `PoolBalanced`: who waits
  for a reply holds a connection.
- `ReadsFit`, for `ReadYourWrites`: whoever was answered before a request arrived
  stays answered, and decisions are of the past. Then the evidence `getEvidence` finds is
  the latest of a set that contains the one told before (`LatestExists`), and the audit
  log has the events `IndInv` says are stored. `PageIs` says what a page is, for a log of any
  length: selected events, and if it leaves one out it is full of events at least as new.
- `RulesFit`, for `DenyRuleInForce`: the engine holds rules of the code and of requests
  only, and every rule that was created in this process and has no rival is in it
  (`InForce`). Rivals only come (`RivalsOnward`), so who has none at the end had none
  before. `AddRuleIs` and `RemoveRuleIs` say that a change leaves rules of other ids
  in force, `DenyDecides` that such a rule is the head of the list sorted by priority,
  whichever rules match beside it; an evaluation that throws is a deny as well. It takes
  from the code that a created rule has the id of its audit event and a priority that
  is a number (`InputsAssumption`, `handleCreateRule`).

### The limiter

`NobodyLockedOut` needs `OpenerAdmitted`: the entry of an address was opened by a
request that was *admitted*, no later than one window before it ends. A refusal
changes only the count of an entry, so of requests that span more than a window the
last finds the entry over or opened among them. For `AdmissionsBounded` the
invariant guesses (`\E w : Windowed(w)`) which request opened the window each one
was counted in: windows of an address follow each other (`Openers`), the entry
counts what its window admitted (`EntriesFit`), and no window admits more of a class
than its maximum (`WindowsBounded`). Three windows do not begin in a span of
one (`ThreeDoNotFit`), so what the span admits is in two.

### The middleware

`PolicyFits` says that every set of rules in use is what *some store there has
been* made of it, and that a cached one expires a cache time after that store;
that is what survives a `storeRule` while an evaluation is awaited, where "the cache
agrees with the store" does not. `RequestFits` says, for each await, what the layers
behind it established and that the event about to be recorded agrees with the
decision. `LogFits` (an event per request at most, only when answered) and
`AnswerFits` speak of buffer and flushed events as one sequence, `Log`, so that
`Flush` does not change them; that is also the refinement. An answer that no layer is behind
says nothing of a decision, or DENY of a malformed body (`SaysNoMore`).

### The audit table

`TxFits` fixes what the transaction of a prune sees, statement by statement: while
its `ALTER TABLE` holds the lock, the committed rows are those it began with, and its
own are these without the expired ones. `RowsFit` gives a row one place, which
`NothingLost` needs at `COMMIT`. `ExposedFits` (rows that can be changed are known to
be exposed) and `TriggersFit` give `CompliantIsBlocked`; `ProtectionFits` adds who
will make the trigger again, and that the function it needs is there. In the
refinement a `COMMIT` is the abstract prune, and the statements before it stutter.

### Signer and builder

Four facts about key files: `PairsMatch` (the two keys of a process are equal, and
the files unless a save is under way or was interrupted), `FilesExist`,
`KeysKept` (before a key is replaced in memory it is in its file, in the archive, or
known to be unsaved; before a file is truncated, not only there) and, of the calls,
`CallsFit`: a call that nobody disturbed is the only one, the builder's fields are
those it wrote, and what was signed is made of them. `RecordsFit` is
what is left of it in a record: a signature by the published key with key files, and with Vault by a
version between 1 and the latest, the published one not before it.

### Pool and migrations

`PoolInv`: two jobs that connect at once are known to overlap; an open pool that did
not is the one of `getPool()`, and then nobody connects. `InOrder`: whoever works on
a file has all before it recorded, orphaned statements included, and names read as
applied stay applied. `NamesUnique`: at most one open transaction holds the name of a
file without a `COMMIT` of its own, which is what stops a second job. `FaultsCount`: while jobs migrate one at a time,
`executed[f]` and the executions nobody waits for are at most `faults`, plus one if
nobody can execute `f` again. The refinement to `MigrationHistory` takes
`InOrder` and `ExecutedFirst`.

### The vault

`LogReplays` and `LevelFits` are inductive with the types and `WaitingFits`:
a call that awaits its embedding was let in, so its partition is known.
`LogGrows` and `LastGrows` say what an appended entry does to the replay.
`ResultsFit` needs `Answered` (a result is what `Retrieve` makes of the query) and
`RetrieveFits`, which is about the pipeline alone, for every query: `KeepFits` (a filter keeps the members of a set, and makes
no duplicates), `RankFits` (a sort loses and adds nothing), `DeduplicateFits` and
`LimitFits`, put together in the order of `retrieve()`.

### The resolver

`ResolverInv` is about the index while loads overlap and fail: only rows of the files
come into it (`IndexSound`); a lookup that has not been rejected finds every file it
no longer waits for in it, whoever put it there (`LoadsKept`); when a lookup
freezes it, all rows are there (`FrozenComplete`), for that lookup waits for nothing;
and who has an answer took it from the frozen index (`FrozenAsked`). A second load may
double rows, so it says nothing of how often a row occurs.

What the traversal makes of such an index is proved for every database and every index.
`RowsAre`, `ExtendIs`, `FromCipAre`, `FromSocAre` and `SocToNaicsAre` say which codes
come out, and that none is lost. `BestAre`: the Map keeps each code once, and the codes
that came first in the list stay first. `InsertRanks` and `RankPathsAre`: every path has
the same confidence and risk, so the sort only brings direct matches forward; these have a
row from the program itself, so they are among the codes that come first anyway, and the
others keep their order. `CountIs` makes the length of the answer the number of codes.
`AnswersComplete` and `DirectFirst` follow by `AnswerIs`.

### Folds and sequences

What a fold computes for every sequence is an induction over data in which the step is
an operator, which no prover here can instantiate. `RetrievalProofs` keeps to functions
and sets: `FoldExists` constructs the fold for a step that is a function from `Steps(N, V)`,
`FoldSteps` reads its values off place by place, and one lemma per loop of the code
(`KeepUnfolds`, `RankUnfolds`, `DeduplicateUnfolds`, `RowsUnfold`, `ExtendUnfolds`,
`SocToNaicsUnfolds`, `BestUnfolds`, `RankPathsUnfolds`) expands `FoldLeft` of the
community modules down to its `CHOOSE` and shows that it is that fold. What they leave is a
function `f` with `f[0]` the start, `f[n]` one turn of the loop after `f[n - 1]`, and
`f[Len(s)]` the result; a loop invariant is then an ordinary one, by `Induct`, which has
the set of places where it holds in place of a predicate.

### The transports

`ConnectionFits` describes a stream (`SessionFits`: it has been given no more than its
own body, and what comes after it is unanswered) and a socket (`SocketFits`: nothing is
dispatched before its head is whole, only one request is ever answered). `Agrees`
makes the counters numbers of answers; `OneCounts` and `StreamCounts` say how these
cardinalities change when one answer is given or one stream begins. `LifecycleFits`
ties a closing server to the `stop()` that waits for it. Where the requests
of a script begin, `Offset`, is a recursive function of their number;
`OffsetExists` constructs it.

That construction, and the cardinalities, need induction over the natural
numbers. The library's induction theorem takes a predicate as its parameter, which the
provers cannot instantiate. `Least` gets around it where the predicate is a set:
a nonempty set of numbers has a least element, since `<` is well-founded.

### Only model-checked

- Liveness (`EveryRequestAnswered`, `ShutdownCompletes`, `AcceptedIsPublished`,
  `LockReleased`, `JobsEnd`): neither fairness nor `ENABLED` is in reach of the prover.


## 6. Where code and documents disagree

A run refutes one claim of the repository: `claim_public`. The test "should allow
public resource access" (`packages/gate-530/src/__tests__/api.test.ts:117`) expects
200 and `allow`; the built-in deny rule has the higher priority and throws for
every context (`api-server.ts:82`), so the engine denies.

Met while modelling, and stated here without a run of their own:

- The 500 of the API tells `decision: 'DENY'` (`api-server.ts:258`) without an event, after
  stored evidence of an `allow` as well, and on routes that decide nothing; likewise
  `handleError` of the middleware (`server.ts:320`) before any layer was asked.
- `server.close()` does not wait for a handler whose client has gone: the process may exit
  between its two inserts (`api-index.ts:60`), and evidence stays without its event.
- A JSON body `null` is answered 500, not 400, by both servers (`api-server.ts:344`,
  `server.ts:340`).
- An evaluation without `x-actor-id` stores its evidence, then fails to insert the
  audit event, for `anonymous` is no UUID (`api-server.ts:346`), where
  `WAVE1_MVP_SPEC.md:428` wants an event for every evaluation. Likewise an
  evidence id that is no UUID is answered 500 (`api-db.ts:122`), not 404.
- The deletion of a built-in rule is confirmed by an audit insert that fails, as
  its id is no UUID (`api-server.ts:514`): the rule is gone and no event says so.
- A confirmed rule is lost at the next start (`api-server.ts:493`).
- The middleware never stores the evidence of an early denial
  (`orchestrator.ts:221`), and a second evaluation with the same id replaces the
  first one's (`layers/evidence.ts:79`).
- `enforceWorm()` leaves the table open between DROP and CREATE (`worm.ts:37`).
- `prune_expired_audit_events` of migration 005 always fails on the trigger it
  means to get around (`005_audit_retention.sql:74`).
- `verifyWormStatus()` looks for triggers named `worm_%`; the migrations name theirs
  `trg_audit_events_worm` (`worm.ts:62`, `002_worm_triggers.sql:60`).
- The confidence of a path ignores that of its crosswalk rows
  (`traversal.ts:217`).
- A crash between the two key files leaves a pair that does not match and that the
  next start accepts (`signer.ts:148`).
- The signature covers neither the contents of the context nor those of the
  metadata: the list of keys given to `JSON.stringify` applies at every depth
  (`signer.ts:88`, `vault-transit.ts:82`), so that nested keys are dropped unless they
  bear the name of a top-level one. A change of the metadata while the signature is
  awaited does not show.
- The hash of a record is computed while its field `hash` is empty and verified
  while it is not (`evidence.ts:117`, `:131`), so `verifyEvidence` never succeeds.
- `addKey()` refuses a key that is there, the constructor keeps duplicates
  (`triple-publication.ts:12`), which a threshold then counts twice.
- `retrieve()` gives an actor access to the partition before it checks his access
  (`rag-vault.ts:103`), and the search never reads the documents that were added
  (`retrieval.ts:126`).
- A document that was removed while it was being added again comes back
  (`rag-vault.ts:193`); one without tags keeps those of its first partition when it
  moves (`rag-vault.ts:269`).
- When `connect()` succeeds and `SELECT 1` fails, the client is not released, and
  the `end()` of that attempt waits for it for ever (`connection.ts:36`), where
  `docs/Deployment_Readiness_Matrix.md:64` calls the pooling "robust (retry logic,
  SSL support, metrics)". No listener of the pool's `error` event exists either, so
  an idle connection that breaks ends the process.
- Two overlapping `createPool()` both pass the check that the error message of the
  second one speaks of (`connection.ts:56`); the pool of one of them is lost.
- Five scripts (`scripts/db/migrate.js:10`, `seed.js:7`, `grant.js:6`,
  `verify-worm.js:5`, `load-seeds.js:181`) do not await `createPool()` and work on
  its promise, so that their first query fails.
- Files 001 to 006 contain `BEGIN` and `COMMIT`: the transaction of
  `migrations.ts:71` ends inside them, and the row that records a file is inserted
  outside of it. The checksums it stores are never compared by `runMigrations()`.
- A character that two chunks share is replaced before it is parsed
  (`transport.ts:64`), and the decision is taken on the replaced text.
- The Unix socket dispatches a request when its head is complete, whatever has
  arrived of the body, drops what else is in the buffer, and ends the connection
  (`transport.ts:223`): an evaluation sent in two parts is answered 400.
- A second `start()` replaces the transport of the first, which nothing stops any
  more; closing a socket unlinks its path even if another transport has it by then
  (`transport.ts:282`). A `start()` that could not listen leaves its transport set,
  so that `stop()` rejects.


## 7. Not modelled

- **API**: CORS and the unreachable OPTIONS branch, a URL that does not parse, the
  operators `contains` and `regex`, confidence and explanation, connections that are kept
  open while they carry no request (an answered request leaves `sockets`), what becomes of an answer whose client has gone (it counts
  as told), negative limits and offsets of the audit log (PostgreSQL refuses them, which is
  a `QueryFail` like others), a second SIGTERM, API keys (their store is
  always empty), the sorting of durations, JWT and configuration parsing.
- **Middleware**: how text is classified, how documents are scored, JWTs, the
  unreachable catch of the evaluation, `wormEnabled = false`, `cacheEnabled = false`
  (a `CacheTtl` of 0), the conditions of policies (never evaluated), filters and
  order of the trail, and a tenant id of the form `tenant:sector:type`: `cachePolicies` writes under the
  bare tenant (`policy.ts:100`), which could then be the cache key of another tenant.
- **WORM**: `verifyWormIntegrity()` (after a legitimate prune its counters call the
  table non-compliant for ever), queries, grants. Locks are one lock of the table; CREATE
  FUNCTION waits for it too, which PostgreSQL does not ask for.
- **Resolver**: the census client, `getStateRequirements`, a resolver without files.
  The queries of one lookup are one step, as nothing writes those tables.
- **Signer, evidence**: bytes of keys and signatures, several processes on the same
  key files, the names of archived keys (taken as distinct, although they have the
  resolution of a millisecond), `healthCheck()` of Vault.
- **Vault**: scores, pgvector, `auditLogEnabled = false`, `maxDepth` of the
  configuration (never used), `registerPartition` (never called).
- **Pool, migrations**: metrics and `healthCheck()` of the pool, the end of a process
  by an unhandled `error` event (the crash of the model stands for it),
  `verifyMigrationChecksum()` and `getPendingMigrations()` (they only read), what the
  statements of a file do, and a `readdir`, `readFile` or `pool.connect()` that fails between two
  files (it ends the job as a failed query there does).
- **Transports**: the text of `GET /metrics`, a `stop()` before the callback of
  `listen()`, TLS, a body that is longer than its head announces.
- **Other components**: the rounds of `diagnostics.ts` can overlap, and the one that
  ends last has the last word, but nothing in the repository constructs them.
  `evidence-store.ts` and `vector-store.ts` do not parse at this commit
  (a constant declared twice at 56 and 60, a syntax error at 84), nor does `jcs.ts`,
  which declares the name it imports (1 and 10); the modules that are modelled are
  read each for itself. Triple publication, grants and invariants are sequential and
  have no state that steps could bring into disorder. Types,
  manifests, scripts and documents have no behaviour.
