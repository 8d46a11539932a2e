---------------------------- MODULE ConnectionPool -----------------------------
(***************************************************************************)
(* The pool of a process that packages/cos-plus/src/connection.ts keeps,   *)
(* and the jobs that use it: a job calls createPool(), or getPool() when   *)
(* that is refused, works, and leaves the pool or closes it.               *)
(*                                                                         *)
(* pg.Pool is external: end() refuses a pool that is ending, and otherwise *)
(* waits until every client has been released; connect() refuses a pool    *)
(* that is ending.  The pool of createPool() bears the name of its job.    *)
(***************************************************************************)
EXTENDS Naturals, FiniteSets

CONSTANTS
    Jobs,           \* each runs once
    MaxRetries,     \* config.maxRetries
    None

ASSUME ConnectionPoolAssumption ==
    /\ MaxRetries \in Nat
    /\ None \notin Jobs

VARIABLES
    pc,             \* job -> where it is
    attempt,        \* job -> the attempts of connectWithRetry() that failed
    using,          \* job -> the pool it works on, or closes
    pool,           \* pool -> "none", "trying", "open", "ending" or "ended"
    held,           \* pool -> the jobs that have a client of it
    poolInstance,
    poolConfig,     \* whether it is set
    overlapped      \* history: the pools whose createPool() overlapped another one

poolVars == <<pc, attempt, using, pool, held, poolInstance, poolConfig, overlapped>>

PoolInit ==
    /\ pc = [j \in Jobs |-> "idle"]
    /\ attempt = [j \in Jobs |-> 0]
    /\ using = [j \in Jobs |-> None]
    /\ pool = [p \in Jobs |-> "none"]
    /\ held = [p \in Jobs |-> {}]
    /\ poolInstance = None
    /\ poolConfig = FALSE
    /\ overlapped = {}

At(j, label) == pc[j] = label
Goto(j, label) == pc' = [pc EXCEPT ![j] = label]

Connecting == { j \in Jobs : pc[j] = "connecting" }

IsOpen(p) == pool[p] = "open"

-------------------------------------------------------------------------------
(* createPool(), getPool().                                                *)

\* Mutant: the check of poolInstance is dropped.
CreatePoolAlways(j) ==
    /\ At(j, "idle")
    /\ poolConfig' = TRUE
    /\ pool' = [pool EXCEPT ![j] = "trying"]
    /\ Goto(j, "connecting")
    /\ overlapped' = IF Connecting = {} THEN overlapped ELSE overlapped \cup Connecting \cup {j}
    /\ UNCHANGED <<attempt, using, held, poolInstance>>

CreatePool(j) ==
    /\ At(j, "idle")
    /\ poolInstance = None
    /\ poolConfig' = TRUE
    /\ pool' = [pool EXCEPT ![j] = "trying"]
    /\ Goto(j, "connecting")
    /\ overlapped' = IF Connecting = {} THEN overlapped ELSE overlapped \cup Connecting \cup {j}
    /\ UNCHANGED <<attempt, using, held, poolInstance>>

\* createPool() throws, and its message sends the caller to getPool().
GetPool(j) ==
    /\ At(j, "idle")
    /\ poolInstance # None
    /\ using' = [using EXCEPT ![j] = poolInstance]
    /\ Goto(j, "ready")
    /\ UNCHANGED <<attempt, pool, held, poolInstance, poolConfig, overlapped>>

\* The pool of an attempt that could not connect has no client, so its end() returns.
ConnectFails(j) ==
    /\ At(j, "connecting")
    /\ IF attempt[j] < MaxRetries
       THEN attempt' = [attempt EXCEPT ![j] = @ + 1] /\ UNCHANGED <<pc, pool>>
       ELSE Goto(j, "done") /\ pool' = [pool EXCEPT ![j] = "ended"] /\ UNCHANGED attempt
    /\ UNCHANGED <<using, held, poolInstance, poolConfig, overlapped>>

\* connect() succeeds and SELECT 1 does not: nothing releases the client.
FirstQueryFails(j) ==
    /\ At(j, "connecting")
    /\ pool' = [pool EXCEPT ![j] = "ending"]
    /\ held' = [held EXCEPT ![j] = {j}]
    /\ Goto(j, "hangs")
    /\ UNCHANGED <<attempt, using, poolInstance, poolConfig, overlapped>>

Connected(j) ==
    /\ At(j, "connecting")
    /\ pool' = [pool EXCEPT ![j] = "open"]
    /\ poolInstance' = j
    /\ using' = [using EXCEPT ![j] = j]
    /\ Goto(j, "ready")
    /\ UNCHANGED <<attempt, held, poolConfig, overlapped>>

-------------------------------------------------------------------------------
(* closePool(), with the pool of the job or without an argument.           *)

EndPool(j, p) ==
    /\ pool' = [pool EXCEPT ![p] = "ending"]
    /\ using' = [using EXCEPT ![j] = p]
    /\ Goto(j, "closing")

ClosePool(j) ==
    /\ At(j, "finished")
    /\ \E p \in {using[j], poolInstance} \ {None} :
          IF IsOpen(p)
          THEN EndPool(j, p)
          ELSE Goto(j, "done") /\ UNCHANGED <<pool, using>>    \* end() throws
    /\ UNCHANGED <<attempt, held, poolInstance, poolConfig, overlapped>>

Leave(j) ==
    /\ At(j, "finished")
    /\ Goto(j, "done")
    /\ UNCHANGED <<attempt, using, pool, held, poolInstance, poolConfig, overlapped>>

PoolEnds(p) ==
    /\ pool[p] = "ending" /\ held[p] = {}
    /\ pool' = [pool EXCEPT ![p] = "ended"]
    /\ UNCHANGED <<pc, attempt, using, held, poolInstance, poolConfig, overlapped>>

ClosePoolEnds(j) ==
    /\ At(j, "closing")
    /\ pool[using[j]] = "ended"
    /\ IF using[j] = poolInstance
       THEN poolInstance' = None /\ poolConfig' = FALSE
       ELSE UNCHANGED <<poolInstance, poolConfig>>
    /\ Goto(j, "done")
    /\ UNCHANGED <<attempt, using, pool, held, overlapped>>

-------------------------------------------------------------------------------

PoolStep(j) ==
    \/ CreatePool(j) \/ GetPool(j)
    \/ ConnectFails(j) \/ FirstQueryFails(j) \/ Connected(j)
    \/ ClosePool(j) \/ Leave(j) \/ PoolEnds(j) \/ ClosePoolEnds(j)

\* The process ends; the jobs that have not begun run in the next one.
ProcessEnds ==
    /\ pc' = [j \in Jobs |-> IF At(j, "idle") THEN "idle" ELSE "done"]
    /\ pool' = [p \in Jobs |-> IF pool[p] = "none" THEN "none" ELSE "ended"]
    /\ held' = [p \in Jobs |-> {}]
    /\ poolInstance' = None
    /\ poolConfig' = FALSE
    /\ UNCHANGED <<attempt, using, overlapped>>

================================================================================
