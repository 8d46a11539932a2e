------------------------------- MODULE Transport -------------------------------
(***************************************************************************)
(* Gate530Server of packages/gate-530/src/transport.ts: start(), stop(),   *)
(* and the two transports in front of the engine, Http2Transport and       *)
(* IpcTransport.  A handler and its answer are microtasks, so the chunk or *)
(* the end of stream that starts it and the answer are one step.           *)
(*                                                                         *)
(* The clients and the network are external: the bytes of a connection     *)
(* arrive in chunks cut anywhere.  A request is a head of HeadLength bytes *)
(* that its last byte completes, and a body.  chunk.toString() replaces a  *)
(* character of several bytes that two chunks share: the body still        *)
(* parses, with another text.  A body with bytes missing or too many does  *)
(* not parse.                                                              *)
(***************************************************************************)
EXTENDS RuleEngine, FiniteSets

CONSTANTS
    Rules, FailClosed,  \* of the engine
    Garbled(_),         \* a context whose text has been replaced
    HeadLength,
    Connections,        \* the sockets and sessions of the clients, each used once
    Scripts,            \* the requests a client may send on one, as sequences
    MaxStarts,          \* calls of start() at most
    None

\* A request: its kind, its context, the length of its body, and the places
\* between two bytes of one character.
ASSUME TransportAssumption ==
    /\ FailClosed \in BOOLEAN
    /\ HeadLength \in Nat \ {0}
    /\ MaxStarts \in Nat
    /\ IsFiniteSet(Connections)
    /\ None \notin 0 .. MaxStarts
    /\ None \notin [status : {200, 400, 404}, decision : Decisions \cup {None}]
    /\ \A script \in Scripts : Len(script) \in Nat \ {0} /\ DOMAIN script = 1 .. Len(script)
    /\ \A script \in Scripts : \A i \in DOMAIN script :
          /\ script[i].kind \in {"evaluate", "health", "metrics", "other"}
          /\ script[i].body \in Nat
          /\ script[i].wide \subseteq 1 .. (script[i].body - 1)

Starts == 1 .. MaxStarts

VARIABLES
    transport,      \* the start() whose transport the server has, or None
    server,         \* start -> "none", "listening", "closing", "closed" or "failed"
    type,           \* start -> config.type
    path,           \* the start whose socket the path leads to; 0: one of an earlier process
    stopping,       \* the start whose transport a stop() is closing, or None
    metrics,        \* start -> its counters
    conn,           \* connection -> its state
    answer,         \* connection -> the answers to its requests
    lost, failed,   \* history: start -> requests that got no answer, errors besides a 400
    overlapped      \* history: the starts that had not been stopped when the next one came

lifecycle == <<transport, server, type, path, stopping, overlapped>>
traffic == <<metrics, conn, answer, lost, failed>>
vars == <<lifecycle, traffic>>

Closed == [open |-> FALSE, server |-> None, script |-> <<>>, index |-> 0, streaming |-> FALSE,
           got |-> 0, from |-> 0, torn |-> FALSE, ended |-> FALSE]

Init ==
    /\ transport = None
    /\ server = [s \in Starts |-> "none"]
    /\ type = [s \in Starts |-> None]
    /\ path \in {None, 0}
    /\ stopping = None
    /\ metrics = [s \in Starts |-> [requests |-> 0, evaluations |-> 0, errors |-> 0]]
    /\ conn = [c \in Connections |-> Closed]
    /\ answer = [c \in Connections |-> <<>>]
    /\ lost = [s \in Starts |-> 0]
    /\ failed = [s \in Starts |-> 0]
    /\ overlapped = {}

-------------------------------------------------------------------------------
(* start() and stop().                                                     *)

Serving(s) == server[s] \in {"listening", "closing"}

\* A port that is in use cannot be listened on; a file at the path is unlinked.
Listens(s, t) ==
    IF t = "http2" /\ \E other \in Starts : server[other] = "listening" /\ type[other] = "http2"
    THEN server' = [server EXCEPT ![s] = "failed"] /\ UNCHANGED path
    ELSE server' = [server EXCEPT ![s] = "listening"] /\ path' = (IF t = "ipc" THEN s ELSE path)

\* The new transport replaces the one the server has.
Start(t) ==
    \E s \in Starts :
        /\ server[s] = "none" /\ \A earlier \in 1 .. (s - 1) : server[earlier] # "none"
        /\ type' = [type EXCEPT ![s] = t]
        /\ Listens(s, t)
        /\ transport' = s
        /\ overlapped' = overlapped \cup
                            (IF (transport # None /\ Serving(transport)) \/ stopping # None
                             THEN {s, transport, stopping} \ {None} ELSE {})
        /\ UNCHANGED <<stopping, traffic>>

\* Mutant: stop() does not wait for close().
StopAtOnce ==
    /\ transport # None /\ stopping = None
    /\ server[transport] = "listening"
    /\ server' = [server EXCEPT ![transport] = "closing"]
    /\ path' = IF type[transport] = "ipc" THEN None ELSE path
    /\ transport' = None
    /\ UNCHANGED <<type, stopping, overlapped, traffic>>

\* close() of a server that does not listen fails, and nothing changes.  One that
\* does takes no more connections, and libuv unlinks its path, whoever's it is.
Stop ==
    /\ transport # None /\ stopping = None
    /\ server[transport] = "listening"
    /\ server' = [server EXCEPT ![transport] = "closing"]
    /\ path' = IF type[transport] = "ipc" THEN None ELSE path
    /\ stopping' = transport
    /\ UNCHANGED <<transport, type, overlapped, traffic>>

\* The last connection is gone: the callback of close() unlinks the path again.
ServerClosed(s) ==
    /\ server[s] = "closing"
    /\ \A c \in Connections : conn[c].open => conn[c].server # s
    /\ server' = [server EXCEPT ![s] = "closed"]
    /\ path' = IF type[s] = "ipc" THEN None ELSE path
    /\ IF stopping = s
       THEN stopping' = None /\ transport' = None    \* the rest of stop()
       ELSE UNCHANGED <<stopping, transport>>
    /\ UNCHANGED <<type, overlapped, traffic>>

-------------------------------------------------------------------------------
(* handleRequest(), the same in both transports.                           *)

EvaluateAsync(ctx) ==
    IF FailClosed THEN Evaluate(Rules, <<>>, ctx) ELSE PerformEvaluation(Rules, <<>>, ctx)

\* What the handler makes of a request whose body is whole, or is not.
Status(kind, ctx, whole) ==
    IF kind = "other" THEN 404
    ELSE IF kind = "evaluate" /\ (~ whole \/ EvaluateAsync(ctx) = "throws") THEN 400
    ELSE 200

Decision(kind, ctx, whole) ==
    IF kind = "evaluate" /\ Status(kind, ctx, whole) = 200 THEN EvaluateAsync(ctx) ELSE None

\* Mutant: an evaluation is counted when it has succeeded.
CountedLate(counters, kind, ctx, whole) ==
    [counters EXCEPT
        !.evaluations = @ + (IF Decision(kind, ctx, whole) # None THEN 1 ELSE 0),
        !.errors = @ + (IF Status(kind, ctx, whole) = 400 THEN 1 ELSE 0)]

\* evaluationsTotal counts what parses, before the engine sees it.
Counted(counters, kind, ctx, whole) ==
    [counters EXCEPT
        !.evaluations = @ + (IF kind = "evaluate" /\ whole THEN 1 ELSE 0),
        !.errors = @ + (IF Status(kind, ctx, whole) = 400 THEN 1 ELSE 0)]

Reply(kind, ctx, whole) ==
    [status |-> Status(kind, ctx, whole), decision |-> Decision(kind, ctx, whole)]

-------------------------------------------------------------------------------
(* Connections.                                                            *)

Accepts(s) == server[s] = "listening" /\ (type[s] = "ipc" => path = s)

Connect(c) ==
    /\ conn[c] = Closed
    /\ \E s \in Starts, script \in Scripts :
          /\ Accepts(s)
          /\ conn' = [conn EXCEPT ![c] = [Closed EXCEPT !.open = TRUE, !.server = s, !.script = script]]
          /\ answer' = [answer EXCEPT ![c] = [i \in DOMAIN script |-> None]]
    /\ UNCHANGED <<lifecycle, metrics, lost, failed>>

IsOpen(c, t) == conn[c].open /\ type[conn[c].server] = t

\* The client closes, or the connection breaks: only the latter is an error.
Disconnect(c) ==
    /\ conn[c].open
    /\ LET s == conn[c].server IN
       /\ lost' = [lost EXCEPT ![s] = @ + (IF conn[c].streaming THEN 1 ELSE 0)]
       /\ \E errors \in {0, 1} :
             /\ failed' = [failed EXCEPT ![s] = @ + errors]
             /\ metrics' = [metrics EXCEPT ![s].errors = @ + errors]
    /\ conn' = [conn EXCEPT ![c].open = FALSE, ![c].streaming = FALSE]
    /\ UNCHANGED <<lifecycle, answer>>

-------------------------------------------------------------------------------
(* Http2Transport: the streams of a session, one after the other.          *)

Current(c) == conn[c].script[conn[c].index]

\* Mutant: the streams of a session share one body.
OpenStreamKeepsBody(c) ==
    /\ IsOpen(c, "http2")
    /\ ~ conn[c].streaming /\ conn[c].index < Len(conn[c].script)
    /\ conn' = [conn EXCEPT ![c].streaming = TRUE, ![c].index = @ + 1,
                            ![c].from = conn[c].got, ![c].torn = FALSE]
    /\ metrics' = [metrics EXCEPT ![conn[c].server].requests = @ + 1]
    /\ UNCHANGED <<lifecycle, answer, lost, failed>>

OpenStream(c) ==
    /\ IsOpen(c, "http2")
    /\ ~ conn[c].streaming /\ conn[c].index < Len(conn[c].script)
    /\ conn' = [conn EXCEPT ![c].streaming = TRUE, ![c].index = @ + 1,
                            ![c].got = 0, ![c].torn = FALSE]
    /\ metrics' = [metrics EXCEPT ![conn[c].server].requests = @ + 1]
    /\ UNCHANGED <<lifecycle, answer, lost, failed>>

StreamData(c) ==
    /\ IsOpen(c, "http2") /\ conn[c].streaming
    /\ \E upto \in (conn[c].got + 1) .. (conn[c].from + Current(c).body) :
          conn' = [conn EXCEPT ![c].got = upto,
                               ![c].torn = (@ \/ conn[c].got - conn[c].from \in Current(c).wide)]
    /\ UNCHANGED <<lifecycle, metrics, answer, lost, failed>>

StreamEnd(c) ==
    /\ IsOpen(c, "http2") /\ conn[c].streaming
    /\ conn[c].got - conn[c].from = Current(c).body
    /\ LET r == Current(c)
           ctx == IF conn[c].torn THEN Garbled(r.ctx) ELSE r.ctx
           whole == conn[c].got = r.body
       IN
       /\ answer' = [answer EXCEPT ![c][conn[c].index] = Reply(r.kind, ctx, whole)]
       /\ metrics' = [metrics EXCEPT ![conn[c].server] = Counted(@, r.kind, ctx, whole)]
    /\ conn' = [conn EXCEPT ![c].streaming = FALSE]
    /\ UNCHANGED <<lifecycle, lost, failed>>

-------------------------------------------------------------------------------
(* IpcTransport: the bytes of a socket.  `from` is where the buffer begins. *)

\* Where request i begins.
Offset(script, i) ==
    LET before[k \in 1 .. i] == IF k = 1 THEN 0 ELSE before[k - 1] + HeadLength + script[k - 1].body
    IN  before[i]

HeadEnd(script, i) == Offset(script, i) + HeadLength
BodyEnd(script, i) == HeadEnd(script, i) + script[i].body

\* The requests whose head is complete in the buffer of c when byte `upto` is there.
Heads(c, upto) ==
    { i \in DOMAIN conn[c].script : HeadEnd(conn[c].script, i) \in (conn[c].from + 1) .. upto }

FirstOf(indices) == CHOOSE i \in indices : \A other \in indices : i <= other

\* Whatever follows the head in the buffer is the body, and the buffer is
\* emptied.  The first answer ends the socket: after it a write fails.
Dispatch(c, i, upto) ==
    LET r == conn[c].script[i]
        s == conn[c].server
        kind == IF conn[c].from = Offset(conn[c].script, i) THEN r.kind ELSE "other"
        whole == upto = BodyEnd(conn[c].script, i)
        unwritable == IF conn[c].ended THEN 1 ELSE 0
        refusals == IF conn[c].ended /\ Status(kind, r.ctx, whole) = 400 THEN 1 ELSE 0
        counters == Counted([metrics[s] EXCEPT !.requests = @ + 1], kind, r.ctx, whole)
    IN
    /\ metrics' = [metrics EXCEPT ![s] = [counters EXCEPT !.errors = @ + unwritable]]
    /\ lost' = [lost EXCEPT ![s] = @ + unwritable]
    /\ failed' = [failed EXCEPT ![s] = @ + unwritable + refusals]
    /\ answer' = IF conn[c].ended THEN answer
                 ELSE [answer EXCEPT ![c][i] = Reply(kind, r.ctx, whole)]
    /\ conn' = [conn EXCEPT ![c].got = upto, ![c].from = upto,
                            ![c].ended = TRUE, ![c].open = ~ conn[c].ended]

SocketData(c) ==
    /\ IsOpen(c, "ipc")
    /\ \E upto \in (conn[c].got + 1) .. BodyEnd(conn[c].script, Len(conn[c].script)) :
          IF Heads(c, upto) = {}
          THEN conn' = [conn EXCEPT ![c].got = upto] /\ UNCHANGED <<metrics, answer, lost, failed>>
          ELSE Dispatch(c, FirstOf(Heads(c, upto)), upto)
    /\ UNCHANGED lifecycle

-------------------------------------------------------------------------------

Next ==
    \/ \E t \in {"http2", "ipc"} : Start(t)
    \/ Stop
    \/ \E s \in Starts : ServerClosed(s)
    \/ \E c \in Connections :
          \/ Connect(c) \/ Disconnect(c)
          \/ OpenStream(c) \/ StreamData(c) \/ StreamEnd(c)
          \/ SocketData(c)

Spec == Init /\ [][Next]_vars

================================================================================
