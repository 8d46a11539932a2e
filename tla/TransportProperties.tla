-------------------------- MODULE TransportProperties --------------------------
(***************************************************************************)
(* What makes the transports correct, over the specification Transport.    *)
(***************************************************************************)
EXTENDS Transport

Type(c) == type[conn[c].server]

\* The connections and the places of the requests that have been answered on them.
Answered == UNION { {c} \X { i \in DOMAIN answer[c] : answer[c][i] # None } : c \in Connections }

\* Those on the connections of one start, and what became of them.
Mine(s)        == { pair \in Answered : conn[pair[1]].server = s }
DecidedOf(s)   == { pair \in Mine(s) : answer[pair[1]][pair[2]].decision # None }
RefusedOf(s)   == { pair \in Mine(s) : answer[pair[1]][pair[2]].status = 400 }
EvaluatedOf(s) == { pair \in Mine(s) : conn[pair[1]].script[pair[2]].kind = "evaluate" }
StreamingOn(s) == { c \in Connections : conn[c].streaming /\ conn[c].server = s }

\* The answer a is the one to a whole request of a kind with the context ctx.
Fits(kind, ctx, a) ==
    /\ a.status = Status(kind, ctx, TRUE)
    /\ a.decision = Decision(kind, ctx, TRUE)

(***************************************************************************)
(* handleRequest(), the listeners of 'data' and 'end': a request is given  *)
(* the decision of the engine on its own context, with two exceptions: on  *)
(* HTTP/2 one whose text was cut within a character gets the decision on   *)
(* what toString() made of it; on the socket one whose body did not come   *)
(* to its end with the head is refused with 400, never decided otherwise.  *)
(***************************************************************************)
AnswersFit ==
    \A pair \in Answered :
        LET c == pair[1]
            r == conn[c].script[pair[2]]
            a == answer[c][pair[2]]
        IN  \/ Fits(r.kind, r.ctx, a)
            \/ Type(c) = "http2" /\ r.wide # {} /\ Fits(r.kind, Garbled(r.ctx), a)
            \/ Type(c) = "ipc" /\ r.kind = "evaluate" /\ a.status = 400
                /\ conn[c].from # BodyEnd(conn[c].script, pair[2])

(***************************************************************************)
(* The counters of a transport: every request is answered, in progress, or *)
(* was cut off; an error is an answer with 400 or something that broke;    *)
(* and every body that parsed is an evaluation, whatever became of it.     *)
(***************************************************************************)
MetricsAgree ==
    \A s \in Starts :
        /\ metrics[s].requests = Cardinality(Mine(s)) + Cardinality(StreamingOn(s)) + lost[s]
        /\ metrics[s].errors = Cardinality(RefusedOf(s)) + failed[s]
        /\ IF type[s] = "http2"
           THEN metrics[s].evaluations = Cardinality(EvaluatedOf(s))
           ELSE metrics[s].evaluations \in
                    Cardinality(DecidedOf(s)) .. (Cardinality(EvaluatedOf(s)) + lost[s])

(***************************************************************************)
(* start(), stop(): a transport that listens can be reached and stopped,   *)
(* unless a start() came before the stop() of another transport returned.  *)
(***************************************************************************)
NoServerLost ==
    \A s \in Starts \ overlapped :
        server[s] = "listening" =>
            /\ transport = s
            /\ type[s] = "ipc" => path = s

================================================================================
