---------------------------- MODULE TransportProofs ----------------------------
(***************************************************************************)
(* Proofs about Transport, for every set of connections and scripts, every *)
(* number of starts and every way the network cuts the bytes.              *)
(***************************************************************************)
EXTENDS TransportProperties, FiniteSetTheorems, WellFoundedInduction, TLAPS

Replies == [status : {200, 400, 404}, decision : Decisions \cup {None}]

ConnectionType == [open : BOOLEAN, server : Starts \cup {None}, script : Scripts \cup {<<>>},
                   index : Nat, streaming : BOOLEAN, got : Nat, from : Nat,
                   torn : BOOLEAN, ended : BOOLEAN]

Counters == [requests : Nat, evaluations : Nat, errors : Nat]

Types ==
    /\ transport \in Starts \cup {None} /\ stopping \in Starts \cup {None}
    /\ server \in [Starts -> {"none", "listening", "closing", "closed", "failed"}]
    /\ DOMAIN type = Starts
    /\ \A s \in Starts : server[s] # "none" => type[s] \in {"http2", "ipc"}
    /\ metrics \in [Starts -> Counters]
    /\ lost \in [Starts -> Nat] /\ failed \in [Starts -> Nat]
    /\ conn \in [Connections -> ConnectionType]
    /\ DOMAIN answer = Connections

(***************************************************************************)
(* start() and stop(): the server that is closing is the one a stop()      *)
(* waits for, and nothing else listens meanwhile unless it overlapped.     *)
(***************************************************************************)
LifecycleFits ==
    /\ \A s \in Starts : server[s] = "closing" => stopping = s
    /\ stopping # None => \A s \in Starts \ overlapped : server[s] # "listening"
    /\ NoServerLost

Unanswered(c, i) == answer[c][i] = None

AnswerFits(c, i) ==
    LET r == conn[c].script[i]
        a == answer[c][i]
    IN  \/ Fits(r.kind, r.ctx, a)
        \/ Type(c) = "http2" /\ r.wide # {} /\ Fits(r.kind, Garbled(r.ctx), a)
        \/ Type(c) = "ipc" /\ r.kind = "evaluate" /\ a.status = 400
            /\ conn[c].from # BodyEnd(conn[c].script, i)

\* A session: the stream that is open has been given no more than its own body.
SessionFits(c) ==
    /\ conn[c].from = 0 /\ ~ conn[c].ended /\ conn[c].index <= Len(conn[c].script)
    /\ conn[c].streaming => /\ conn[c].open /\ conn[c].index \in DOMAIN conn[c].script
                            /\ conn[c].got <= Current(c).body
                            /\ conn[c].torn => Current(c).wide # {}
    /\ \A i \in DOMAIN conn[c].script :
          i > conn[c].index \/ (i = conn[c].index /\ conn[c].streaming) => Unanswered(c, i)

\* A socket: nothing is dispatched before the first head is whole, nothing but it is answered.
SocketFits(c) ==
    /\ ~ conn[c].streaming
    /\ \A i \in DOMAIN conn[c].script : Unanswered(c, i) \/ (conn[c].ended /\ i = 1)
    /\ IF conn[c].ended THEN conn[c].from >= HeadEnd(conn[c].script, 1) ELSE conn[c].from = 0

ConnectionFits(c) ==
    IF conn[c].server = None
    THEN conn[c] = Closed /\ answer[c] = <<>>
    ELSE /\ server[conn[c].server] # "none" /\ conn[c].script \in Scripts
         /\ answer[c] \in [DOMAIN conn[c].script -> Replies \cup {None}]
         /\ Type(c) = "http2" => SessionFits(c)
         /\ Type(c) = "ipc" => SocketFits(c)
         /\ \A i \in DOMAIN conn[c].script : Unanswered(c, i) \/ AnswerFits(c, i)

\* The counters of a transport nobody has started.
FreshMetrics == \A s \in Starts : server[s] = "none" => metrics[s].evaluations = 0 /\ lost[s] = 0

\* MetricsAgree, of one transport.
Agrees(s) ==
    /\ metrics[s].requests = Cardinality(Mine(s)) + Cardinality(StreamingOn(s)) + lost[s]
    /\ metrics[s].errors = Cardinality(RefusedOf(s)) + failed[s]
    /\ type[s] = "http2" => metrics[s].evaluations = Cardinality(EvaluatedOf(s))
    /\ type[s] # "http2" => /\ metrics[s].evaluations \in Nat
                            /\ Cardinality(DecidedOf(s)) <= metrics[s].evaluations
                            /\ metrics[s].evaluations <= Cardinality(EvaluatedOf(s)) + lost[s]

IndInv ==
    /\ Types /\ LifecycleFits /\ FreshMetrics
    /\ \A c \in Connections : ConnectionFits(c)
    /\ \A s \in Starts : Agrees(s)

-------------------------------------------------------------------------------
(* Where the requests of a script begin.                                   *)

LEMMA HeadTypes == HeadLength \in Nat /\ HeadLength > 0 /\ MaxStarts \in Nat
BY TransportAssumption

LEMMA ScriptTypes ==
    ASSUME NEW script \in Scripts
    PROVE  /\ Len(script) \in Nat /\ Len(script) > 0 /\ DOMAIN script = 1 .. Len(script)
           /\ \A i \in DOMAIN script : /\ script[i].kind \in {"evaluate", "health", "metrics", "other"}
                                       /\ script[i].body \in Nat
                                       /\ script[i].wide \subseteq 1 .. (script[i].body - 1)
<1>1. Len(script) \in Nat \ {0} /\ DOMAIN script = 1 .. Len(script)
  BY TransportAssumption
<1>2. \A i \in DOMAIN script : /\ script[i].kind \in {"evaluate", "health", "metrics", "other"}
                              /\ script[i].body \in Nat
                              /\ script[i].wide \subseteq 1 .. (script[i].body - 1)
  BY TransportAssumption
<1>3. QED
  BY <1>1, <1>2

\* A set of natural numbers that is not empty has a least element.
LEMMA Least ==
    ASSUME NEW T, T \subseteq Nat, T # {}
    PROVE  \E x \in T : \A y \in T : x <= y
<1>1. PICK R : R = OpToRel(<, Nat)
  OBVIOUS
<1>2. \A x, y \in Nat : x < y => <<x, y>> \in R
  BY <1>1 DEF OpToRel
<1>3. IsWellFoundedOn(R, Nat)
  BY <1>1, NatLessThanWellFounded
<1>4. PICK x \in T : \A y \in T : ~ (<<y, x>> \in R)
  BY <1>3, WFMin
<1>5. ASSUME NEW y \in T PROVE x <= y
  <2>1. x \in Nat /\ y \in Nat
    OBVIOUS
  <2>2. ~ y < x
    BY <1>2, <1>4, <2>1
  <2>3. QED
    BY <2>1, <2>2
<1>6. QED
  BY <1>5

\* The recursive function in Offset exists: if not, there is a shortest prefix without one.
LEMMA OffsetExists ==
    ASSUME NEW script, NEW n \in Nat \ {0}, \A k \in 1 .. n : script[k].body \in Nat
    PROVE  \E f \in [1 .. n -> Nat] :
              f = [k \in 1 .. n |-> IF k = 1 THEN 0 ELSE f[k - 1] + HeadLength + script[k - 1].body]
<1> DEFINE P(m) == \E f \in [1 .. m -> Nat] :
              f = [k \in 1 .. m |-> IF k = 1 THEN 0 ELSE f[k - 1] + HeadLength + script[k - 1].body]
<1> DEFINE T == { m \in 1 .. n : ~ P(m) }
<1>1. CASE T = {}
  <2>1. n \in 1 .. n
    OBVIOUS
  <2>2. P(n)
    BY <1>1, <2>1
  <2>3. QED
    BY <2>2
<1>2. CASE T # {}
  <2>1. T \subseteq Nat
    OBVIOUS
  <2>2. PICK m \in T : \A y \in T : m <= y
    <3> HIDE DEF T
    <3>1. QED
      BY <1>2, <2>1, Least
  <2>3. m \in 1 .. n /\ ~ P(m)
    BY <2>2
  <2>4. CASE m = 1
    <3>1. PICK f : f = [k \in 1 .. 1 |-> 0]
      OBVIOUS
    <3>2. /\ f \in [1 .. m -> Nat]
          /\ f = [k \in 1 .. m |-> IF k = 1 THEN 0 ELSE f[k - 1] + HeadLength + script[k - 1].body]
      BY <2>4, <3>1
    <3>3. QED
      BY <2>3, <3>2
  <2>5. CASE m # 1
    <3>1. PICK l \in 1 .. n : l = m - 1
      BY <2>3, <2>5
    <3>2. P(l)
      <4>1. l \notin T
        <5> HIDE DEF T
        <5>1. QED
          BY <2>2, <2>3, <3>1
      <4>2. QED
        BY <3>1, <4>1
    <3>3. PICK g \in [1 .. l -> Nat] :
              g = [k \in 1 .. l |-> IF k = 1 THEN 0 ELSE g[k - 1] + HeadLength + script[k - 1].body]
      BY <3>2
    <3>4. PICK f : f = [k \in 1 .. m |-> IF k = m THEN g[l] + HeadLength + script[l].body ELSE g[k]]
      OBVIOUS
    <3>5. g[l] + HeadLength + script[l].body \in Nat
      <4>1. l \in 1 .. l
        BY <3>1
      <4>2. g[l] \in Nat
        BY <3>3, <4>1
      <4>3. script[l].body \in Nat
        BY <3>1
      <4>4. QED
        BY <4>2, <4>3, HeadTypes
    <3>6. f \in [1 .. m -> Nat]
      BY <3>4, <3>5, <3>1, <2>3
    <3>7. ASSUME NEW k \in 1 .. m
          PROVE  f[k] = IF k = 1 THEN 0 ELSE f[k - 1] + HeadLength + script[k - 1].body
      <4>1. CASE k = m
        <5>1. k - 1 = l /\ k # 1 /\ l \in 1 .. m /\ l # m /\ f[l] = g[l]
          BY <2>3, <2>5, <3>1, <3>4, <4>1
        <5>2. QED
          BY <3>4, <4>1, <5>1
      <4>2. CASE k # m
        <5>1. k \in 1 .. l /\ (k # 1 => k - 1 \in 1 .. l)
          BY <2>3, <3>1, <4>2
        <5>2. f[k] = g[k] /\ (k # 1 => k - 1 \in 1 .. m /\ k - 1 # m /\ f[k - 1] = g[k - 1])
          BY <5>1, <2>3, <3>1, <3>4, <4>2
        <5>3. g[k] = IF k = 1 THEN 0 ELSE g[k - 1] + HeadLength + script[k - 1].body
          BY <3>3, <5>1
        <5>4. QED
          BY <5>2, <5>3
      <4>3. QED
        BY <4>1, <4>2
    <3>8. f = [k \in 1 .. m |-> IF k = 1 THEN 0 ELSE f[k - 1] + HeadLength + script[k - 1].body]
      BY <3>4, <3>7
    <3>9. P(m)
      BY <3>6, <3>8
    <3>10. QED
      BY <2>3, <3>9
  <2>6. QED
    BY <2>4, <2>5
<1>3. QED
  BY <1>1, <1>2

\* Offset is a value of a function that satisfies the equations of its definition.
LEMMA OffsetUnfolds ==
    ASSUME NEW script, NEW n \in Nat \ {0}, \A k \in 1 .. n : script[k].body \in Nat
    PROVE  \E f : /\ f = [k \in 1 .. n |-> IF k = 1 THEN 0 ELSE f[k - 1] + HeadLength + script[k - 1].body]
                  /\ Offset(script, n) = f[n]
<1> DEFINE E(f) == [k \in 1 .. n |-> IF k = 1 THEN 0 ELSE f[k - 1] + HeadLength + script[k - 1].body]
<1>1. PICK g : g = CHOOSE f : f = E(f)
  OBVIOUS
<1>2. \E f : f = E(f)
  <2>1. PICK f \in [1 .. n -> Nat] : f = E(f)
    BY OffsetExists
  <2> HIDE DEF E
  <2>2. QED
    BY <2>1
<1>3. g = E(g)
  <2> HIDE DEF E
  <2>1. QED
    BY <1>1, <1>2
<1>4. Offset(script, n) = g[n]
  BY <1>1 DEF Offset
<1>5. QED
  BY <1>3, <1>4

\* The first request of a script begins at 0, the others behind the first.
LEMMA Offsets ==
    ASSUME NEW script \in Scripts, NEW n \in DOMAIN script
    PROVE  /\ Offset(script, n) \in Nat
           /\ n = 1 => Offset(script, n) = 0
           /\ n # 1 => Offset(script, n) >= HeadLength + script[1].body
<1>0. n \in Nat \ {0} /\ \A k \in 1 .. n : script[k].body \in Nat
  BY ScriptTypes
<1>1. PICK f : /\ f = [k \in 1 .. n |-> IF k = 1 THEN 0 ELSE f[k - 1] + HeadLength + script[k - 1].body]
               /\ Offset(script, n) = f[n]
  BY <1>0, OffsetUnfolds
<1>2. \A k \in 1 .. n : f[k] = IF k = 1 THEN 0 ELSE f[k - 1] + HeadLength + script[k - 1].body
  BY <1>1
<1> DEFINE Good(k) == f[k] \in Nat /\ (k = 1 => f[k] = 0) /\ (k # 1 => f[k] >= HeadLength + script[1].body)
<1> DEFINE T == { k \in 1 .. n : ~ Good(k) }
<1>3. CASE T # {}
  <2>1. PICK m \in T : \A y \in T : m <= y
    <3>1. T \subseteq Nat
      OBVIOUS
    <3> HIDE DEF T
    <3>2. QED
      BY <1>3, <3>1, Least
  <2>2. m \in 1 .. n /\ ~ Good(m)
    BY <2>1
  <2>3. m # 1
    BY <1>2, <2>2
  <2>4. PICK l \in 1 .. n : l = m - 1
    <3>1. m \in 1 .. n
      BY <2>2
    <3> HIDE DEF Good, T
    <3>2. QED
      BY <1>0, <2>3, <3>1
  <2>5. Good(l)
    <3>1. l \notin T
      <4> HIDE DEF T
      <4>1. QED
        BY <2>1, <2>2, <2>4
    <3>2. QED
      BY <3>1
  <2>6. f[m] = f[l] + HeadLength + script[l].body /\ script[l].body \in Nat /\ HeadLength \in Nat
    BY <1>0, <1>2, <2>2, <2>3, <2>4, HeadTypes
  <2>7. Good(m)
    <3>1. CASE l = 1
      <4>1. f[m] = HeadLength + script[1].body
        BY <2>5, <2>6, <3>1
      <4>2. QED
        BY <2>3, <2>6, <3>1, <4>1
    <3>2. CASE l # 1
      <4>1. f[l] \in Nat /\ f[l] >= HeadLength + script[1].body /\ script[1].body \in Nat
        BY <1>0, <2>5, <3>2
      <4>2. f[m] \in Nat /\ f[m] >= HeadLength + script[1].body
        BY <2>6, <4>1
      <4>3. QED
        BY <2>3, <4>2
    <3>3. QED
      BY <3>1, <3>2
  <2>8. QED
    BY <2>2, <2>7
<1>4. CASE T = {}
  <2>1. n \in 1 .. n
    BY <1>0
  <2>2. Good(n)
    BY <1>4, <2>1
  <2>3. QED
    BY <1>1, <2>2
<1>5. QED
  BY <1>3, <1>4

LEMMA BodyEnds ==
    ASSUME NEW script \in Scripts, NEW n \in DOMAIN script
    PROVE  /\ 1 \in DOMAIN script /\ HeadEnd(script, 1) = HeadLength
           /\ BodyEnd(script, 1) = HeadLength + script[1].body /\ script[1].body \in Nat
           /\ HeadEnd(script, n) \in Nat /\ BodyEnd(script, n) \in Nat
           /\ HeadEnd(script, n) >= HeadLength
           /\ n # 1 => HeadEnd(script, n) > BodyEnd(script, 1)
<1>1. 1 \in DOMAIN script /\ script[1].body \in Nat /\ script[n].body \in Nat
  BY ScriptTypes
<1>2. Offset(script, 1) = 0
  BY <1>1, Offsets
<1>3. QED
  BY <1>1, <1>2, Offsets, HeadTypes DEF HeadEnd, BodyEnd

-------------------------------------------------------------------------------
(* start() and stop().                                                     *)

Lifecycle == \/ \E t \in {"http2", "ipc"} : Start(t)
             \/ Stop
             \/ \E s \in Starts : ServerClosed(s)

LEMMA NoneTypes == None \notin Starts /\ None \notin Replies /\ None # 0
<1>1. None \notin 0 .. MaxStarts /\ None \notin Replies /\ MaxStarts \in Nat
  BY TransportAssumption DEF Replies
<1>2. QED
  BY <1>1 DEF Starts

\* A transport that has been started keeps its type, and one that has not is left alone.
LEMMA StartEffect ==
    ASSUME Types, NEW t \in {"http2", "ipc"}, Start(t)
    PROVE  \E s \in Starts :
              /\ server[s] = "none" /\ transport' = s /\ stopping' = stopping
              /\ type' = [type EXCEPT ![s] = t]
              /\ server' \in {[server EXCEPT ![s] = "failed"], [server EXCEPT ![s] = "listening"]}
              /\ t = "ipc" => path' = s
              /\ t = "http2" => path' = path
              /\ overlapped' = overlapped \cup
                                  (IF (transport # None /\ Serving(transport)) \/ stopping # None
                                   THEN {s, transport, stopping} \ {None} ELSE {})
              /\ UNCHANGED traffic
<1>1. PICK s \in Starts :
        /\ server[s] = "none"
        /\ type' = [type EXCEPT ![s] = t]
        /\ Listens(s, t)
        /\ transport' = s
        /\ overlapped' = overlapped \cup
                            (IF (transport # None /\ Serving(transport)) \/ stopping # None
                             THEN {s, transport, stopping} \ {None} ELSE {})
        /\ UNCHANGED <<stopping, traffic>>
  BY DEF Start
<1>2. /\ server' \in {[server EXCEPT ![s] = "failed"], [server EXCEPT ![s] = "listening"]}
      /\ t = "ipc" => path' = s
      /\ t = "http2" => path' = path
  BY <1>1 DEF Listens
<1>3. QED
  BY <1>1, <1>2

LEMMA LifecycleStep ==
    ASSUME Types, LifecycleFits, Lifecycle
    PROVE  LifecycleFits'
<1>0. None \notin Starts
  BY NoneTypes
<1>1. ASSUME NEW t \in {"http2", "ipc"}, Start(t) PROVE LifecycleFits'
  <2>1. PICK s \in Starts :
              /\ server[s] = "none" /\ transport' = s /\ stopping' = stopping
              /\ type' = [type EXCEPT ![s] = t]
              /\ server' \in {[server EXCEPT ![s] = "failed"], [server EXCEPT ![s] = "listening"]}
              /\ t = "ipc" => path' = s
              /\ t = "http2" => path' = path
              /\ overlapped' = overlapped \cup
                                  (IF (transport # None /\ Serving(transport)) \/ stopping # None
                                   THEN {s, transport, stopping} \ {None} ELSE {})
    BY <1>1, StartEffect
  <2>2. /\ server'[s] \in {"failed", "listening"} /\ type'[s] = t
        /\ \A q \in Starts \ {s} : server'[q] = server[q] /\ type'[q] = type[q]
    BY <2>1 DEF Types
  <2>3. \A q \in Starts \ overlapped' : q # s => server[q] # "listening"
    BY <1>0, <2>1 DEF LifecycleFits, NoServerLost, Serving
  <2>4. stopping # None => s \in overlapped'
    BY <1>0, <2>1
  <2>5. overlapped \subseteq overlapped'
    BY <2>1
  <2>6. QED
    BY <1>0, <2>1, <2>2, <2>3, <2>4, <2>5 DEF LifecycleFits, NoServerLost
<1>2. CASE Stop
  BY <1>0, <1>2 DEF Stop, Types, LifecycleFits, NoServerLost
<1>3. ASSUME NEW s \in Starts, ServerClosed(s) PROVE LifecycleFits'
  <2>1. stopping = s /\ server' = [server EXCEPT ![s] = "closed"] /\ stopping' = None /\ overlapped' = overlapped
    BY <1>3 DEF ServerClosed, LifecycleFits
  <2>2. \A q \in Starts \ overlapped : server'[q] # "listening"
    BY <1>0, <2>1 DEF LifecycleFits, Types
  <2>3. \A q \in Starts : server'[q] # "closing"
    BY <1>0, <2>1 DEF LifecycleFits, Types
  <2>4. QED
    BY <2>1, <2>2, <2>3 DEF LifecycleFits, NoServerLost
<1>4. QED
  BY <1>1, <1>2, <1>3 DEF Lifecycle

LEMMA LifecycleTypes ==
    ASSUME Types, Lifecycle
    PROVE  /\ Types' /\ UNCHANGED traffic
           /\ \A s \in Starts : server[s] # "none" => server'[s] # "none" /\ type'[s] = type[s]
<1>1. ASSUME NEW t \in {"http2", "ipc"}, Start(t)
      PROVE  /\ Types' /\ UNCHANGED traffic
             /\ \A s \in Starts : server[s] # "none" => server'[s] # "none" /\ type'[s] = type[s]
  <2>1. PICK s \in Starts :
              /\ server[s] = "none" /\ transport' = s /\ stopping' = stopping
              /\ type' = [type EXCEPT ![s] = t]
              /\ server' \in {[server EXCEPT ![s] = "failed"], [server EXCEPT ![s] = "listening"]}
              /\ UNCHANGED traffic
    BY <1>1, StartEffect
  <2>2. /\ server' \in [Starts -> {"none", "listening", "closing", "closed", "failed"}]
        /\ DOMAIN type' = Starts /\ type'[s] = t
        /\ \A q \in Starts \ {s} : server'[q] = server[q] /\ type'[q] = type[q]
    BY <2>1 DEF Types
  <2>3. \A q \in Starts : server'[q] # "none" => type'[q] \in {"http2", "ipc"}
    BY <2>2 DEF Types
  <2>4. QED
    BY <2>1, <2>2, <2>3 DEF Types, traffic
<1>2. CASE Stop
  BY <1>2 DEF Stop, Types, traffic
<1>3. ASSUME NEW s \in Starts, ServerClosed(s)
      PROVE  /\ Types' /\ UNCHANGED traffic
             /\ \A q \in Starts : server[q] # "none" => server'[q] # "none" /\ type'[q] = type[q]
  BY <1>3 DEF ServerClosed, Types, traffic
<1>4. QED
  BY <1>1, <1>2, <1>3 DEF Lifecycle

-------------------------------------------------------------------------------
(* The counters, in sets of answers.                                       *)

LEMMA AnsweredIs ==
    /\ \A c, i : <<c, i>> \in Answered <=> c \in Connections /\ i \in DOMAIN answer[c] /\ answer[c][i] # None
    /\ \A p \in Answered : p = <<p[1], p[2]>>
BY DEF Answered

LEMMA AnsweredFinite ==
    ASSUME IndInv
    PROVE  \A s : /\ IsFiniteSet(Mine(s)) /\ IsFiniteSet(DecidedOf(s)) /\ IsFiniteSet(RefusedOf(s))
                  /\ IsFiniteSet(EvaluatedOf(s)) /\ IsFiniteSet(StreamingOn(s))
                  /\ Cardinality(Mine(s)) \in Nat /\ Cardinality(DecidedOf(s)) \in Nat
                  /\ Cardinality(RefusedOf(s)) \in Nat /\ Cardinality(EvaluatedOf(s)) \in Nat
                  /\ Cardinality(StreamingOn(s)) \in Nat
<1>0. IsFiniteSet(Connections)
  BY TransportAssumption
<1>1. ASSUME NEW c \in Connections PROVE IsFiniteSet(DOMAIN answer[c])
  <2>1. CASE conn[c].server = None
    <3>1. DOMAIN answer[c] = {}
      BY <2>1 DEF IndInv, ConnectionFits
    <3>2. QED
      BY <3>1, FS_EmptySet
  <2>2. CASE conn[c].server # None
    <3>1. DOMAIN answer[c] = 1 .. Len(conn[c].script) /\ Len(conn[c].script) \in Nat
      BY <2>2, ScriptTypes DEF IndInv, ConnectionFits
    <3>2. QED
      BY <3>1, FS_Interval
  <2>3. QED
    BY <2>1, <2>2
<1>2. ASSUME NEW c \in Connections PROVE IsFiniteSet({c} \X DOMAIN answer[c])
  BY <1>1, <1>2, FS_Singleton, FS_Product
<1>3. PICK all : all = { {c} \X DOMAIN answer[c] : c \in Connections }
  OBVIOUS
<1>4. IsFiniteSet(all)
  <2>1. PICK f : f = [c \in Connections |-> {c} \X DOMAIN answer[c]]
    OBVIOUS
  <2>2. f \in [Connections -> all] /\ \A x \in all : \E c \in Connections : f[c] = x
    BY <1>3, <2>1
  <2>3. f \in Surjection(Connections, all)
    BY <2>2 DEF Surjection
  <2>4. QED
    BY <1>0, <2>3, FS_Surjection
<1>5. IsFiniteSet(UNION all)
  BY <1>2, <1>3, <1>4, FS_UNION
<1>6. Answered \subseteq UNION all
  BY <1>3 DEF Answered
<1>7. IsFiniteSet(Answered)
  BY <1>5, <1>6, FS_Subset
<1>8. ASSUME NEW s
      PROVE  /\ IsFiniteSet(Mine(s)) /\ IsFiniteSet(DecidedOf(s)) /\ IsFiniteSet(RefusedOf(s))
             /\ IsFiniteSet(EvaluatedOf(s)) /\ IsFiniteSet(StreamingOn(s))
  <2>1. Mine(s) \subseteq Answered /\ StreamingOn(s) \subseteq Connections
    BY DEF Mine, StreamingOn
  <2>2. DecidedOf(s) \subseteq Mine(s) /\ RefusedOf(s) \subseteq Mine(s) /\ EvaluatedOf(s) \subseteq Mine(s)
    BY DEF DecidedOf, RefusedOf, EvaluatedOf
  <2>3. IsFiniteSet(Mine(s)) /\ IsFiniteSet(StreamingOn(s))
    BY <1>0, <1>7, <2>1, FS_Subset
  <2>4. QED
    BY <2>2, <2>3, FS_Subset
<1>9. QED
  BY <1>8, FS_CardinalityType

LEMMA MetricsAre == IndInv => MetricsAgree
<1> SUFFICES ASSUME IndInv PROVE MetricsAgree
  OBVIOUS
<1>1. ASSUME NEW s \in Starts
      PROVE  /\ Cardinality(DecidedOf(s)) \in Nat /\ Cardinality(EvaluatedOf(s)) \in Nat /\ lost[s] \in Nat
             /\ metrics[s].evaluations \in Nat /\ Agrees(s)
  BY <1>1, AnsweredFinite DEF IndInv, Types, Counters
<1>2. QED
  BY <1>1 DEF MetricsAgree, Agrees

\* A step that answers nobody.
NobodyAnswered ==
    /\ Answered' = Answered
    /\ \A p \in Answered : /\ conn'[p[1]].server = conn[p[1]].server
                            /\ conn'[p[1]].script = conn[p[1]].script
                            /\ answer'[p[1]][p[2]] = answer[p[1]][p[2]]

LEMMA NobodyCounts ==
    ASSUME NobodyAnswered
    PROVE  \A s : /\ Mine(s)' = Mine(s) /\ DecidedOf(s)' = DecidedOf(s)
                  /\ RefusedOf(s)' = RefusedOf(s) /\ EvaluatedOf(s)' = EvaluatedOf(s)
<1>1. ASSUME NEW s PROVE Mine(s)' = Mine(s) /\ \A p \in Mine(s) : p \in Answered
  BY DEF NobodyAnswered, Mine
<1>2. ASSUME NEW s PROVE DecidedOf(s)' = DecidedOf(s)
  BY <1>1 DEF NobodyAnswered, DecidedOf
<1>3. ASSUME NEW s PROVE RefusedOf(s)' = RefusedOf(s)
  BY <1>1 DEF NobodyAnswered, RefusedOf
<1>4. ASSUME NEW s PROVE EvaluatedOf(s)' = EvaluatedOf(s)
  BY <1>1 DEF NobodyAnswered, EvaluatedOf
<1>5. QED
  BY <1>1, <1>2, <1>3, <1>4

LEMMA AddOne ==
    ASSUME NEW S, IsFiniteSet(S), NEW T, NEW p, p \notin S, NEW condition \in BOOLEAN,
           T = IF condition THEN S \cup {p} ELSE S
    PROVE  Cardinality(T) = Cardinality(S) + (IF condition THEN 1 ELSE 0)
<1>1. Cardinality(S) \in Nat
  BY FS_CardinalityType
<1>2. QED
  BY <1>1, FS_AddElement

\* A step that answers one request, which had no answer yet.
LEMMA OneCounts ==
    ASSUME IndInv, NEW c \in Connections, NEW i, NEW reply, reply # None,
           <<c, i>> \notin Answered,
           \A d \in Connections : conn'[d].server = conn[d].server /\ conn'[d].script = conn[d].script,
           DOMAIN answer' = Connections, \A d \in Connections : DOMAIN answer'[d] = DOMAIN answer[d],
           i \in DOMAIN answer[c], answer'[c][i] = reply,
           \A d \in Connections : \A j \in DOMAIN answer[d] :
               d # c \/ j # i => answer'[d][j] = answer[d][j]
    PROVE  /\ \A s : s # conn[c].server =>
                  /\ Mine(s)' = Mine(s) /\ DecidedOf(s)' = DecidedOf(s)
                  /\ RefusedOf(s)' = RefusedOf(s) /\ EvaluatedOf(s)' = EvaluatedOf(s)
           /\ \A s : s = conn[c].server =>
                  /\ Cardinality(Mine(s)') = Cardinality(Mine(s)) + 1
                  /\ Cardinality(DecidedOf(s)') =
                        Cardinality(DecidedOf(s)) + (IF reply.decision # None THEN 1 ELSE 0)
                  /\ Cardinality(RefusedOf(s)') =
                        Cardinality(RefusedOf(s)) + (IF reply.status = 400 THEN 1 ELSE 0)
                  /\ Cardinality(EvaluatedOf(s)') =
                        Cardinality(EvaluatedOf(s))
                            + (IF conn[c].script[i].kind = "evaluate" THEN 1 ELSE 0)
<1>1. PICK new : new = <<c, i>>
  OBVIOUS
<1>2. new[1] = c /\ new[2] = i /\ new \notin Answered
  BY <1>1
<1>3. Answered' = Answered \cup {new}
  <2>1. \A d, j : <<d, j>> \in Answered' <=> d \in Connections /\ j \in DOMAIN answer'[d] /\ answer'[d][j] # None
    BY DEF Answered
  <2>2. \A p \in Answered' : p = <<p[1], p[2]>>
    BY DEF Answered
  <2>3. ASSUME NEW d, NEW j, NEW q, q = <<d, j>> PROVE q \in Answered' <=> (q \in Answered \/ q = new)
    <3>1. CASE d = c /\ j = i
      <4>1. q = new
        BY <1>1, <2>3, <3>1
      <4>2. q \in Answered'
        BY <2>1, <2>3, <3>1
      <4>3. QED
        BY <4>1, <4>2
    <3>2. CASE d \in Connections /\ j \in DOMAIN answer[d] /\ ~ (d = c /\ j = i)
      <4>1. answer'[d][j] = answer[d][j] /\ j \in DOMAIN answer'[d]
        BY <3>2
      <4>2. q \in Answered' <=> answer'[d][j] # None
        BY <2>1, <2>3, <3>2, <4>1
      <4>3. q \in Answered <=> answer[d][j] # None
        BY <2>3, <3>2, AnsweredIs
      <4>4. q # new
        BY <1>2, <2>3, <3>2
      <4>5. QED
        BY <4>1, <4>2, <4>3, <4>4
    <3>3. CASE ~ (d \in Connections /\ j \in DOMAIN answer[d])
      <4>1. q \notin Answered
        BY <2>3, <3>3, AnsweredIs
      <4>2. q \notin Answered'
        BY <2>1, <2>3, <3>3
      <4>3. q # new
        BY <1>2, <2>3, <3>3
      <4>4. QED
        BY <4>1, <4>2, <4>3
    <3>4. QED
      BY <3>1, <3>2, <3>3
  <2>4. ASSUME NEW p PROVE p \in Answered' <=> p \in Answered \cup {new}
    <3>1. CASE \E d, j : p = <<d, j>>
      BY <2>3, <3>1
    <3>2. CASE ~ \E d, j : p = <<d, j>>
      BY <1>1, <2>2, <3>2, AnsweredIs
    <3>3. QED
      BY <3>1, <3>2
  <2>5. QED
    BY <2>4
<1>4. \A p \in Answered : /\ conn'[p[1]].server = conn[p[1]].server
                         /\ conn'[p[1]].script = conn[p[1]].script
                         /\ answer'[p[1]][p[2]] = answer[p[1]][p[2]]
  <2>1. ASSUME NEW p \in Answered PROVE p[1] \in Connections /\ p[2] \in DOMAIN answer[p[1]] /\ (p[1] # c \/ p[2] # i)
    BY <1>1, <1>2, AnsweredIs
  <2>2. QED
    BY <2>1
<1>5. conn'[c].server = conn[c].server /\ conn'[c].script = conn[c].script /\ answer'[c][i] = reply
  OBVIOUS
<1>6. \A s : Mine(s)' = IF s = conn[c].server THEN Mine(s) \cup {new} ELSE Mine(s)
  BY <1>2, <1>3, <1>4, <1>5 DEF Mine
<1>7. \A s : \A p \in Mine(s) : p \in Answered
  BY DEF Mine
<1>8. \A s : DecidedOf(s)' = IF s = conn[c].server /\ reply.decision # None
                            THEN DecidedOf(s) \cup {new} ELSE DecidedOf(s)
  BY <1>2, <1>4, <1>5, <1>6, <1>7 DEF DecidedOf
<1>9. \A s : RefusedOf(s)' = IF s = conn[c].server /\ reply.status = 400
                            THEN RefusedOf(s) \cup {new} ELSE RefusedOf(s)
  BY <1>2, <1>4, <1>5, <1>6, <1>7 DEF RefusedOf
<1>10. \A s : EvaluatedOf(s)' = IF s = conn[c].server /\ conn[c].script[i].kind = "evaluate"
                               THEN EvaluatedOf(s) \cup {new} ELSE EvaluatedOf(s)
  BY <1>2, <1>4, <1>5, <1>6, <1>7 DEF EvaluatedOf
<1>11. \A s : new \notin Mine(s) /\ new \notin DecidedOf(s) /\ new \notin RefusedOf(s) /\ new \notin EvaluatedOf(s)
  BY <1>2 DEF Mine, DecidedOf, RefusedOf, EvaluatedOf
<1>12. ASSUME NEW s, s = conn[c].server
       PROVE  /\ Cardinality(Mine(s)') = Cardinality(Mine(s)) + 1
              /\ Cardinality(DecidedOf(s)') =
                    Cardinality(DecidedOf(s)) + (IF reply.decision # None THEN 1 ELSE 0)
              /\ Cardinality(RefusedOf(s)') =
                    Cardinality(RefusedOf(s)) + (IF reply.status = 400 THEN 1 ELSE 0)
              /\ Cardinality(EvaluatedOf(s)') =
                    Cardinality(EvaluatedOf(s)) + (IF conn[c].script[i].kind = "evaluate" THEN 1 ELSE 0)
  <2>1. /\ IsFiniteSet(Mine(s)) /\ IsFiniteSet(DecidedOf(s))
        /\ IsFiniteSet(RefusedOf(s)) /\ IsFiniteSet(EvaluatedOf(s))
    BY AnsweredFinite
  <2>2. Cardinality(Mine(s)') = Cardinality(Mine(s)) + 1
    BY <1>6, <1>11, <1>12, <2>1, FS_AddElement
  <2>3. Cardinality(DecidedOf(s)') = Cardinality(DecidedOf(s)) + (IF reply.decision # None THEN 1 ELSE 0)
    BY <1>8, <1>11, <1>12, <2>1, AddOne
  <2>4. Cardinality(RefusedOf(s)') = Cardinality(RefusedOf(s)) + (IF reply.status = 400 THEN 1 ELSE 0)
    <3>1. PICK condition \in BOOLEAN : condition <=> reply.status = 400
      OBVIOUS
    <3>2. RefusedOf(s)' = IF condition THEN RefusedOf(s) \cup {new} ELSE RefusedOf(s)
      BY <1>9, <1>12, <3>1
    <3>3. Cardinality(RefusedOf(s)') = Cardinality(RefusedOf(s)) + (IF condition THEN 1 ELSE 0)
      BY <1>11, <2>1, <3>2, AddOne
    <3>4. QED
      BY <3>1, <3>3
  <2>5. Cardinality(EvaluatedOf(s)') =
            Cardinality(EvaluatedOf(s)) + (IF conn[c].script[i].kind = "evaluate" THEN 1 ELSE 0)
    BY <1>10, <1>11, <1>12, <2>1, AddOne
  <2>6. QED
    BY <2>2, <2>3, <2>4, <2>5
<1>13. QED
  BY <1>6, <1>8, <1>9, <1>10, <1>12

\* A stream that opens or ends.
LEMMA StreamCounts ==
    ASSUME IndInv, NEW c \in Connections, NEW s \in Starts, conn[c].server = s,
           \A d \in Connections : conn'[d].server = conn[d].server,
           \A d \in Connections \ {c} : conn'[d].streaming = conn[d].streaming
    PROVE  /\ \A other : other # s => StreamingOn(other)' = StreamingOn(other)
           /\ ~ conn[c].streaming /\ conn'[c].streaming =>
                 Cardinality(StreamingOn(s)') = Cardinality(StreamingOn(s)) + 1
           /\ conn[c].streaming /\ ~ conn'[c].streaming =>
                 Cardinality(StreamingOn(s)') = Cardinality(StreamingOn(s)) - 1
           /\ (conn[c].streaming <=> conn'[c].streaming) => StreamingOn(s)' = StreamingOn(s)
<1>1. \A other : other # s => StreamingOn(other)' = StreamingOn(other)
  BY DEF StreamingOn
<1>2. IsFiniteSet(StreamingOn(s)) /\ Cardinality(StreamingOn(s)) \in Nat
  BY AnsweredFinite
<1>3. ASSUME ~ conn[c].streaming, conn'[c].streaming
      PROVE  Cardinality(StreamingOn(s)') = Cardinality(StreamingOn(s)) + 1
  <2>1. StreamingOn(s)' = StreamingOn(s) \cup {c} /\ c \notin StreamingOn(s)
    BY <1>3 DEF StreamingOn
  <2>2. QED
    BY <1>2, <2>1, FS_AddElement
<1>4. ASSUME conn[c].streaming, ~ conn'[c].streaming
      PROVE  Cardinality(StreamingOn(s)') = Cardinality(StreamingOn(s)) - 1
  <2>1. StreamingOn(s)' = StreamingOn(s) \ {c} /\ c \in StreamingOn(s)
    BY <1>4 DEF StreamingOn
  <2>2. QED
    BY <1>2, <2>1, FS_RemoveElement, ZenonT(30)
<1>5. (conn[c].streaming <=> conn'[c].streaming) => StreamingOn(s)' = StreamingOn(s)
  BY DEF StreamingOn
<1>6. QED
  BY <1>1, <1>3, <1>4, <1>5

-------------------------------------------------------------------------------
(* What a step leaves as it was.                                           *)

\* An answer stays fitting where the connection has not taken more bytes out of its buffer.
LEMMA AnswerKept ==
    ASSUME NEW c \in Connections, NEW i, AnswerFits(c, i), Type(c)' = Type(c),
           conn'[c].script = conn[c].script, conn'[c].from = conn[c].from, answer'[c][i] = answer[c][i]
    PROVE  AnswerFits(c, i)'
<1>1. BodyEnd(conn[c].script, i)' = BodyEnd(conn[c].script, i)
  BY DEF BodyEnd, HeadEnd, Offset
<1>2. PICK r : r = conn[c].script[i] /\ r = conn'[c].script[i]
  OBVIOUS
<1>3. PICK a : a = answer[c][i] /\ a = answer'[c][i]
  OBVIOUS
<1>4. QED
  BY <1>1, <1>2, <1>3 DEF AnswerFits

LEMMA ConnectionKept ==
    ASSUME NEW d \in Connections, ConnectionFits(d), conn'[d] = conn[d], answer'[d] = answer[d],
           conn[d].server # None => /\ server'[conn[d].server] # "none"
                                    /\ type'[conn[d].server] = type[conn[d].server]
    PROVE  ConnectionFits(d)'
<1>1. CASE conn[d].server = None
  BY <1>1 DEF ConnectionFits
<1>2. CASE conn[d].server # None
  <2>1. Type(d)' = Type(d)
    BY <1>2 DEF Type
  <2>2. SessionFits(d) => SessionFits(d)'
    BY DEF SessionFits, Current, Unanswered
  <2>3. SocketFits(d) => SocketFits(d)'
    BY DEF SocketFits, Unanswered, HeadEnd, Offset
  <2>4. \A i : AnswerFits(d, i) => AnswerFits(d, i)'
    BY <2>1, AnswerKept
  <2>5. QED
    BY <1>2, <2>1, <2>2, <2>3, <2>4 DEF ConnectionFits, Unanswered
<1>3. QED
  BY <1>1, <1>2

LEMMA CountsKept ==
    ASSUME NEW s, Agrees(s), metrics'[s] = metrics[s], lost'[s] = lost[s], failed'[s] = failed[s],
           type'[s] = type[s], StreamingOn(s)' = StreamingOn(s),
           Mine(s)' = Mine(s), DecidedOf(s)' = DecidedOf(s),
           RefusedOf(s)' = RefusedOf(s), EvaluatedOf(s)' = EvaluatedOf(s)
    PROVE  Agrees(s)'
BY DEF Agrees

LEMMA NobodyNew ==
    ASSUME \A d \in Connections : \A j : (j \in DOMAIN answer'[d] /\ answer'[d][j] # None)
                                        <=> (j \in DOMAIN answer[d] /\ answer[d][j] # None)
    PROVE  Answered' = Answered
<1>1. ASSUME NEW d \in Connections
      PROVE  { j \in DOMAIN answer'[d] : answer'[d][j] # None } = { j \in DOMAIN answer[d] : answer[d][j] # None }
  OBVIOUS
<1>2. QED
  BY <1>1 DEF Answered

\* A transport nobody has started has no connection.
LEMMA NothingBefore ==
    ASSUME IndInv, NEW s \in Starts, server[s] = "none"
    PROVE  Mine(s) = {} /\ DecidedOf(s) = {} /\ EvaluatedOf(s) = {} /\ Cardinality({}) = 0
<1>1. \A c \in Connections : conn[c].server # s
  BY NoneTypes DEF IndInv, ConnectionFits
<1>2. \A p \in Answered : p[1] \in Connections
  BY AnsweredIs
<1>3. Mine(s) = {}
  BY <1>1, <1>2 DEF Mine
<1>4. QED
  BY <1>3, FS_EmptySet DEF DecidedOf, EvaluatedOf

LEMMA LifecycleKeeps ==
    ASSUME IndInv, Lifecycle
    PROVE  IndInv'
<1>1. /\ Types' /\ UNCHANGED traffic
      /\ \A s \in Starts : server[s] # "none" => server'[s] # "none" /\ type'[s] = type[s]
  BY LifecycleTypes DEF IndInv
<1>2. LifecycleFits'
  BY LifecycleStep DEF IndInv
<1>3. FreshMetrics'
  BY <1>1 DEF IndInv, FreshMetrics, traffic
<1>4. ASSUME NEW c \in Connections PROVE ConnectionFits(c)'
  <2>1. ConnectionFits(c) /\ conn[c].server \in Starts \cup {None}
    BY DEF IndInv, Types, ConnectionType
  <2>2. conn[c].server # None => server[conn[c].server] # "none"
    BY <2>1 DEF ConnectionFits
  <2>3. QED
    BY <1>1, <2>1, <2>2, ConnectionKept DEF traffic
<1>5. ASSUME NEW s \in Starts PROVE Agrees(s)'
  <2>1. /\ Mine(s)' = Mine(s) /\ DecidedOf(s)' = DecidedOf(s)
        /\ RefusedOf(s)' = RefusedOf(s) /\ EvaluatedOf(s)' = EvaluatedOf(s)
    <3>1. NobodyAnswered
      BY <1>1 DEF NobodyAnswered, traffic, Answered
    <3>2. QED
      BY <3>1, NobodyCounts
  <2>2. StreamingOn(s)' = StreamingOn(s)
    BY <1>1 DEF traffic, StreamingOn
  <2>3. metrics'[s] = metrics[s] /\ lost'[s] = lost[s] /\ failed'[s] = failed[s] /\ Agrees(s)
    BY <1>1 DEF traffic, IndInv
  <2>4. CASE server[s] # "none"
    BY <1>1, <2>1, <2>2, <2>3, <2>4, CountsKept
  <2>5. CASE server[s] = "none"
    <3>1. metrics[s].evaluations = 0 /\ lost[s] = 0
      BY <2>5 DEF IndInv, FreshMetrics
    <3>2. Mine(s) = {} /\ DecidedOf(s) = {} /\ EvaluatedOf(s) = {} /\ Cardinality({}) = 0
      BY <2>5, NothingBefore
    <3>3. QED
      BY <2>1, <2>2, <2>3, <3>1, <3>2 DEF Agrees
  <2>6. QED
    BY <2>4, <2>5
<1>6. QED
  BY <1>1, <1>2, <1>3, <1>4, <1>5 DEF IndInv

-------------------------------------------------------------------------------
(* The steps of a connection.                                              *)

LEMMA TrafficStep ==
    ASSUME IndInv, NEW c \in Connections, UNCHANGED lifecycle, Types', FreshMetrics',
           \A d \in Connections \ {c} : conn'[d] = conn[d] /\ answer'[d] = answer[d],
           ConnectionFits(c)', \A s \in Starts : Agrees(s)'
    PROVE  IndInv'
<1>1. LifecycleFits'
  BY DEF IndInv, LifecycleFits, NoServerLost, lifecycle
<1>2. ASSUME NEW d \in Connections, d # c PROVE ConnectionFits(d)'
  <2>1. ConnectionFits(d)
    BY DEF IndInv
  <2>2. conn[d].server # None => server[conn[d].server] # "none"
    BY <2>1 DEF ConnectionFits
  <2>3. QED
    BY <1>2, <2>1, <2>2, ConnectionKept DEF lifecycle
<1>3. QED
  BY <1>1, <1>2 DEF IndInv

\* What is known of an open connection.
LEMMA OpenTypes ==
    ASSUME IndInv, NEW c \in Connections, conn[c] # Closed
    PROVE  /\ conn[c].server \in Starts /\ conn[c].server # None /\ conn[c].script \in Scripts
           /\ server[conn[c].server] # "none" /\ conn[c] \in ConnectionType
           /\ answer[c] \in [DOMAIN conn[c].script -> Replies \cup {None}]
           /\ ConnectionFits(c)
<1>1. ConnectionFits(c) /\ conn[c] \in ConnectionType
  BY DEF IndInv, Types
<1>2. conn[c].server # None
  BY <1>1 DEF ConnectionFits
<1>3. QED
  BY <1>1, <1>2 DEF ConnectionFits, ConnectionType

LEMMA ConnectStep ==
    ASSUME IndInv, NEW c \in Connections, Connect(c)
    PROVE  IndInv'
<1>1. PICK s \in Starts, script \in Scripts :
          /\ Accepts(s)
          /\ conn' = [conn EXCEPT ![c] = [Closed EXCEPT !.open = TRUE, !.server = s, !.script = script]]
          /\ answer' = [answer EXCEPT ![c] = [i \in DOMAIN script |-> None]]
  BY DEF Connect
<1>2. conn[c] = Closed /\ UNCHANGED <<lifecycle, metrics, lost, failed>>
  BY DEF Connect
<1>3. PICK k \in ConnectionType :
          /\ k = [Closed EXCEPT !.open = TRUE, !.server = s, !.script = script]
          /\ k.server = s /\ k.script = script /\ k.index = 0 /\ ~ k.streaming /\ k.from = 0 /\ ~ k.ended
  <2>1. PICK k : k = [Closed EXCEPT !.open = TRUE, !.server = s, !.script = script]
    OBVIOUS
  <2>2. k = [open |-> TRUE, server |-> s, script |-> script, index |-> 0, streaming |-> FALSE,
             got |-> 0, from |-> 0, torn |-> FALSE, ended |-> FALSE]
    BY <2>1 DEF Closed
  <2>3. k \in ConnectionType
    BY <2>2 DEF ConnectionType
  <2>4. k.server = s /\ k.script = script /\ k.index = 0 /\ ~ k.streaming /\ k.from = 0 /\ ~ k.ended
    BY <2>2
  <2>5. QED
    BY <2>1, <2>3, <2>4
<1>4. conn'[c] = k /\ conn' \in [Connections -> ConnectionType] /\ DOMAIN answer' = Connections
  BY <1>1, <1>3 DEF IndInv, Types
<1>5. /\ answer'[c] = [i \in DOMAIN script |-> None]
      /\ \A d \in Connections \ {c} : conn'[d] = conn[d] /\ answer'[d] = answer[d]
  BY <1>1 DEF IndInv, Types
<1>6. Types' /\ FreshMetrics'
  BY <1>2, <1>4 DEF IndInv, Types, FreshMetrics, lifecycle
<1>7. conn[c].server = None /\ ~ conn[c].streaming /\ answer[c] = <<>>
  BY <1>2 DEF IndInv, ConnectionFits, Closed
<1>8. server[s] # "none" /\ s # None /\ type[s] \in {"http2", "ipc"}
  BY <1>1, NoneTypes DEF Accepts, IndInv, Types
<1>9. ConnectionFits(c)'
  <2>1. Len(script) \in Nat /\ DOMAIN script = 1 .. Len(script)
    BY ScriptTypes
  <2>2. SessionFits(c)'
    BY <1>3, <1>4, <1>5, <2>1 DEF SessionFits, Unanswered
  <2>3. SocketFits(c)'
    BY <1>3, <1>4, <1>5, <2>1 DEF SocketFits, Unanswered
  <2>4. QED
    BY <1>2, <1>3, <1>4, <1>5, <1>8, <2>2, <2>3 DEF ConnectionFits, Unanswered, lifecycle
<1>10. ASSUME NEW q \in Starts PROVE Agrees(q)'
  <2>1. Answered' = Answered
    <3>1. ASSUME NEW d \in Connections, NEW j
          PROVE  (j \in DOMAIN answer'[d] /\ answer'[d][j] # None) <=> (j \in DOMAIN answer[d] /\ answer[d][j] # None)
      <4>1. CASE d = c
        BY <1>5, <1>7, <4>1
      <4>2. CASE d # c
        BY <1>5, <4>2
      <4>3. QED
        BY <4>1, <4>2
    <3>2. QED
      BY <3>1, NobodyNew
  <2>2. NobodyAnswered
    <3>1. ASSUME NEW p \in Answered PROVE p[1] \in Connections \ {c}
      BY <1>7, AnsweredIs
    <3>2. QED
      BY <1>5, <2>1, <3>1 DEF NobodyAnswered
  <2>3. StreamingOn(q)' = StreamingOn(q)
    BY <1>3, <1>4, <1>5, <1>7, ZenonT(30) DEF StreamingOn
  <2>4. QED
    BY <1>2, <2>2, <2>3, NobodyCounts, CountsKept DEF IndInv, lifecycle
<1>11. QED
  BY <1>2, <1>5, <1>6, <1>9, <1>10, TrafficStep

\* A step of one connection that answers no request leaves the sets of answers alone.
LEMMA QuietCounts ==
    ASSUME IndInv, NEW c \in Connections, answer' = answer,
           conn'[c].server = conn[c].server, conn'[c].script = conn[c].script,
           \A d \in Connections \ {c} : conn'[d] = conn[d]
    PROVE  \A s : /\ Mine(s)' = Mine(s) /\ DecidedOf(s)' = DecidedOf(s)
                  /\ RefusedOf(s)' = RefusedOf(s) /\ EvaluatedOf(s)' = EvaluatedOf(s)
<1>1. \A p \in Answered : p[1] \in Connections
  BY AnsweredIs
<1>2. NobodyAnswered
  BY <1>1 DEF NobodyAnswered, Answered
<1>3. QED
  BY <1>2, NobodyCounts

LEMMA DisconnectStep ==
    ASSUME IndInv, NEW c \in Connections, Disconnect(c)
    PROVE  IndInv'
<1>1. conn[c].open /\ conn[c] # Closed
  BY DEF Disconnect, Closed
<1>2. PICK s \in Starts : /\ s = conn[c].server /\ server[s] # "none" /\ conn[c].script \in Scripts
                          /\ conn[c] \in ConnectionType /\ ConnectionFits(c) /\ s # None
  BY <1>1, OpenTypes
<1>3. PICK errors \in {0, 1} : /\ failed' = [failed EXCEPT ![s] = @ + errors]
                               /\ metrics' = [metrics EXCEPT ![s].errors = @ + errors]
  BY <1>2 DEF Disconnect
<1>4. /\ lost' = [lost EXCEPT ![s] = @ + (IF conn[c].streaming THEN 1 ELSE 0)]
      /\ conn' = [conn EXCEPT ![c].open = FALSE, ![c].streaming = FALSE]
      /\ UNCHANGED <<lifecycle, answer>>
  BY <1>2 DEF Disconnect
<1>5. PICK k \in ConnectionType :
        /\ k = conn'[c] /\ ~ k.open /\ ~ k.streaming /\ k.server = s /\ k.script = conn[c].script
        /\ k.index = conn[c].index /\ k.from = conn[c].from /\ k.ended = conn[c].ended
  <2>1. PICK old \in ConnectionType : old = conn[c]
    BY <1>2
  <2>2. PICK k : k = [[old EXCEPT !.open = FALSE] EXCEPT !.streaming = FALSE]
    OBVIOUS
  <2>3. conn'[c] = k
    BY <1>4, <2>1, <2>2 DEF IndInv, Types
  <2>4. /\ k \in ConnectionType /\ ~ k.open /\ ~ k.streaming /\ k.server = old.server /\ k.script = old.script
        /\ k.index = old.index /\ k.from = old.from /\ k.ended = old.ended
    BY <2>1, <2>2 DEF ConnectionType
  <2>5. QED
    BY <1>2, <2>1, <2>3, <2>4
<1>6. /\ conn' \in [Connections -> ConnectionType] /\ \A d \in Connections \ {c} : conn'[d] = conn[d]
  BY <1>4, <1>5 DEF IndInv, Types
<1>7. /\ metrics' \in [Starts -> Counters]
      /\ lost' \in [Starts -> Nat] /\ failed' \in [Starts -> Nat]
      /\ metrics[s].errors \in Nat /\ failed[s] \in Nat /\ lost[s] \in Nat
      /\ metrics'[s].errors = metrics[s].errors + errors /\ metrics'[s].requests = metrics[s].requests
      /\ metrics'[s].evaluations = metrics[s].evaluations /\ failed'[s] = failed[s] + errors
      /\ lost'[s] = lost[s] + (IF conn[c].streaming THEN 1 ELSE 0)
      /\ \A q \in Starts \ {s} : metrics'[q] = metrics[q] /\ failed'[q] = failed[q] /\ lost'[q] = lost[q]
  BY <1>3, <1>4 DEF IndInv, Types, Counters
<1>8. Types' /\ FreshMetrics'
  BY <1>2, <1>4, <1>6, <1>7 DEF IndInv, Types, FreshMetrics, lifecycle
<1>9. ConnectionFits(c)'
  <2>1. Type(c)' = Type(c)
    BY <1>2, <1>4, <1>5 DEF Type, lifecycle
  <2>2. SessionFits(c) => SessionFits(c)'
    BY <1>4, <1>5 DEF SessionFits, Unanswered
  <2>3. SocketFits(c) => SocketFits(c)'
    <3>1. HeadEnd(conn[c].script, 1)' = HeadEnd(conn[c].script, 1)
      BY <1>5 DEF HeadEnd, Offset
    <3>2. QED
      BY <1>4, <1>5, <3>1 DEF SocketFits, Unanswered
  <2>4. ASSUME NEW i PROVE AnswerFits(c, i) => AnswerFits(c, i)'
    BY <1>4, <1>5, <2>1, AnswerKept
  <2>5. QED
    BY <1>2, <1>4, <1>5, <2>1, <2>2, <2>3, <2>4 DEF ConnectionFits, Unanswered, lifecycle
<1>10. ASSUME NEW q \in Starts PROVE Agrees(q)'
  <2>1. /\ Mine(q)' = Mine(q) /\ DecidedOf(q)' = DecidedOf(q)
        /\ RefusedOf(q)' = RefusedOf(q) /\ EvaluatedOf(q)' = EvaluatedOf(q)
    BY <1>2, <1>4, <1>5, <1>6, QuietCounts
  <2>2. \A d \in Connections : conn'[d].server = conn[d].server
    BY <1>2, <1>5, <1>6
  <2>3. CASE q # s
    <3>1. StreamingOn(q)' = StreamingOn(q)
      BY <1>2, <1>6, <2>2, <2>3, StreamCounts
    <3>2. QED
      BY <1>4, <1>7, <2>1, <2>3, <3>1, CountsKept DEF IndInv, lifecycle
  <2>4. CASE q = s
    <3>1. Cardinality(StreamingOn(s)') =
              Cardinality(StreamingOn(s)) - (IF conn[c].streaming THEN 1 ELSE 0)
      <4>1. Cardinality(StreamingOn(s)) \in Nat
        BY AnsweredFinite
      <4>2. conn[c].streaming \in BOOLEAN /\ conn'[c].streaming = FALSE
        BY <1>2, <1>5 DEF ConnectionType
      <4>3. QED
        BY <1>2, <1>6, <2>2, <4>1, <4>2, StreamCounts
    <3>2. Agrees(s)
      BY DEF IndInv
    <3>3. /\ Cardinality(StreamingOn(s)) \in Nat /\ Cardinality(Mine(s)) \in Nat
          /\ Cardinality(RefusedOf(s)) \in Nat /\ Cardinality(EvaluatedOf(s)) \in Nat
      BY AnsweredFinite
    <3>4. type' = type
      BY <1>4 DEF lifecycle
    <3>5. QED
      BY <1>7, <2>1, <2>4, <3>1, <3>2, <3>3, <3>4 DEF Agrees
  <2>5. QED
    BY <2>3, <2>4
<1>11. QED
  BY <1>4, <1>6, <1>8, <1>9, <1>10, TrafficStep

-------------------------------------------------------------------------------
(* HTTP/2.                                                                 *)

LEMMA OpenStreamStep ==
    ASSUME IndInv, NEW c \in Connections, OpenStream(c)
    PROVE  IndInv'
<1>1. conn[c].open /\ conn[c] # Closed
  BY DEF OpenStream, IsOpen, Closed
<1>2. PICK s \in Starts : /\ s = conn[c].server /\ server[s] # "none" /\ conn[c].script \in Scripts
                          /\ conn[c] \in ConnectionType /\ ConnectionFits(c) /\ s # None
  BY <1>1, OpenTypes
<1>3. /\ type[s] = "http2" /\ ~ conn[c].streaming /\ conn[c].index < Len(conn[c].script)
      /\ conn' = [conn EXCEPT ![c].streaming = TRUE, ![c].index = @ + 1, ![c].got = 0, ![c].torn = FALSE]
      /\ metrics' = [metrics EXCEPT ![s].requests = @ + 1]
      /\ UNCHANGED <<lifecycle, answer, lost, failed>>
  BY <1>2 DEF OpenStream, IsOpen
<1>4. PICK k \in ConnectionType :
        /\ k = conn'[c] /\ k.open = conn[c].open /\ k.streaming = TRUE /\ k.server = s /\ k.script = conn[c].script
        /\ k.index = conn[c].index + 1 /\ k.from = conn[c].from /\ k.ended = conn[c].ended
        /\ k.got = 0 /\ k.torn = FALSE
  <2>1. PICK old \in ConnectionType : old = conn[c]
    BY <1>2
  <2>2. PICK k : k = [old EXCEPT !.streaming = TRUE, !.index = old.index + 1, !.got = 0, !.torn = FALSE]
    OBVIOUS
  <2>3. k \in ConnectionType
    <3>1. PICK index \in Nat : index = old.index + 1
      BY DEF ConnectionType
    <3>2. k = [old EXCEPT !.streaming = TRUE, !.index = index, !.got = 0, !.torn = FALSE]
      BY <2>2, <3>1
    <3>3. QED
      BY <3>2 DEF ConnectionType
  <2>4. /\ k.open = old.open /\ k.streaming = TRUE /\ k.server = old.server
        /\ k.script = old.script /\ k.index = old.index + 1 /\ k.from = old.from /\ k.ended = old.ended
        /\ k.got = 0 /\ k.torn = FALSE
    BY <2>2 DEF ConnectionType
  <2>5. conn'[c] = k
    BY <1>3, <2>1, <2>2 DEF IndInv, Types
  <2>6. QED
    BY <1>2, <2>1, <2>3, <2>4, <2>5
<1>5. conn' \in [Connections -> ConnectionType] /\ \A d \in Connections \ {c} : conn'[d] = conn[d]
  BY <1>3, <1>4 DEF IndInv, Types
<1>6. /\ metrics' \in [Starts -> Counters]
      /\ metrics[s].requests \in Nat /\ metrics'[s].requests = metrics[s].requests + 1
      /\ metrics'[s].errors = metrics[s].errors /\ metrics'[s].evaluations = metrics[s].evaluations
      /\ \A q \in Starts \ {s} : metrics'[q] = metrics[q]
  <2>1. PICK old \in Counters : old = metrics[s]
    BY DEF IndInv, Types, Counters
  <2>2. PICK requests \in Nat : requests = old.requests + 1 /\ old.requests \in Nat
    BY DEF Counters
  <2>3. PICK new : new = [old EXCEPT !.requests = requests]
    OBVIOUS
  <2>4. new \in Counters
    BY <2>3 DEF Counters
  <2>5. new.requests = requests /\ new.errors = old.errors /\ new.evaluations = old.evaluations
    BY <2>3 DEF Counters
  <2>6. metrics' = [metrics EXCEPT ![s] = new]
    BY <1>3, <2>1, <2>2, <2>3 DEF IndInv, Types, Counters
  <2>7. QED
    BY <2>1, <2>2, <2>4, <2>5, <2>6 DEF IndInv, Types, Counters
<1>7. Types' /\ FreshMetrics'
  BY <1>2, <1>3, <1>5, <1>6 DEF IndInv, Types, FreshMetrics, lifecycle
<1>8. ConnectionFits(c)'
  <2>1. Type(c)' = Type(c) /\ Type(c) = "http2"
    BY <1>2, <1>3, <1>4 DEF Type, lifecycle
  <2>2. SessionFits(c)
    BY <1>2, <2>1 DEF ConnectionFits
  <2>3. /\ Len(conn[c].script) \in Nat /\ DOMAIN conn[c].script = 1 .. Len(conn[c].script)
        /\ conn[c].index \in Nat
    BY <1>2, ScriptTypes DEF ConnectionType
  <2>4. k.index \in DOMAIN conn[c].script /\ k.index <= Len(conn[c].script)
    BY <1>3, <1>4, <2>3
  <2>5. conn[c].script[k.index].body \in Nat
    BY <1>2, <2>4, ScriptTypes
  <2>6. SessionFits(c)'
    <3>1. /\ conn'[c].from = 0 /\ ~ conn'[c].ended /\ conn'[c].index <= Len(conn'[c].script)
          /\ conn'[c].open /\ conn'[c].index \in DOMAIN conn'[c].script /\ ~ conn'[c].torn
      BY <1>1, <1>4, <2>2, <2>4 DEF SessionFits
    <3>2. conn'[c].got <= Current(c)'.body
      BY <1>4, <2>5 DEF Current
    <3>3. ASSUME NEW i \in DOMAIN conn[c].script, i >= conn[c].index + 1 PROVE Unanswered(c, i)'
      <4>1. i > conn[c].index
        BY <2>3, <3>3
      <4>2. Unanswered(c, i)
        BY <2>2, <4>1 DEF SessionFits
      <4>3. QED
        BY <1>3, <4>2 DEF Unanswered
    <3>4. \A i \in DOMAIN conn'[c].script :
              i > conn'[c].index \/ (i = conn'[c].index /\ conn'[c].streaming) => Unanswered(c, i)'
      BY <1>4, <2>3, <3>3
    <3>5. QED
      BY <3>1, <3>2, <3>4 DEF SessionFits
  <2>7. ASSUME NEW i PROVE AnswerFits(c, i) => AnswerFits(c, i)'
    BY <1>3, <1>4, <2>1, AnswerKept
  <2>8. QED
    BY <1>2, <1>3, <1>4, <2>1, <2>6, <2>7 DEF ConnectionFits, Unanswered, lifecycle
<1>9. ASSUME NEW q \in Starts PROVE Agrees(q)'
  <2>1. /\ Mine(q)' = Mine(q) /\ DecidedOf(q)' = DecidedOf(q)
        /\ RefusedOf(q)' = RefusedOf(q) /\ EvaluatedOf(q)' = EvaluatedOf(q)
    BY <1>2, <1>3, <1>4, <1>5, QuietCounts
  <2>2. \A d \in Connections : conn'[d].server = conn[d].server
    BY <1>2, <1>4, <1>5
  <2>3. CASE q # s
    <3>1. StreamingOn(q)' = StreamingOn(q)
      BY <1>2, <1>5, <2>2, <2>3, StreamCounts
    <3>2. QED
      BY <1>3, <1>6, <2>1, <2>3, <3>1, CountsKept DEF IndInv, lifecycle
  <2>4. CASE q = s
    <3>1. Cardinality(StreamingOn(s)') = Cardinality(StreamingOn(s)) + 1
      BY <1>2, <1>3, <1>4, <1>5, <2>2, StreamCounts, ZenonT(30)
    <3>2. Agrees(s) /\ lost[s] \in Nat
      BY DEF IndInv, Types
    <3>3. Cardinality(StreamingOn(s)) \in Nat /\ Cardinality(Mine(s)) \in Nat
      BY AnsweredFinite
    <3>4. type' = type /\ lost' = lost /\ failed' = failed
      BY <1>3 DEF lifecycle
    <3>5. QED
      BY <1>6, <2>1, <2>4, <3>1, <3>2, <3>3, <3>4 DEF Agrees
  <2>5. QED
    BY <2>3, <2>4
<1>10. QED
  BY <1>3, <1>5, <1>7, <1>8, <1>9, TrafficStep

LEMMA StreamDataStep ==
    ASSUME IndInv, NEW c \in Connections, StreamData(c)
    PROVE  IndInv'
<1>1. conn[c].open /\ conn[c] # Closed
  BY DEF StreamData, IsOpen, Closed
<1>2. PICK s \in Starts : /\ s = conn[c].server /\ server[s] # "none" /\ conn[c].script \in Scripts
                          /\ conn[c] \in ConnectionType /\ ConnectionFits(c) /\ s # None
  BY <1>1, OpenTypes
<1>3. /\ type[s] = "http2" /\ conn[c].streaming
      /\ UNCHANGED <<lifecycle, metrics, answer, lost, failed>>
  BY <1>2 DEF StreamData, IsOpen
<1>4. PICK upto \in (conn[c].got + 1) .. (conn[c].from + Current(c).body) :
        conn' = [conn EXCEPT ![c].got = upto,
                             ![c].torn = (@ \/ conn[c].got - conn[c].from \in Current(c).wide)]
  BY DEF StreamData
<1>5. SessionFits(c) /\ Type(c) = "http2"
  BY <1>2, <1>3 DEF ConnectionFits, Type
<1>6. conn[c].index \in DOMAIN conn[c].script /\ Current(c).body \in Nat /\ conn[c].from = 0 /\ conn[c].got \in Nat
  BY <1>2, <1>3, <1>5, ScriptTypes DEF SessionFits, Current, ConnectionType
<1>7. PICK torn \in BOOLEAN : torn = (conn[c].torn \/ conn[c].got - conn[c].from \in Current(c).wide)
  OBVIOUS
<1>8. PICK k \in ConnectionType :
        /\ k = conn'[c] /\ k.open = conn[c].open /\ k.streaming = conn[c].streaming /\ k.server = s
        /\ k.script = conn[c].script /\ k.index = conn[c].index /\ k.from = conn[c].from
        /\ k.ended = conn[c].ended /\ k.got = upto /\ k.torn = torn
  <2>1. PICK old \in ConnectionType : old = conn[c]
    BY <1>2
  <2>2. upto \in Nat
    BY <1>6
  <2>3. PICK k : k = [old EXCEPT !.got = upto, !.torn = torn]
    OBVIOUS
  <2>4. k \in ConnectionType
    BY <2>2, <2>3 DEF ConnectionType
  <2>5. /\ k.open = old.open /\ k.streaming = old.streaming /\ k.server = old.server
        /\ k.script = old.script /\ k.index = old.index /\ k.from = old.from /\ k.ended = old.ended
        /\ k.got = upto /\ k.torn = torn
    BY <2>3 DEF ConnectionType
  <2>6. conn'[c] = k
    BY <1>4, <1>7, <2>1, <2>3 DEF IndInv, Types
  <2>7. QED
    BY <1>2, <2>1, <2>4, <2>5, <2>6
<1>9. conn' \in [Connections -> ConnectionType] /\ \A d \in Connections \ {c} : conn'[d] = conn[d]
  BY <1>4, <1>8 DEF IndInv, Types
<1>10. Types' /\ FreshMetrics'
  BY <1>2, <1>3, <1>9 DEF IndInv, Types, FreshMetrics, lifecycle
<1>11. ConnectionFits(c)'
  <2>1. Type(c)' = Type(c)
    BY <1>2, <1>3, <1>8 DEF Type, lifecycle
  <2>2. upto <= Current(c).body /\ (torn => Current(c).wide # {}) /\ Current(c)' = Current(c)
    <3>1. upto <= Current(c).body
      BY <1>6
    <3>2. torn => Current(c).wide # {}
      BY <1>3, <1>5, <1>7 DEF SessionFits
    <3>3. Current(c)' = Current(c)
      BY <1>8 DEF Current
    <3>4. QED
      BY <3>1, <3>2, <3>3
  <2>3. SessionFits(c)'
    BY <1>3, <1>5, <1>8, <2>2 DEF SessionFits, Unanswered
  <2>4. ASSUME NEW i PROVE AnswerFits(c, i) => AnswerFits(c, i)'
    BY <1>3, <1>8, <2>1, AnswerKept
  <2>5. QED
    BY <1>2, <1>3, <1>5, <1>8, <2>1, <2>3, <2>4 DEF ConnectionFits, Unanswered, lifecycle
<1>12. ASSUME NEW q \in Starts PROVE Agrees(q)'
  <2>1. /\ Mine(q)' = Mine(q) /\ DecidedOf(q)' = DecidedOf(q)
        /\ RefusedOf(q)' = RefusedOf(q) /\ EvaluatedOf(q)' = EvaluatedOf(q)
    BY <1>2, <1>3, <1>8, <1>9, QuietCounts
  <2>2. StreamingOn(q)' = StreamingOn(q)
    BY <1>2, <1>8, <1>9 DEF StreamingOn
  <2>3. QED
    BY <1>3, <2>1, <2>2, CountsKept DEF IndInv, lifecycle
<1>13. QED
  BY <1>3, <1>9, <1>10, <1>11, <1>12, TrafficStep

-------------------------------------------------------------------------------
(* Answers.                                                                *)

LEMMA EngineTypes == ASSUME NEW ctx PROVE EvaluateAsync(ctx) \in Decisions \cup {"throws"}
<1>1. PICK decision : decision = PerformEvaluation(Rules, <<>>, ctx)
  OBVIOUS
<1>2. \A rule : RuleDecision(rule) \in Decisions
  BY DEF RuleDecision, Decisions
<1>3. decision \in Decisions \cup {"throws"}
  BY <1>1, <1>2 DEF PerformEvaluation, Decisions
<1>4. Evaluate(Rules, <<>>, ctx) \in Decisions
  BY <1>1, <1>3 DEF Evaluate, Decisions
<1>5. QED
  BY <1>1, <1>3, <1>4 DEF EvaluateAsync

LEMMA ReplyTypes ==
    ASSUME NEW kind, NEW ctx, NEW whole \in BOOLEAN
    PROVE  /\ Reply(kind, ctx, whole) \in Replies /\ Reply(kind, ctx, whole) # None
           /\ Reply(kind, ctx, whole).status = Status(kind, ctx, whole)
           /\ Reply(kind, ctx, whole).decision = Decision(kind, ctx, whole)
           /\ Decision(kind, ctx, whole) # None => kind = "evaluate" /\ whole
<1>1. Status(kind, ctx, whole) \in {200, 400, 404}
  BY DEF Status
<1>2. Status(kind, ctx, whole) = 200 /\ kind = "evaluate" => whole /\ EvaluateAsync(ctx) \in Decisions
  <2>1. EvaluateAsync(ctx) \in Decisions \cup {"throws"}
    BY EngineTypes
  <2>2. QED
    BY <2>1 DEF Status
<1>3. Decision(kind, ctx, whole) \in Decisions \cup {None}
  BY <1>2 DEF Decision
<1>4. Reply(kind, ctx, whole) \in Replies
  BY <1>1, <1>3 DEF Reply, Replies
<1>5. QED
  BY <1>2, <1>4, NoneTypes DEF Reply, Decision

LEMMA CountedIs ==
    ASSUME NEW m \in Counters, NEW kind, NEW ctx, NEW whole \in BOOLEAN
    PROVE  /\ Counted(m, kind, ctx, whole) \in Counters
           /\ Counted(m, kind, ctx, whole).requests = m.requests
           /\ Counted(m, kind, ctx, whole).evaluations =
                  m.evaluations + (IF kind = "evaluate" /\ whole THEN 1 ELSE 0)
           /\ Counted(m, kind, ctx, whole).errors =
                  m.errors + (IF Status(kind, ctx, whole) = 400 THEN 1 ELSE 0)
<1>1. PICK evaluations \in Nat : evaluations = m.evaluations + (IF kind = "evaluate" /\ whole THEN 1 ELSE 0)
  BY DEF Counters
<1>2. PICK errors \in Nat : errors = m.errors + (IF Status(kind, ctx, whole) = 400 THEN 1 ELSE 0)
  BY DEF Counters
<1>3. Counted(m, kind, ctx, whole) = [m EXCEPT !.evaluations = evaluations, !.errors = errors]
  BY <1>1, <1>2 DEF Counted, Counters
<1>4. [m EXCEPT !.evaluations = evaluations, !.errors = errors] \in Counters
  BY DEF Counters
<1>5. QED
  BY <1>1, <1>2, <1>3, <1>4 DEF Counters

LEMMA StreamEndStep ==
    ASSUME IndInv, NEW c \in Connections, StreamEnd(c)
    PROVE  IndInv'
<1>1. conn[c].open /\ conn[c] # Closed
  BY DEF StreamEnd, IsOpen, Closed
<1>2. PICK s \in Starts : /\ s = conn[c].server /\ server[s] # "none" /\ conn[c].script \in Scripts
                          /\ conn[c] \in ConnectionType /\ ConnectionFits(c) /\ s # None
                          /\ answer[c] \in [DOMAIN conn[c].script -> Replies \cup {None}]
  BY <1>1, OpenTypes
<1>3. /\ type[s] = "http2" /\ conn[c].streaming
      /\ conn[c].got - conn[c].from = Current(c).body
      /\ conn' = [conn EXCEPT ![c].streaming = FALSE]
      /\ UNCHANGED <<lifecycle, lost, failed>>
  BY <1>2 DEF StreamEnd, IsOpen
<1>4. SessionFits(c) /\ Type(c) = "http2"
  BY <1>2, <1>3 DEF ConnectionFits, Type
<1>5. PICK n \in DOMAIN conn[c].script : n = conn[c].index
  BY <1>3, <1>4 DEF SessionFits
<1>6. PICK r : r = conn[c].script[n] /\ r = Current(c)
  BY <1>5 DEF Current
<1>7. conn[c].got = r.body /\ Unanswered(c, n) /\ (conn[c].torn => r.wide # {})
  <2>1. conn[c].got \in Nat /\ conn[c].from = 0 /\ r.body \in Nat
    BY <1>2, <1>4, <1>6, ScriptTypes DEF SessionFits, ConnectionType
  <2>2. QED
    BY <1>3, <1>4, <1>5, <1>6, <2>1 DEF SessionFits
<1>8. PICK ctx : ctx = IF conn[c].torn THEN Garbled(r.ctx) ELSE r.ctx
  OBVIOUS
<1>9. PICK reply \in Replies : /\ reply = Reply(r.kind, ctx, TRUE) /\ reply # None
                               /\ reply.status = Status(r.kind, ctx, TRUE)
                               /\ reply.decision = Decision(r.kind, ctx, TRUE)
  BY ReplyTypes
<1>10. /\ answer' = [answer EXCEPT ![c][n] = reply]
       /\ metrics' = [metrics EXCEPT ![s] = Counted(@, r.kind, ctx, TRUE)]
  <2>1. (conn[c].got = r.body) = TRUE
    BY <1>7
  <2>2. QED
    BY <1>2, <1>5, <1>6, <1>8, <1>9, <2>1 DEF StreamEnd
<1>11. PICK k \in ConnectionType :
        /\ k = conn'[c] /\ k.open = conn[c].open /\ ~ k.streaming /\ k.server = s
        /\ k.script = conn[c].script /\ k.index = conn[c].index /\ k.from = conn[c].from
        /\ k.ended = conn[c].ended /\ k.got = conn[c].got /\ k.torn = conn[c].torn
  <2>1. PICK old \in ConnectionType : old = conn[c]
    BY <1>2
  <2>2. PICK k : k = [old EXCEPT !.streaming = FALSE]
    OBVIOUS
  <2>3. k \in ConnectionType
    BY <2>2 DEF ConnectionType
  <2>4. /\ k.open = old.open /\ ~ k.streaming /\ k.server = old.server
        /\ k.script = old.script /\ k.index = old.index /\ k.from = old.from /\ k.ended = old.ended
        /\ k.got = old.got /\ k.torn = old.torn
    BY <2>2 DEF ConnectionType
  <2>5. conn'[c] = k
    BY <1>3, <2>1, <2>2 DEF IndInv, Types
  <2>6. QED
    BY <1>2, <2>1, <2>3, <2>4, <2>5
<1>12. conn' \in [Connections -> ConnectionType] /\ \A d \in Connections \ {c} : conn'[d] = conn[d]
  BY <1>3, <1>11 DEF IndInv, Types
<1>13. /\ DOMAIN answer' = Connections /\ DOMAIN answer'[c] = DOMAIN answer[c] /\ answer'[c][n] = reply
       /\ answer'[c] \in [DOMAIN conn[c].script -> Replies \cup {None}]
       /\ \A d \in Connections \ {c} : answer'[d] = answer[d]
       /\ \A j : j # n => answer'[c][j] = answer[c][j]
  BY <1>2, <1>10 DEF IndInv, Types
<1>14. /\ metrics' \in [Starts -> Counters] /\ \A q \in Starts \ {s} : metrics'[q] = metrics[q]
       /\ metrics[s].requests \in Nat /\ metrics[s].evaluations \in Nat /\ metrics[s].errors \in Nat
       /\ metrics'[s].requests = metrics[s].requests
       /\ metrics'[s].evaluations = metrics[s].evaluations + (IF r.kind = "evaluate" THEN 1 ELSE 0)
       /\ metrics'[s].errors = metrics[s].errors + (IF reply.status = 400 THEN 1 ELSE 0)
  <2>1. PICK old \in Counters : old = metrics[s]
    BY DEF IndInv, Types
  <2>2. PICK new \in Counters :
          /\ new = Counted(old, r.kind, ctx, TRUE) /\ new.requests = old.requests
          /\ new.evaluations = old.evaluations + (IF r.kind = "evaluate" THEN 1 ELSE 0)
          /\ new.errors = old.errors + (IF reply.status = 400 THEN 1 ELSE 0)
    <3>1. PICK whole \in BOOLEAN : whole
      OBVIOUS
    <3>2. PICK new \in Counters :
            /\ new = Counted(old, r.kind, ctx, whole) /\ new.requests = old.requests
            /\ new.evaluations = old.evaluations + (IF r.kind = "evaluate" /\ whole THEN 1 ELSE 0)
            /\ new.errors = old.errors + (IF Status(r.kind, ctx, whole) = 400 THEN 1 ELSE 0)
      BY CountedIs
    <3>3. whole = TRUE
      BY <3>1
    <3>4. QED
      BY <1>9, <3>2, <3>3, ZenonT(30)
  <2>3. metrics' = [metrics EXCEPT ![s] = new]
    BY <1>10, <2>1, <2>2
  <2>4. old.requests \in Nat /\ old.evaluations \in Nat /\ old.errors \in Nat
    BY DEF Counters
  <2>5. QED
    BY <2>1, <2>2, <2>3, <2>4, ZenonT(30) DEF IndInv, Types
<1>15. Types' /\ FreshMetrics'
  BY <1>2, <1>3, <1>12, <1>13, <1>14 DEF IndInv, Types, FreshMetrics, lifecycle
<1>16. ConnectionFits(c)'
  <2>1. Type(c)' = Type(c)
    BY <1>2, <1>3, <1>11 DEF Type, lifecycle
  <2>2. SessionFits(c)'
    BY <1>4, <1>5, <1>11, <1>13 DEF SessionFits, Unanswered
  <2>3. ASSUME NEW i, i # n PROVE AnswerFits(c, i) => AnswerFits(c, i)'
    BY <1>11, <1>13, <2>1, <2>3, AnswerKept
  <2>4. AnswerFits(c, n)'
    BY <1>4, <1>6, <1>7, <1>8, <1>9, <1>11, <1>13, <2>1 DEF AnswerFits, Fits
  <2>5. \A i \in DOMAIN conn[c].script : Unanswered(c, i)' \/ AnswerFits(c, i)'
    BY <1>2, <1>13, <2>3, <2>4 DEF ConnectionFits, Unanswered
  <2>6. QED
    BY <1>2, <1>3, <1>4, <1>11, <1>13, <2>1, <2>2, <2>5 DEF ConnectionFits, lifecycle
<1>17. ASSUME NEW q \in Starts PROVE Agrees(q)'
  <2>1. /\ \A d \in Connections : conn'[d].server = conn[d].server /\ conn'[d].script = conn[d].script
        /\ \A d \in Connections : DOMAIN answer'[d] = DOMAIN answer[d]
        /\ \A d \in Connections : \A j \in DOMAIN answer[d] : d # c \/ j # n => answer'[d][j] = answer[d][j]
        /\ n \in DOMAIN answer[c] /\ <<c, n>> \notin Answered
    BY <1>2, <1>7, <1>11, <1>12, <1>13, AnsweredIs DEF Unanswered
  <2>2. /\ q # s => /\ Mine(q)' = Mine(q) /\ DecidedOf(q)' = DecidedOf(q)
                     /\ RefusedOf(q)' = RefusedOf(q) /\ EvaluatedOf(q)' = EvaluatedOf(q)
        /\ Cardinality(Mine(s)') = Cardinality(Mine(s)) + 1
        /\ Cardinality(RefusedOf(s)') = Cardinality(RefusedOf(s)) + (IF reply.status = 400 THEN 1 ELSE 0)
        /\ Cardinality(EvaluatedOf(s)') = Cardinality(EvaluatedOf(s)) + (IF r.kind = "evaluate" THEN 1 ELSE 0)
    <3>1. /\ \A d \in Connections : conn'[d].server = conn[d].server /\ conn'[d].script = conn[d].script
          /\ \A d \in Connections : DOMAIN answer'[d] = DOMAIN answer[d]
          /\ \A d \in Connections : \A j \in DOMAIN answer[d] : d # c \/ j # n => answer'[d][j] = answer[d][j]
          /\ n \in DOMAIN answer[c] /\ <<c, n>> \notin Answered
          /\ DOMAIN answer' = Connections /\ answer'[c][n] = reply /\ reply # None
      BY <1>9, <1>13, <2>1
    <3>2. /\ \A q1 : q1 # conn[c].server =>
                  /\ Mine(q1)' = Mine(q1) /\ DecidedOf(q1)' = DecidedOf(q1)
                  /\ RefusedOf(q1)' = RefusedOf(q1) /\ EvaluatedOf(q1)' = EvaluatedOf(q1)
          /\ \A q1 : q1 = conn[c].server =>
                  /\ Cardinality(Mine(q1)') = Cardinality(Mine(q1)) + 1
                  /\ Cardinality(RefusedOf(q1)') =
                        Cardinality(RefusedOf(q1)) + (IF reply.status = 400 THEN 1 ELSE 0)
                  /\ Cardinality(EvaluatedOf(q1)') =
                        Cardinality(EvaluatedOf(q1))
                            + (IF conn[c].script[n].kind = "evaluate" THEN 1 ELSE 0)
      BY <3>1, OneCounts
    <3>3. QED
      BY <1>2, <1>6, <3>2
  <2>3. CASE q # s
    <3>1. StreamingOn(q)' = StreamingOn(q)
      BY <1>2, <1>12, <2>1, <2>3, StreamCounts
    <3>2. QED
      BY <1>3, <1>14, <2>2, <2>3, <3>1, CountsKept DEF IndInv, lifecycle
  <2>4. CASE q = s
    <3>1. Cardinality(StreamingOn(s)') = Cardinality(StreamingOn(s)) - 1
      BY <1>2, <1>3, <1>11, <1>12, <2>1, StreamCounts
    <3>2. Agrees(s) /\ lost[s] \in Nat /\ failed[s] \in Nat
      BY DEF IndInv, Types
    <3>3. /\ Cardinality(StreamingOn(s)) \in Nat /\ Cardinality(Mine(s)) \in Nat
          /\ Cardinality(RefusedOf(s)) \in Nat /\ Cardinality(EvaluatedOf(s)) \in Nat
      BY AnsweredFinite
    <3>4. type' = type /\ lost' = lost /\ failed' = failed
      BY <1>3 DEF lifecycle
    <3>5. QED
      BY <1>3, <1>14, <2>2, <2>4, <3>1, <3>2, <3>3, <3>4 DEF Agrees
  <2>5. QED
    BY <2>3, <2>4
<1>18. QED
  BY <1>3, <1>12, <1>13, <1>15, <1>16, <1>17, TrafficStep

-------------------------------------------------------------------------------
(* The socket.                                                             *)

LEMMA FirstOfIs ==
    ASSUME NEW indices, indices \subseteq Nat, indices # {}
    PROVE  FirstOf(indices) \in indices /\ \A other \in indices : FirstOf(indices) <= other
<1>1. \E i \in indices : \A other \in indices : i <= other
  BY Least
<1>2. QED
  BY <1>1 DEF FirstOf

\* The counters after a request has been received, counted, and its answer maybe not written.
Received(m, kind, ctx, whole, unwritable) ==
    [Counted([m EXCEPT !.requests = @ + 1], kind, ctx, whole) EXCEPT !.errors = @ + unwritable]

LEMMA ReceivedIs ==
    ASSUME NEW m \in Counters, NEW kind, NEW ctx, NEW whole \in BOOLEAN, NEW unwritable \in {0, 1}
    PROVE  /\ Received(m, kind, ctx, whole, unwritable) \in Counters
           /\ Received(m, kind, ctx, whole, unwritable).requests = m.requests + 1
           /\ Received(m, kind, ctx, whole, unwritable).evaluations =
                  m.evaluations + (IF kind = "evaluate" /\ whole THEN 1 ELSE 0)
           /\ Received(m, kind, ctx, whole, unwritable).errors =
                  m.errors + (IF Status(kind, ctx, whole) = 400 THEN 1 ELSE 0) + unwritable
<1>1. PICK requests \in Nat : requests = m.requests + 1
  BY DEF Counters
<1>2. PICK next : next = [m EXCEPT !.requests = requests]
  OBVIOUS
<1>3. next \in Counters
  BY <1>2 DEF Counters
<1>4. next.requests = requests /\ next.evaluations = m.evaluations /\ next.errors = m.errors
  BY <1>2 DEF Counters
<1>5. next = [m EXCEPT !.requests = @ + 1]
  BY <1>1, <1>2 DEF Counters
<1>6. PICK counted \in Counters :
        /\ counted = Counted(next, kind, ctx, whole)
        /\ counted.requests = next.requests
        /\ counted.evaluations = next.evaluations + (IF kind = "evaluate" /\ whole THEN 1 ELSE 0)
        /\ counted.errors = next.errors + (IF Status(kind, ctx, whole) = 400 THEN 1 ELSE 0)
  BY <1>3, CountedIs
<1>7. PICK errors \in Nat : errors = counted.errors + unwritable
  BY DEF Counters
<1>8. PICK new : new = [counted EXCEPT !.errors = errors]
  OBVIOUS
<1>9. new \in Counters
  BY <1>8 DEF Counters
<1>10. new.requests = counted.requests /\ new.evaluations = counted.evaluations /\ new.errors = errors
  BY <1>8 DEF Counters
<1>11. new = [counted EXCEPT !.errors = @ + unwritable]
  BY <1>7, <1>8 DEF Counters
<1>12. new = Received(m, kind, ctx, whole, unwritable)
  BY <1>5, <1>6, <1>11 DEF Received
<1>13. new.requests = m.requests + 1
  BY <1>1, <1>4, <1>6, <1>10
<1>14. new.evaluations = m.evaluations + (IF kind = "evaluate" /\ whole THEN 1 ELSE 0)
  BY <1>4, <1>6, <1>10
<1>15. new.errors = m.errors + (IF Status(kind, ctx, whole) = 400 THEN 1 ELSE 0) + unwritable
  BY <1>4, <1>6, <1>7, <1>10
<1>16. QED
  BY <1>9, <1>12, <1>13, <1>14, <1>15

\* What Dispatch makes of request i, and what it changes in terms of that.
Made(c, i, upto, kind, whole, unwritable, refused) ==
    /\ kind = IF conn[c].from = Offset(conn[c].script, i) THEN conn[c].script[i].kind ELSE "other"
    /\ whole <=> upto = BodyEnd(conn[c].script, i)
    /\ unwritable = IF conn[c].ended THEN 1 ELSE 0
    /\ refused = IF Status(kind, conn[c].script[i].ctx, whole) = 400 THEN 1 ELSE 0

LEMMA DispatchEffect ==
    ASSUME Types, NEW c \in Connections, NEW s \in Starts, s = conn[c].server,
           NEW i, NEW upto \in Nat, Dispatch(c, i, upto),
           NEW kind, NEW whole \in BOOLEAN, NEW unwritable \in {0, 1}, NEW refused \in {0, 1},
           Made(c, i, upto, kind, whole, unwritable, refused)
    PROVE  /\ metrics' \in [Starts -> Counters]
           /\ metrics'[s].requests = metrics[s].requests + 1
           /\ metrics'[s].evaluations = metrics[s].evaluations + (IF kind = "evaluate" /\ whole THEN 1 ELSE 0)
           /\ metrics'[s].errors = metrics[s].errors + refused + unwritable
           /\ lost' = [lost EXCEPT ![s] = @ + unwritable]
           /\ failed' = [failed EXCEPT ![s] = @ + unwritable + (IF conn[c].ended THEN refused ELSE 0)]
           /\ \A q \in Starts \ {s} : metrics'[q] = metrics[q]
           /\ answer' = IF conn[c].ended THEN answer
                        ELSE [answer EXCEPT ![c][i] = Reply(kind, conn[c].script[i].ctx, whole)]
<1>1. PICK old \in Counters : old = metrics[s]
  BY DEF Types
<1>2. PICK new : new = Received(old, kind, conn[c].script[i].ctx, whole, unwritable)
  OBVIOUS
<1>3. /\ new \in Counters /\ new.requests = old.requests + 1
      /\ new.evaluations = old.evaluations + (IF kind = "evaluate" /\ whole THEN 1 ELSE 0)
      /\ new.errors = old.errors + refused + unwritable
  <2>1. PICK ctx : ctx = conn[c].script[i].ctx
    OBVIOUS
  <2>2. new = Received(old, kind, ctx, whole, unwritable)
    BY <1>2, <2>1
  <2>3. /\ new \in Counters /\ new.requests = old.requests + 1
        /\ new.evaluations = old.evaluations + (IF kind = "evaluate" /\ whole THEN 1 ELSE 0)
        /\ new.errors = old.errors + (IF Status(kind, ctx, whole) = 400 THEN 1 ELSE 0) + unwritable
    BY <2>2, ReceivedIs
  <2>4. refused = IF Status(kind, ctx, whole) = 400 THEN 1 ELSE 0
    BY <2>1 DEF Made
  <2>5. QED
    BY <2>3, <2>4
<1>4. metrics' = [metrics EXCEPT ![s] = new]
  BY <1>1, <1>2 DEF Dispatch, Received, Made
<1>5. lost' = [lost EXCEPT ![s] = @ + unwritable]
  BY DEF Dispatch, Made
<1>6. failed' = [failed EXCEPT ![s] = @ + unwritable + (IF conn[c].ended THEN refused ELSE 0)]
  BY DEF Dispatch, Made
<1>7. answer' = IF conn[c].ended THEN answer
               ELSE [answer EXCEPT ![c][i] = Reply(kind, conn[c].script[i].ctx, whole)]
  BY DEF Dispatch, Made
<1>8. /\ metrics' \in [Starts -> Counters] /\ metrics'[s] = new
      /\ \A q \in Starts \ {s} : metrics'[q] = metrics[q]
  BY <1>3, <1>4 DEF Types
<1>9. QED
  BY <1>1, <1>3, <1>5, <1>6, <1>7, <1>8

\* A dispatch, whatever was made of the request: either the first one is answered, or the
\* socket had been ended and a later one is lost.
LEMMA DispatchStep ==
    ASSUME IndInv, NEW c \in Connections, conn[c].open, IsOpen(c, "ipc"), UNCHANGED lifecycle,
           NEW upto \in Nat, Heads(c, upto) # {}, Dispatch(c, FirstOf(Heads(c, upto)), upto)
    PROVE  IndInv'
<1>1. PICK s \in Starts : /\ s = conn[c].server /\ server[s] # "none" /\ conn[c].script \in Scripts
                          /\ conn[c] \in ConnectionType /\ ConnectionFits(c) /\ s # None
                          /\ answer[c] \in [DOMAIN conn[c].script -> Replies \cup {None}]
  <2>1. conn[c] # Closed
    BY DEF Closed
  <2>2. QED
    BY <2>1, OpenTypes
<1>2. type[s] = "ipc" /\ Type(c) = "ipc" /\ SocketFits(c)
  BY <1>1 DEF IsOpen, Type, ConnectionFits
<1>3. PICK i : i = FirstOf(Heads(c, upto))
  OBVIOUS
<1>4. /\ i \in DOMAIN conn[c].script /\ i \in Nat /\ i >= 1
      /\ HeadEnd(conn[c].script, i) > conn[c].from /\ HeadEnd(conn[c].script, i) <= upto
      /\ HeadEnd(conn[c].script, i) \in Nat /\ conn[c].from \in Nat
      /\ \A other \in Heads(c, upto) : i <= other
  <2>1. DOMAIN conn[c].script \subseteq Nat \ {0}
    BY <1>1, ScriptTypes
  <2>2. Heads(c, upto) \subseteq Nat
    BY <2>1 DEF Heads
  <2>3. i \in Heads(c, upto) /\ \A other \in Heads(c, upto) : i <= other
    BY <1>3, <2>2, FirstOfIs
  <2>4. i \in DOMAIN conn[c].script /\ HeadEnd(conn[c].script, i) \in (conn[c].from + 1) .. upto
    BY <2>3 DEF Heads
  <2>5. HeadEnd(conn[c].script, i) \in Nat /\ conn[c].from \in Nat
    BY <1>1, <2>4, BodyEnds DEF ConnectionType
  <2>6. QED
    BY <2>1, <2>3, <2>4, <2>5
<1>5. /\ 1 \in DOMAIN conn[c].script /\ HeadEnd(conn[c].script, 1) = HeadLength /\ HeadLength \in Nat /\ HeadLength > 0
      /\ BodyEnd(conn[c].script, 1) \in Nat /\ HeadEnd(conn[c].script, i) >= HeadLength
      /\ i # 1 => HeadEnd(conn[c].script, i) > BodyEnd(conn[c].script, 1)
      /\ Offset(conn[c].script, 1) = 0
  BY <1>1, <1>4, BodyEnds, Offsets, HeadTypes
<1>6. ~ conn[c].ended => i = 1 /\ conn[c].from = 0
  <2>1. ASSUME ~ conn[c].ended PROVE conn[c].from = 0
    BY <1>2, <2>1 DEF SocketFits
  <2>2. ASSUME ~ conn[c].ended PROVE 1 \in Heads(c, upto)
    <3>1. HeadEnd(conn[c].script, 1) \in (conn[c].from + 1) .. upto
      BY <1>4, <1>5, <2>1, <2>2
    <3>2. QED
      BY <1>5, <3>1 DEF Heads
  <2>3. QED
    BY <1>4, <2>1, <2>2
<1>7. conn[c].ended => i # 1 /\ upto > BodyEnd(conn[c].script, 1)
  <2>1. ASSUME conn[c].ended PROVE conn[c].from >= HeadEnd(conn[c].script, 1)
    BY <1>2, <2>1 DEF SocketFits
  <2>2. ASSUME conn[c].ended PROVE i # 1
    BY <1>4, <1>5, <2>1, <2>2
  <2>3. QED
    BY <1>4, <1>5, <2>2
<1>8. PICK kind : kind = IF conn[c].from = Offset(conn[c].script, i) THEN conn[c].script[i].kind ELSE "other"
  OBVIOUS
<1>9. PICK whole \in BOOLEAN : whole <=> upto = BodyEnd(conn[c].script, i)
  OBVIOUS
<1>10. PICK unwritable \in {0, 1} : unwritable = IF conn[c].ended THEN 1 ELSE 0
  OBVIOUS
<1>11. PICK refused \in {0, 1} : refused = IF Status(kind, conn[c].script[i].ctx, whole) = 400 THEN 1 ELSE 0
  OBVIOUS
<1>12. PICK reply \in Replies : /\ reply = Reply(kind, conn[c].script[i].ctx, whole) /\ reply # None
                                /\ reply.status = Status(kind, conn[c].script[i].ctx, whole)
                                /\ reply.decision = Decision(kind, conn[c].script[i].ctx, whole)
                                /\ reply.decision # None => kind = "evaluate" /\ whole
  BY ReplyTypes
<1>13. /\ metrics' \in [Starts -> Counters]
       /\ metrics'[s].requests = metrics[s].requests + 1
       /\ metrics'[s].evaluations = metrics[s].evaluations + (IF kind = "evaluate" /\ whole THEN 1 ELSE 0)
       /\ metrics'[s].errors = metrics[s].errors + refused + unwritable
       /\ lost' = [lost EXCEPT ![s] = @ + unwritable]
       /\ failed' = [failed EXCEPT ![s] = @ + unwritable + (IF conn[c].ended THEN refused ELSE 0)]
       /\ \A q \in Starts \ {s} : metrics'[q] = metrics[q]
       /\ answer' = IF conn[c].ended THEN answer
                    ELSE [answer EXCEPT ![c][i] = Reply(kind, conn[c].script[i].ctx, whole)]
  <2>1. Made(c, i, upto, kind, whole, unwritable, refused)
    BY <1>8, <1>9, <1>10, <1>11 DEF Made
  <2>2. Types /\ Dispatch(c, i, upto) /\ s = conn[c].server
    BY <1>1, <1>3 DEF IndInv
  <2>3. QED
    BY <2>1, <2>2, DispatchEffect
<1>14. PICK k \in ConnectionType :
        /\ k = conn'[c] /\ k.server = s /\ k.script = conn[c].script /\ ~ k.streaming
        /\ k.from = upto /\ k.ended
  <2>1. PICK old \in ConnectionType : old = conn[c]
    BY <1>1
  <2>2. PICK open \in BOOLEAN : open = ~ conn[c].ended
    OBVIOUS
  <2>3. PICK k : k = [old EXCEPT !.got = upto, !.from = upto, !.ended = TRUE, !.open = open]
    OBVIOUS
  <2>4. k \in ConnectionType
    BY <2>3 DEF ConnectionType
  <2>5. /\ k.streaming = old.streaming /\ k.server = old.server /\ k.script = old.script
        /\ k.from = upto /\ k.ended
    BY <2>3 DEF ConnectionType
  <2>6. conn'[c] = k
    BY <2>1, <2>2, <2>3 DEF IndInv, Types, Dispatch
  <2>7. ~ old.streaming
    BY <1>2, <2>1 DEF SocketFits
  <2>8. QED
    BY <1>1, <2>1, <2>4, <2>5, <2>6, <2>7
<1>15. conn' \in [Connections -> ConnectionType] /\ \A d \in Connections \ {c} : conn'[d] = conn[d]
  <2>1. \A d \in Connections \ {c} : conn'[d] = conn[d]
    BY DEF Dispatch, IndInv, Types
  <2>2. DOMAIN conn' = Connections /\ \E g : conn' = [conn EXCEPT ![c] = g]
    BY DEF Dispatch, IndInv, Types
  <2>3. QED
    BY <1>14, <2>1, <2>2 DEF IndInv, Types
<1>16. /\ DOMAIN answer' = Connections
       /\ answer'[c] \in [DOMAIN conn[c].script -> Replies \cup {None}]
       /\ \A d \in Connections \ {c} : answer'[d] = answer[d]
       /\ \A j : j # i => answer'[c][j] = answer[c][j]
       /\ conn[c].ended => answer' = answer
       /\ ~ conn[c].ended => answer'[c][i] = reply
  BY <1>1, <1>4, <1>12, <1>13 DEF IndInv, Types
<1>17. /\ lost' \in [Starts -> Nat] /\ failed' \in [Starts -> Nat]
       /\ lost'[s] = lost[s] + unwritable /\ failed'[s] = failed[s] + unwritable + (IF conn[c].ended THEN refused ELSE 0)
       /\ \A q \in Starts \ {s} : lost'[q] = lost[q] /\ failed'[q] = failed[q]
       /\ lost[s] \in Nat /\ failed[s] \in Nat
  BY <1>13 DEF IndInv, Types
<1>18. Types' /\ FreshMetrics'
  BY <1>1, <1>13, <1>15, <1>16, <1>17 DEF IndInv, Types, FreshMetrics, lifecycle
<1>19. ConnectionFits(c)'
  <2>1. Type(c)' = Type(c)
    BY <1>1, <1>14 DEF Type, lifecycle
  <2>2. HeadEnd(conn[c].script, 1)' = HeadEnd(conn[c].script, 1) /\ BodyEnd(conn[c].script, 1)' = BodyEnd(conn[c].script, 1)
    BY <1>14 DEF HeadEnd, BodyEnd, Offset
  <2>3. \A j \in DOMAIN conn[c].script : j # 1 => Unanswered(c, j)'
    BY <1>2, <1>6, <1>16 DEF SocketFits, Unanswered
  <2>4. SocketFits(c)'
    <3>1. conn'[c].from >= HeadEnd(conn[c].script, 1)'
      BY <1>4, <1>5, <1>14, <2>2
    <3>2. QED
      BY <1>14, <2>3, <3>1 DEF SocketFits
  <2>5. Unanswered(c, 1)' \/ AnswerFits(c, 1)'
    <3>1. CASE conn[c].ended
      <4>1. Unanswered(c, 1) \/ AnswerFits(c, 1)
        BY <1>1, <1>5 DEF ConnectionFits
      <4>2. upto # BodyEnd(conn[c].script, 1)'
        BY <1>5, <1>7, <2>2, <3>1
      <4>3. QED
        BY <1>14, <1>16, <2>1, <3>1, <4>1, <4>2, ZenonT(90) DEF AnswerFits, Fits, Unanswered
    <3>2. CASE ~ conn[c].ended
      <4>1. i = 1 /\ kind = conn[c].script[1].kind /\ answer'[c][1] = reply
        BY <1>5, <1>6, <1>8, <1>16, <3>2
      <4>2. PICK r : r = conn[c].script[1] /\ r = conn'[c].script[1]
        BY <1>14
      <4>3. CASE whole
        <5>1. Fits(kind, r.ctx, reply)
          BY <1>12, <4>1, <4>2, <4>3 DEF Fits
        <5>2. QED
          BY <4>1, <4>2, <5>1 DEF AnswerFits, Fits
      <4>4. CASE ~ whole /\ kind # "evaluate"
        <5>1. Fits(kind, r.ctx, reply)
          BY <1>12, <4>1, <4>2, <4>4 DEF Fits, Status, Decision
        <5>2. QED
          BY <4>1, <4>2, <5>1 DEF AnswerFits, Fits
      <4>5. CASE ~ whole /\ kind = "evaluate"
        <5>1. reply.status = 400
          BY <1>12, <4>5 DEF Status
        <5>2. conn'[c].from # BodyEnd(conn[c].script, 1)'
          BY <1>9, <1>14, <2>2, <4>1, <4>5
        <5>3. QED
          BY <1>2, <2>1, <4>1, <4>2, <4>5, <5>1, <5>2 DEF AnswerFits
      <4>6. QED
        BY <4>3, <4>4, <4>5
    <3>3. QED
      BY <3>1, <3>2
  <2>6. \A j \in DOMAIN conn[c].script : Unanswered(c, j)' \/ AnswerFits(c, j)'
    BY <2>3, <2>5
  <2>7. QED
    BY <1>1, <1>2, <1>14, <1>16, <2>1, <2>4, <2>6 DEF ConnectionFits, lifecycle
<1>20. \A q : StreamingOn(q)' = StreamingOn(q)
  <2>1. ~ conn[c].streaming /\ ~ conn'[c].streaming /\ conn'[c].server = conn[c].server
    BY <1>1, <1>2, <1>14 DEF SocketFits
  <2>2. QED
    BY <1>15, <2>1 DEF StreamingOn
<1>21. CASE ~ conn[c].ended
  <2>1. /\ \A d \in Connections : conn'[d].server = conn[d].server /\ conn'[d].script = conn[d].script
        /\ \A d \in Connections : DOMAIN answer'[d] = DOMAIN answer[d]
        /\ \A d \in Connections : \A j \in DOMAIN answer[d] : d # c \/ j # i => answer'[d][j] = answer[d][j]
        /\ i \in DOMAIN answer[c] /\ DOMAIN answer' = Connections /\ answer'[c][i] = reply /\ reply # None
    BY <1>1, <1>4, <1>12, <1>14, <1>15, <1>16, <1>21
  <2>2. <<c, i>> \notin Answered
    BY <1>2, <1>4, <1>21, AnsweredIs DEF SocketFits, Unanswered
  <2>3. /\ \A q : q # conn[c].server =>
                /\ Mine(q)' = Mine(q) /\ DecidedOf(q)' = DecidedOf(q)
                /\ RefusedOf(q)' = RefusedOf(q) /\ EvaluatedOf(q)' = EvaluatedOf(q)
        /\ \A q : q = conn[c].server =>
                /\ Cardinality(Mine(q)') = Cardinality(Mine(q)) + 1
                /\ Cardinality(DecidedOf(q)') =
                      Cardinality(DecidedOf(q)) + (IF reply.decision # None THEN 1 ELSE 0)
                /\ Cardinality(RefusedOf(q)') =
                      Cardinality(RefusedOf(q)) + (IF reply.status = 400 THEN 1 ELSE 0)
                /\ Cardinality(EvaluatedOf(q)') =
                      Cardinality(EvaluatedOf(q)) + (IF conn[c].script[i].kind = "evaluate" THEN 1 ELSE 0)
    BY <2>1, <2>2, OneCounts
  <2>4. unwritable = 0 /\ kind = conn[c].script[i].kind
    BY <1>5, <1>6, <1>8, <1>10, <1>21
  <2>5. ASSUME NEW q \in Starts PROVE Agrees(q)'
    <3>1. CASE q # s
      BY <1>1, <1>13, <1>17, <1>20, <2>3, <3>1, CountsKept DEF IndInv, lifecycle
    <3>2. CASE q = s
      <4>1. Agrees(s) /\ type' = type /\ metrics[s] \in Counters
        BY DEF IndInv, lifecycle, Types
      <4>2. /\ metrics[s].requests \in Nat /\ metrics[s].errors \in Nat /\ metrics[s].evaluations \in Nat
            /\ Cardinality(StreamingOn(s)) \in Nat /\ Cardinality(Mine(s)) \in Nat
            /\ Cardinality(DecidedOf(s)) \in Nat
            /\ Cardinality(RefusedOf(s)) \in Nat /\ Cardinality(EvaluatedOf(s)) \in Nat
        BY <4>1, AnsweredFinite DEF Counters
      <4>3. refused = IF reply.status = 400 THEN 1 ELSE 0
        BY <1>11, <1>12
      <4>4. metrics'[s].requests = Cardinality(Mine(s)') + Cardinality(StreamingOn(s)') + lost'[s]
        <5>1. metrics'[s].requests = metrics[s].requests + 1
          BY <1>13
        <5>2. Cardinality(Mine(s)') = Cardinality(Mine(s)) + 1
          BY <1>1, <2>3
        <5>3. lost'[s] = lost[s] /\ lost[s] \in Nat
          BY <1>1, <1>13, <1>17, <2>4
        <5>4. Cardinality(StreamingOn(s)') = Cardinality(StreamingOn(s))
          BY <1>20
        <5>5. metrics[s].requests = Cardinality(Mine(s)) + Cardinality(StreamingOn(s)) + lost[s]
          BY <4>1 DEF Agrees
        <5>6. QED
          BY <4>2, <5>1, <5>2, <5>3, <5>4, <5>5
      <4>5. metrics'[s].errors = Cardinality(RefusedOf(s)') + failed'[s]
        <5>1. metrics'[s].errors = metrics[s].errors + refused
          BY <1>13, <2>4, <4>2
        <5>2. Cardinality(RefusedOf(s)') = Cardinality(RefusedOf(s)) + refused
          BY <1>1, <2>3, <4>3
        <5>3. failed'[s] = failed[s] /\ failed[s] \in Nat
          BY <1>1, <1>13, <1>17, <1>21, <2>4
        <5>4. metrics[s].errors = Cardinality(RefusedOf(s)) + failed[s]
          BY <4>1 DEF Agrees
        <5>5. QED
          BY <4>2, <5>1, <5>2, <5>3, <5>4
      <4>6. /\ metrics'[s].evaluations \in Nat
            /\ Cardinality(DecidedOf(s)') <= metrics'[s].evaluations
            /\ metrics'[s].evaluations <= Cardinality(EvaluatedOf(s)') + lost'[s]
        <5>1. PICK e \in {0, 1} : e = IF kind = "evaluate" /\ whole THEN 1 ELSE 0
          OBVIOUS
        <5>2. PICK d \in {0, 1} : d = IF reply.decision # None THEN 1 ELSE 0
          OBVIOUS
        <5>3. PICK f \in {0, 1} : f = IF conn[c].script[i].kind = "evaluate" THEN 1 ELSE 0
          OBVIOUS
        <5>4. d <= e /\ e <= f
          BY <1>12, <2>4, <5>1, <5>2, <5>3
        <5>5. /\ metrics'[s].evaluations = metrics[s].evaluations + e
              /\ Cardinality(DecidedOf(s)') = Cardinality(DecidedOf(s)) + d
              /\ Cardinality(EvaluatedOf(s)') = Cardinality(EvaluatedOf(s)) + f
              /\ lost'[s] = lost[s] /\ lost[s] \in Nat
          BY <1>1, <1>13, <1>17, <2>3, <2>4, <5>1, <5>2, <5>3
        <5>6. /\ Cardinality(DecidedOf(s)) <= metrics[s].evaluations
              /\ metrics[s].evaluations <= Cardinality(EvaluatedOf(s)) + lost[s]
          BY <1>2, <4>1 DEF Agrees
        <5>7. QED
          BY <4>2, <5>4, <5>5, <5>6
      <4>7. QED
        BY <1>2, <3>2, <4>1, <4>4, <4>5, <4>6 DEF Agrees
    <3>3. QED
      BY <3>1, <3>2
  <2>6. QED
    BY <1>15, <1>16, <1>18, <1>19, <2>5, TrafficStep
<1>22. CASE conn[c].ended
  <2>1. answer' = answer /\ conn'[c].server = conn[c].server /\ conn'[c].script = conn[c].script /\ unwritable = 1
    BY <1>1, <1>10, <1>14, <1>16, <1>22
  <2>2. \A q : /\ Mine(q)' = Mine(q) /\ DecidedOf(q)' = DecidedOf(q)
               /\ RefusedOf(q)' = RefusedOf(q) /\ EvaluatedOf(q)' = EvaluatedOf(q)
    BY <1>15, <2>1, QuietCounts
  <2>3. ASSUME NEW q \in Starts PROVE Agrees(q)'
    <3>1. CASE q # s
      BY <1>13, <1>17, <1>20, <2>2, <3>1, CountsKept DEF IndInv, lifecycle
    <3>2. CASE q = s
      <4>1. Agrees(s) /\ type' = type /\ metrics[s] \in Counters
        BY DEF IndInv, lifecycle, Types
      <4>2. /\ metrics[s].requests \in Nat /\ metrics[s].errors \in Nat /\ metrics[s].evaluations \in Nat
            /\ Cardinality(StreamingOn(s)) \in Nat /\ Cardinality(Mine(s)) \in Nat
            /\ Cardinality(DecidedOf(s)) \in Nat
            /\ Cardinality(RefusedOf(s)) \in Nat /\ Cardinality(EvaluatedOf(s)) \in Nat
        BY <4>1, AnsweredFinite DEF Counters
      <4>3. metrics'[s].requests = Cardinality(Mine(s)') + Cardinality(StreamingOn(s)') + lost'[s]
        BY <1>13, <1>17, <1>20, <2>1, <2>2, <4>1, <4>2 DEF Agrees
      <4>4. metrics'[s].errors = Cardinality(RefusedOf(s)') + failed'[s]
        BY <1>13, <1>17, <1>22, <2>1, <2>2, <4>1, <4>2 DEF Agrees
      <4>5. /\ metrics'[s].evaluations \in Nat
            /\ Cardinality(DecidedOf(s)') <= metrics'[s].evaluations
            /\ metrics'[s].evaluations <= Cardinality(EvaluatedOf(s)') + lost'[s]
        BY <1>2, <1>13, <1>17, <2>1, <2>2, <4>1, <4>2 DEF Agrees
      <4>6. QED
        BY <1>2, <3>2, <4>1, <4>3, <4>4, <4>5 DEF Agrees
    <3>3. QED
      BY <3>1, <3>2
  <2>4. QED
    BY <1>15, <1>16, <1>18, <1>19, <2>3, TrafficStep
<1>23. QED
  BY <1>21, <1>22

LEMMA SocketDataStep ==
    ASSUME IndInv, NEW c \in Connections, SocketData(c)
    PROVE  IndInv'
<1>1. IsOpen(c, "ipc") /\ conn[c].open /\ UNCHANGED lifecycle
  BY DEF SocketData, IsOpen
<1>2. PICK s \in Starts : /\ s = conn[c].server /\ server[s] # "none" /\ conn[c].script \in Scripts
                          /\ conn[c] \in ConnectionType /\ ConnectionFits(c) /\ s # None
  <2>1. conn[c] # Closed
    BY <1>1 DEF Closed
  <2>2. QED
    BY <2>1, OpenTypes
<1>3. PICK upto \in (conn[c].got + 1) .. BodyEnd(conn[c].script, Len(conn[c].script)) :
          IF Heads(c, upto) = {}
          THEN conn' = [conn EXCEPT ![c].got = upto] /\ UNCHANGED <<metrics, answer, lost, failed>>
          ELSE Dispatch(c, FirstOf(Heads(c, upto)), upto)
  BY DEF SocketData
<1>4. upto \in Nat
  <2>1. conn[c].got \in Nat
    BY <1>2 DEF ConnectionType
  <2>2. Len(conn[c].script) \in DOMAIN conn[c].script
    BY <1>2, ScriptTypes
  <2>3. BodyEnd(conn[c].script, Len(conn[c].script)) \in Nat
    BY <1>2, <2>2, BodyEnds
  <2>4. QED
    BY <2>1, <2>3
<1>5. CASE Heads(c, upto) # {}
  BY <1>1, <1>3, <1>4, <1>5, DispatchStep
<1>6. CASE Heads(c, upto) = {}
  <2>1. conn' = [conn EXCEPT ![c].got = upto] /\ UNCHANGED <<metrics, answer, lost, failed>>
    BY <1>3, <1>6
  <2>2. PICK k \in ConnectionType :
          /\ k = conn'[c] /\ k.server = s /\ k.script = conn[c].script /\ k.streaming = conn[c].streaming
          /\ k.from = conn[c].from /\ k.ended = conn[c].ended
    <3>1. PICK old \in ConnectionType : old = conn[c]
      BY <1>2
    <3>2. PICK k : k = [old EXCEPT !.got = upto]
      OBVIOUS
    <3>3. k \in ConnectionType
      BY <1>4, <3>2 DEF ConnectionType
    <3>4. /\ k.streaming = old.streaming /\ k.server = old.server /\ k.script = old.script
          /\ k.from = old.from /\ k.ended = old.ended
      BY <3>2 DEF ConnectionType
    <3>5. conn'[c] = k
      BY <2>1, <3>1, <3>2 DEF IndInv, Types
    <3>6. QED
      BY <1>2, <3>1, <3>3, <3>4, <3>5
  <2>3. conn' \in [Connections -> ConnectionType] /\ \A d \in Connections \ {c} : conn'[d] = conn[d]
    BY <2>1, <2>2 DEF IndInv, Types
  <2>4. Types' /\ FreshMetrics'
    BY <1>1, <2>1, <2>3 DEF IndInv, Types, FreshMetrics, lifecycle
  <2>5. ConnectionFits(c)'
    <3>1. Type(c)' = Type(c) /\ Type(c) = "ipc"
      BY <1>1, <1>2, <2>2 DEF Type, IsOpen, lifecycle
    <3>2. SocketFits(c)'
      <4>1. HeadEnd(conn[c].script, 1)' = HeadEnd(conn[c].script, 1)
        BY <2>2 DEF HeadEnd, Offset
      <4>2. SocketFits(c)
        BY <1>2, <3>1 DEF ConnectionFits
      <4>3. QED
        BY <2>1, <2>2, <4>1, <4>2 DEF SocketFits, Unanswered
    <3>3. ASSUME NEW i PROVE AnswerFits(c, i) => AnswerFits(c, i)'
      BY <2>1, <2>2, <3>1, AnswerKept
    <3>4. QED
      BY <1>1, <1>2, <2>1, <2>2, <3>1, <3>2, <3>3 DEF ConnectionFits, Unanswered, lifecycle
  <2>6. ASSUME NEW q \in Starts PROVE Agrees(q)'
    <3>1. /\ Mine(q)' = Mine(q) /\ DecidedOf(q)' = DecidedOf(q)
          /\ RefusedOf(q)' = RefusedOf(q) /\ EvaluatedOf(q)' = EvaluatedOf(q)
      BY <1>2, <2>1, <2>2, <2>3, QuietCounts
    <3>2. StreamingOn(q)' = StreamingOn(q)
      BY <1>2, <2>2, <2>3 DEF StreamingOn
    <3>3. QED
      BY <1>1, <2>1, <3>1, <3>2, CountsKept DEF IndInv, lifecycle
  <2>7. QED
    BY <1>1, <2>1, <2>3, <2>4, <2>5, <2>6, TrafficStep
<1>7. QED
  BY <1>5, <1>6

-------------------------------------------------------------------------------
(* The invariant, and what follows from it.                                *)

LEMMA InitHolds == Init => IndInv
<1> SUFFICES ASSUME Init PROVE IndInv
  OBVIOUS
<1>1. Types
  <2>1. Closed \in ConnectionType
    BY DEF Closed, ConnectionType
  <2>2. [requests |-> 0, evaluations |-> 0, errors |-> 0] \in Counters
    BY DEF Counters
  <2>3. QED
    BY <2>1, <2>2 DEF Init, Types
<1>2. LifecycleFits /\ FreshMetrics
  BY NoneTypes DEF Init, LifecycleFits, FreshMetrics, NoServerLost
<1>3. \A c \in Connections : ConnectionFits(c)
  BY DEF Init, ConnectionFits, Closed
<1>4. ASSUME NEW s \in Starts PROVE Agrees(s)
  <2>1. Answered = {}
    BY DEF Init, Answered
  <2>2. Mine(s) = {} /\ StreamingOn(s) = {} /\ RefusedOf(s) = {} /\ EvaluatedOf(s) = {} /\ DecidedOf(s) = {}
    BY <2>1 DEF Init, Mine, StreamingOn, RefusedOf, EvaluatedOf, DecidedOf, Closed
  <2>3. Cardinality({}) = 0
    BY FS_EmptySet
  <2>4. QED
    BY <2>2, <2>3 DEF Init, Agrees
<1>5. QED
  BY <1>1, <1>2, <1>3, <1>4 DEF IndInv

LEMMA StutterKeeps == ASSUME IndInv, UNCHANGED vars PROVE IndInv'
<1>1. UNCHANGED lifecycle /\ UNCHANGED traffic
  BY DEF vars
<1>2. Types' /\ FreshMetrics' /\ LifecycleFits'
  BY <1>1 DEF IndInv, Types, FreshMetrics, LifecycleFits, NoServerLost, lifecycle, traffic
<1>3. ASSUME NEW c \in Connections PROVE ConnectionFits(c)'
  <2>1. ConnectionFits(c)
    BY DEF IndInv
  <2>2. conn[c].server # None => server[conn[c].server] # "none"
    BY <2>1 DEF ConnectionFits
  <2>3. QED
    BY <1>1, <2>1, <2>2, ConnectionKept DEF lifecycle, traffic
<1>4. ASSUME NEW s \in Starts PROVE Agrees(s)'
  <2>1. NobodyAnswered
    BY <1>1 DEF NobodyAnswered, Answered, traffic
  <2>2. StreamingOn(s)' = StreamingOn(s)
    BY <1>1 DEF StreamingOn, traffic
  <2>3. QED
    BY <1>1, <2>1, <2>2, NobodyCounts, CountsKept DEF IndInv, lifecycle, traffic
<1>5. QED
  BY <1>2, <1>3, <1>4 DEF IndInv

LEMMA NextKeeps == ASSUME IndInv, [Next]_vars PROVE IndInv'
<1>1. CASE Lifecycle
  BY <1>1, LifecycleKeeps
<1>2. ASSUME NEW c \in Connections, Connect(c) PROVE IndInv'
  BY <1>2, ConnectStep
<1>3. ASSUME NEW c \in Connections, Disconnect(c) PROVE IndInv'
  BY <1>3, DisconnectStep
<1>4. ASSUME NEW c \in Connections, OpenStream(c) PROVE IndInv'
  BY <1>4, OpenStreamStep
<1>5. ASSUME NEW c \in Connections, StreamData(c) PROVE IndInv'
  BY <1>5, StreamDataStep
<1>6. ASSUME NEW c \in Connections, StreamEnd(c) PROVE IndInv'
  BY <1>6, StreamEndStep
<1>7. ASSUME NEW c \in Connections, SocketData(c) PROVE IndInv'
  BY <1>7, SocketDataStep
<1>8. CASE UNCHANGED vars
  BY <1>8, StutterKeeps
<1>9. QED
  BY <1>1, <1>2, <1>3, <1>4, <1>5, <1>6, <1>7, <1>8 DEF Next, Lifecycle

(***************************************************************************)
(* Between any two events of the process the transports, their connections *)
(* and their counters are in a state that satisfies the invariant.         *)
(***************************************************************************)
THEOREM TransportInvariant == Spec => []IndInv
BY InitHolds, NextKeeps, PTL DEF Spec

(***************************************************************************)
(* start() and stop() never lose a transport that listens, unless a        *)
(* start() came before the stop() of another one had returned.             *)
(***************************************************************************)
THEOREM ListenersNeverLost == Spec => []NoServerLost
<1>1. IndInv => NoServerLost
  BY DEF IndInv, LifecycleFits
<1>2. QED
  BY <1>1, TransportInvariant, PTL

(***************************************************************************)
(* handleRequest(): whatever way the network cuts the bytes of any request *)
(* of any script, its answer is the decision of the engine on its context, *)
(* on what toString() left of its text (HTTP/2), or a refusal of a body    *)
(* that did not come with its head (the socket).                           *)
(***************************************************************************)
THEOREM AnswersAlwaysFit == Spec => []AnswersFit
<1>1. ASSUME IndInv PROVE AnswersFit
  <2>1. ASSUME NEW pair \in Answered
        PROVE  /\ pair[1] \in Connections /\ pair[2] \in DOMAIN conn[pair[1]].script
               /\ AnswerFits(pair[1], pair[2])
    <3>1. pair[1] \in Connections /\ pair[2] \in DOMAIN answer[pair[1]] /\ answer[pair[1]][pair[2]] # None
      BY AnsweredIs
    <3>2. ConnectionFits(pair[1])
      BY <1>1, <3>1 DEF IndInv
    <3>3. QED
      BY <3>1, <3>2 DEF ConnectionFits, Unanswered
  <2>2. QED
    BY <2>1 DEF AnswersFit, AnswerFits
<1>2. QED
  BY <1>1, TransportInvariant, PTL

(***************************************************************************)
(* The counters of /metrics: whatever the connections do, every request is *)
(* answered, in progress or cut off, and every error and evaluation is one *)
(* of theirs.                                                              *)
(***************************************************************************)
THEOREM MetricsAlwaysAgree == Spec => []MetricsAgree
BY MetricsAre, TransportInvariant, PTL

================================================================================
