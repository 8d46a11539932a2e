---------------------------- MODULE RetrievalProofs ----------------------------
(***************************************************************************)
(* Proofs about RagVault and UcoResolver, the two components that answer   *)
(* from what they have loaded, for every set of calls, of inputs, of       *)
(* documents and of worlds.  Their answers are computed by folds over      *)
(* sequences: the provers cannot instantiate an operator, so the first     *)
(* part says of folds whose step is a function, and of sets of numbers in  *)
(* the place of predicates, what each of the folds of Retrieval and of     *)
(* Traversal needs.                                                        *)
(***************************************************************************)
EXTENDS RagVaultProperties, UcoResolverProperties, FiniteSetTheorems, WellFoundedInduction, TLAPS

Labels == {"idle", "embedding", "done", "failed"}

Types ==
    /\ documents \in [Ids -> Document \cup {None}]
    /\ auditLog \in Seq({ auditLog[n] : n \in DOMAIN auditLog })
    /\ pc \in [Calls -> Labels]
    /\ DOMAIN input = Calls /\ DOMAIN result = Calls

\* A call that waits was let in: its partition is one of those there are.
WaitingFits ==
    \A c \in Calls : pc[c] = "embedding" =>
        /\ input[c] \in Inputs
        /\ input[c].op = "retrieve" \/ (input[c].op = "add" /\ Known(input[c].partition))

IndInv == Types /\ WaitingFits /\ LogReplays /\ LevelFits

-------------------------------------------------------------------------------
(* Numbers, folds and sequences.                                           *)

\* A set of natural numbers has a least one.
LEMMA Least ==
    ASSUME NEW T, T \subseteq Nat, T # {}
    PROVE  \E x \in T : \A y \in T : x <= y
<1>1. PICK R : R = OpToRel(<, Nat)
  OBVIOUS
<1>2. \A x, y \in Nat : x < y => <<x, y>> \in R
  BY <1>1 DEF OpToRel
<1>3. IsWellFoundedOn(R, Nat)
  BY <1>1, NatLessThanWellFounded
<1>4. PICK x \in T : \A y \in T : ~ (<<y, x>> \in R)
  BY <1>3, WFMin
<1>5. ASSUME NEW y \in T PROVE x <= y
  <2>1. x \in Nat /\ y \in Nat
    OBVIOUS
  <2>2. ~ y < x
    BY <1>2, <1>4, <2>1
  <2>3. QED
    BY <2>1, <2>2
<1>6. QED
  BY <1>5

\* Induction up to a bound, over a set in the place of a predicate.
LEMMA Induct ==
    ASSUME NEW N \in Nat, NEW G, 0 \in G,
           \A n \in 0 .. (N - 1) : n \in G => n + 1 \in G
    PROVE  \A n \in 0 .. N : n \in G
<1>1. PICK T : T = { n \in 0 .. N : n \notin G }
  OBVIOUS
<1>2. CASE T # {}
  <2>1. PICK m \in T : \A y \in T : m <= y
    BY <1>1, <1>2, Least
  <2>2. m \in 0 .. N /\ m \notin G /\ m # 0
    BY <1>1, <2>1
  <2>3. m - 1 \in 0 .. (N - 1) /\ m - 1 \notin T
    BY <2>1, <2>2
  <2>4. QED
    BY <1>1, <2>2, <2>3
<1>3. QED
  BY <1>1, <1>2

\* The last of the places before one.
LEMMA Places ==
    ASSUME NEW n \in Nat \ {0}
    PROVE  Max(1 .. n) = n /\ (1 .. n) \ {n} = 1 .. (n - 1) /\ 1 .. n # {}
<1>1. \A y \in 1 .. n : n >= y
  OBVIOUS
<1>2. Max(1 .. n) = n
  <2>1. PICK m : m = Max(1 .. n)
    OBVIOUS
  <2>2. m \in 1 .. n /\ \A y \in 1 .. n : m >= y
    BY <1>1, <2>1 DEF Max
  <2>3. QED
    BY <2>1, <2>2
<1>3. (1 .. n) \ {n} = 1 .. (n - 1) /\ n \in 1 .. n
  OBVIOUS
<1>4. QED
  BY <1>2, <1>3

\* The greatest of some places.
LEMMA Greatest ==
    ASSUME NEW N \in Nat, NEW s \in SUBSET (1 .. N), s # {}
    PROVE  Max(s) \in s /\ \A y \in s : Max(s) >= y
<1>1. PICK T : T = { N - y : y \in s }
  OBVIOUS
<1>2. T \subseteq Nat /\ T # {}
  <2>1. \A y \in s : N - y \in Nat
    OBVIOUS
  <2>2. QED
    BY <1>1, <2>1
<1>3. PICK x \in T : \A y \in T : x <= y
  BY <1>2, Least
<1>4. PICK m \in s : x = N - m
  BY <1>1, <1>3
<1>5. \A y \in s : m >= y
  BY <1>1, <1>3, <1>4
<1>6. QED
  BY <1>4, <1>5 DEF Max

\* A step of a fold over N places, from a value of V to another.
Steps(N, V) == [(1 .. N) \X V -> V]

\* What the community modules make of a fold: a function of the sets of places.
IsFold(it, N, V, base, step) ==
    /\ it \in [SUBSET (1 .. N) -> V]
    /\ \A s \in SUBSET (1 .. N) :
           it[s] = IF s = {} THEN base ELSE step[<<Max(s), it[s \ {Max(s)}]>>]

\* What the fold makes of the first n places, for each n.
IsRun(f, N, V, base, step) ==
    /\ f \in [0 .. N -> V] /\ f[0] = base
    /\ \A n \in 1 .. N : f[n] = step[<<n, f[n - 1]>>]

\* A fold over places that gives values of a set exists.
LEMMA FoldExists ==
    ASSUME NEW V, NEW base, base \in V, NEW N, N \in Nat, NEW step, step \in Steps(N, V)
    PROVE  \E it : IsFold(it, N, V, base, step)
<1> DEFINE P(n) == \E it \in [SUBSET (1 .. n) -> V] :
               \A s \in SUBSET (1 .. n) :
                   it[s] = IF s = {} THEN base ELSE step[<<Max(s), it[s \ {Max(s)}]>>]
<1> DEFINE G == { n \in 0 .. N : P(n) }
<1>1. 0 \in G
  <2>1. PICK it : it = [s \in SUBSET (1 .. 0) |-> base]
    OBVIOUS
  <2>2. \A s \in SUBSET (1 .. 0) : s = {}
    OBVIOUS
  <2>3. /\ it \in [SUBSET (1 .. 0) -> V]
        /\ \A s \in SUBSET (1 .. 0) :
                   it[s] = IF s = {} THEN base ELSE step[<<Max(s), it[s \ {Max(s)}]>>]
    BY <2>1, <2>2
  <2>4. P(0)
    BY <2>3
  <2> HIDE DEF P
  <2>5. QED
    BY <2>4
<1>2. ASSUME NEW n \in 0 .. (N - 1), n \in G
      PROVE  n + 1 \in G
  <2>1. PICK it \in [SUBSET (1 .. n) -> V] :
               \A s \in SUBSET (1 .. n) :
                   it[s] = IF s = {} THEN base ELSE step[<<Max(s), it[s \ {Max(s)}]>>]
    BY <1>2
  <2>2. PICK m \in 1 .. N : m = n + 1
    BY <1>2
  <2>3. \A s \in SUBSET (1 .. m) : /\ m \in s => Max(s) = m /\ s \ {m} \in SUBSET (1 .. n)
                                   /\ m \notin s => s \in SUBSET (1 .. n)
    <3>1. TAKE s \in SUBSET (1 .. m)
    <3>2. m \in s => Max(s) = m
      <4>1. s \in SUBSET (1 .. N)
        BY <2>2
      <4>2. PICK x : x = Max(s)
        OBVIOUS
      <4>3. m \in s => x \in s /\ x >= m
        BY <4>1, <4>2, Greatest
      <4>4. m \in s => x \in 1 .. m /\ x >= m
        BY <4>3
      <4>5. QED
        BY <2>2, <4>2, <4>4
    <3>3. QED
      BY <3>2, <2>2
  <2>4. PICK more : more = [s \in SUBSET (1 .. m) |-> IF m \in s THEN step[<<m, it[s \ {m}]>>] ELSE it[s]]
    OBVIOUS
  <2>5. more \in [SUBSET (1 .. m) -> V]
    BY <2>1, <2>3, <2>4 DEF Steps
  <2>6. ASSUME NEW s \in SUBSET (1 .. m)
        PROVE  more[s] = IF s = {} THEN base ELSE step[<<Max(s), more[s \ {Max(s)}]>>]
    <3>1. CASE m \in s
      <4>1. Max(s) = m /\ s \ {m} \in SUBSET (1 .. n) /\ s \ {m} \in SUBSET (1 .. m) /\ m \notin s \ {m}
        BY <2>3, <3>1
      <4>2. more[s \ {m}] = it[s \ {m}]
        BY <2>4, <4>1
      <4>3. more[s] = step[<<m, it[s \ {m}]>>]
        BY <2>4, <3>1
      <4>4. QED
        BY <3>1, <4>1, <4>2, <4>3
    <3>2. CASE m \notin s
      <4>1. s \in SUBSET (1 .. n) /\ more[s] = it[s]
        BY <2>3, <2>4, <3>2
      <4>2. CASE s # {}
        <5>1. s \ {Max(s)} \in SUBSET (1 .. m) /\ m \notin s \ {Max(s)}
          BY <3>2
        <5>2. more[s \ {Max(s)}] = it[s \ {Max(s)}]
          BY <2>4, <5>1
        <5>3. QED
          BY <2>1, <4>1, <4>2, <5>2
      <4>3. QED
        BY <2>1, <4>1, <4>2
    <3>3. QED
      BY <3>1, <3>2
  <2>7. P(m)
    BY <2>5, <2>6
  <2> HIDE DEF P
  <2>8. QED
    BY <2>2, <2>7
<1>3. P(N)
  <2> HIDE DEF P
  <2>1. \A n \in 0 .. N : n \in G
    <3> HIDE DEF G
    <3>1. QED
      BY <1>1, <1>2, Induct
  <2>2. QED
    BY <2>1
<1>4. QED
  BY <1>3 DEF IsFold

\* What such a fold makes of the first places, one after the other.
LEMMA FoldSteps ==
    ASSUME NEW V, NEW base, base \in V, NEW N, N \in Nat, NEW step, step \in Steps(N, V),
           NEW g, g[{}] = base,
           \A n \in 1 .. N : g[1 .. (n - 1)] \in V => g[1 .. n] = step[<<n, g[1 .. (n - 1)]>>]
    PROVE  \E f : IsRun(f, N, V, base, step) /\ f[N] = g[1 .. N]
<1>1. 1 .. 0 = {}
  OBVIOUS
<1>2. PICK G : G = { n \in 0 .. N : g[1 .. n] \in V }
  OBVIOUS
<1>3. 0 \in G
  BY <1>1, <1>2
<1>4. ASSUME NEW n \in 0 .. (N - 1), n \in G
      PROVE  n + 1 \in G
  <2>1. PICK m \in 1 .. N : m = n + 1 /\ m - 1 = n
    OBVIOUS
  <2>2. g[1 .. n] \in V /\ <<m, g[1 .. n]>> \in (1 .. N) \X V
    BY <1>2, <1>4
  <2>3. g[1 .. m] = step[<<m, g[1 .. n]>>]
    BY <2>1, <2>2
  <2>4. g[1 .. m] \in V
    BY <2>2, <2>3 DEF Steps
  <2>5. QED
    BY <1>2, <2>1, <2>4
<1>5. \A n \in 0 .. N : n \in G
  BY <1>3, <1>4, Induct
<1>6. PICK f : f = [n \in 0 .. N |-> g[1 .. n]]
  OBVIOUS
<1>7. f \in [0 .. N -> V]
  BY <1>2, <1>5, <1>6
<1>8. f[0] = base /\ f[N] = g[1 .. N]
  BY <1>1, <1>6
<1>9. ASSUME NEW n \in 1 .. N PROVE f[n] = step[<<n, f[n - 1]>>]
  <2>1. n - 1 \in 0 .. N /\ n \in 0 .. N
    OBVIOUS
  <2>2. f[n - 1] = g[1 .. (n - 1)] /\ f[n] = g[1 .. n] /\ g[1 .. (n - 1)] \in V
    BY <1>2, <1>5, <1>6, <2>1
  <2>3. QED
    BY <2>2
<1>10. QED
  BY <1>7, <1>8, <1>9 DEF IsRun

\* How many of the places there are.
LEMMA CountFits ==
    ASSUME NEW N, N \in Nat, NEW P, P \subseteq 1 .. N
    PROVE  IsFiniteSet(P) /\ Cardinality(P) \in 0 .. N
<1>1. IsFiniteSet(1 .. N) /\ Cardinality(1 .. N) = N
  BY FS_Interval
<1>2. IsFiniteSet(P) /\ Cardinality(P) <= Cardinality(1 .. N)
  BY <1>1, FS_Subset
<1>3. Cardinality(P) \in Nat
  BY <1>2, FS_CardinalityType
<1>4. QED
  BY <1>1, <1>2, <1>3

\* A sequence with one more element.
LEMMA InsertIs ==
    ASSUME NEW S, NEW s, s \in Seq(S), NEW x, x \in S, NEW p, p \in 1 .. (Len(s) + 1)
    PROVE  /\ InsertAt(s, p, x) \in Seq(S) /\ Len(InsertAt(s, p, x)) = Len(s) + 1
           /\ \A i \in 1 .. (Len(s) + 1) :
                 InsertAt(s, p, x)[i] = IF i < p THEN s[i] ELSE IF i = p THEN x ELSE s[i - 1]
<1>1. PICK a, b : a = SubSeq(s, 1, p - 1) /\ b = SubSeq(s, p, Len(s))
  OBVIOUS
<1>2. /\ a \in Seq(S) /\ Len(a) = p - 1 /\ \A i \in 1 .. (p - 1) : a[i] = s[i]
  BY <1>1
<1>3. /\ b \in Seq(S) /\ Len(b) = Len(s) - p + 1 /\ \A i \in 1 .. (Len(s) - p + 1) : b[i] = s[i + p - 1]
  BY <1>1
<1>4. PICK c : c = a \o <<x>>
  OBVIOUS
<1>5. c \in Seq(S) /\ Len(c) = p /\ c[p] = x /\ \A i \in 1 .. (p - 1) : c[i] = s[i]
  BY <1>2, <1>4
<1>6. PICK d : d = c \o b
  OBVIOUS
<1>7. /\ d \in Seq(S) /\ Len(d) = Len(s) + 1
      /\ \A i \in 1 .. p : d[i] = c[i]
      /\ \A i \in (p + 1) .. (Len(s) + 1) : d[i] = b[i - p]
  <2>1. c \in Seq(S) /\ b \in Seq(S) /\ Len(c) = p /\ Len(b) = Len(s) - p + 1 /\ Len(s) \in Nat
    BY <1>3, <1>5
  <2>2. /\ d \in Seq(S) /\ Len(d) = Len(c) + Len(b)
        /\ \A i \in 1 .. Len(c) : d[i] = c[i]
        /\ \A i \in (Len(c) + 1) .. (Len(c) + Len(b)) : d[i] = b[i - Len(c)]
    BY <1>6, <2>1
  <2>3. Len(c) + Len(b) = Len(s) + 1
    BY <2>1
  <2>4. QED
    BY <2>1, <2>2, <2>3
<1>8. ASSUME NEW i \in 1 .. (Len(s) + 1)
      PROVE  d[i] = IF i < p THEN s[i] ELSE IF i = p THEN x ELSE s[i - 1]
  <2>1. CASE i <= p
    BY <1>5, <1>7, <2>1
  <2>2. CASE i > p
    <3>1. d[i] = b[i - p] /\ i - p \in 1 .. (Len(s) - p + 1)
      BY <1>7, <2>2
    <3>2. b[i - p] = s[i - 1]
      BY <1>3, <3>1
    <3>3. QED
      BY <2>2, <3>1, <3>2
  <2>3. QED
    BY <2>1, <2>2
<1>9. QED
  BY <1>1, <1>4, <1>6, <1>7, <1>8 DEF InsertAt

-------------------------------------------------------------------------------
(* Retrieval.                                                              *)

\* What a filter has kept of the first n found, for each n.
IsKeepRun(f, found, kept) ==
    /\ f \in [0 .. Len(found) -> Seq(ToSet(found) \cap kept)]
    /\ f[0] = <<>> /\ f[Len(found)] = Keep(found, kept)
    /\ \A n \in 1 .. Len(found) :
          f[n] = IF found[n] \in kept THEN Append(f[n - 1], found[n]) ELSE f[n - 1]

LEMMA KeepUnfolds ==
    ASSUME NEW found, found \in Seq(ToSet(found)), NEW kept
    PROVE  \E f : IsKeepRun(f, found, kept)
<1> DEFINE Op(acc, x) == IF x \in kept THEN Append(acc, x) ELSE acc
           E(f) == [s \in SUBSET DOMAIN found |->
                       IF s = {} THEN <<>> ELSE LET x == Max(s) IN Op(f[s \ {x}], found[x])]
<1>1. PICK N, V, base : N = Len(found) /\ V = Seq(ToSet(found) \cap kept) /\ base = <<>>
  OBVIOUS
<1>2. N \in Nat /\ DOMAIN found = 1 .. N /\ \A n \in 1 .. N : found[n] \in ToSet(found)
  BY <1>1 DEF ToSet
<1>3. \A v \in V : \A n \in 1 .. N : Op(v, found[n]) \in V
  BY <1>1, <1>2
<1>4. PICK step : step = [p \in (1 .. N) \X V |-> Op(p[2], found[p[1]])]
  OBVIOUS
<1> HIDE DEF Op
<1>5a. step \in Steps(N, V)
  BY <1>3, <1>4 DEF Steps
<1>5. \A n \in 1 .. N : \A v \in V : step[<<n, v>>] = Op(v, found[n])
  BY <1>3, <1>4
<1>6. base \in V
  BY <1>1
<1>7. PICK it : IsFold(it, N, V, base, step)
  BY <1>2, <1>5a, <1>6, FoldExists
<1>8. it = E(it)
  <2>1. ASSUME NEW s \in SUBSET (1 .. N), s # {}
        PROVE  it[s] = Op(it[s \ {Max(s)}], found[Max(s)])
    <3>1. PICK x : x = Max(s)
      OBVIOUS
    <3>2. x \in 1 .. N /\ s \ {x} \in SUBSET (1 .. N)
      BY <2>1, <3>1, <1>2, Greatest
    <3>3. it[s \ {x}] \in V
      BY <1>7, <3>2 DEF IsFold
    <3>4. it[s] = step[<<x, it[s \ {x}]>>]
      BY <1>7, <2>1, <3>1 DEF IsFold
    <3>5. QED
      BY <1>5, <3>1, <3>2, <3>3, <3>4
  <2>2. QED
    BY <1>1, <1>2, <1>7, <2>1 DEF IsFold
<1>9. PICK g : g = CHOOSE f : f = E(f)
  OBVIOUS
<1>10. g = E(g)
  <2> HIDE DEF E
  <2>1. QED
    BY <1>8, <1>9
<1>11. Keep(found, kept) = g[1 .. N]
  BY <1>2, <1>9 DEF Keep, FoldLeft, MapThenFoldSet, Op
<1>12. g[{}] = base
  BY <1>1, <1>10
<1>13. ASSUME NEW n \in 1 .. N, g[1 .. (n - 1)] \in V
       PROVE  g[1 .. n] = step[<<n, g[1 .. (n - 1)]>>]
  <2>1. n \in Nat \ {0} /\ 1 .. n \in SUBSET DOMAIN found
    BY <1>2
  <2>2. Max(1 .. n) = n /\ (1 .. n) \ {n} = 1 .. (n - 1) /\ 1 .. n # {}
    BY <2>1, Places
  <2>3. g[1 .. n] = Op(g[1 .. (n - 1)], found[n])
    BY <1>10, <2>1, <2>2
  <2>4. QED
    BY <1>5, <1>13, <2>3
<1>14. PICK f : IsRun(f, N, V, base, step) /\ f[N] = g[1 .. N]
  <2>1. \A n \in 1 .. N : g[1 .. (n - 1)] \in V => g[1 .. n] = step[<<n, g[1 .. (n - 1)]>>]
    BY <1>13
  <2>2. QED
    BY <1>2, <1>5a, <1>6, <1>12, <2>1, FoldSteps
<1>15. ASSUME NEW n \in 1 .. N PROVE f[n] = Op(f[n - 1], found[n])
  <2>1. f[n - 1] \in V
    BY <1>2, <1>14 DEF IsRun
  <2>2. QED
    BY <1>5, <1>14, <2>1 DEF IsRun
<1>16. QED
  BY <1>1, <1>11, <1>14, <1>15 DEF Op, IsRun, IsKeepRun

\* One step of the sort.
LEMMA RankUnfolds ==
    ASSUME NEW found, found \in Seq(ToSet(found))
    PROVE  \E f \in [0 .. Len(found) -> Seq(ToSet(found))] :
              /\ f[0] = <<>> /\ f[Len(found)] = Rank(found)
              /\ \A n \in 1 .. Len(found) :
                    f[n] = LET x == found[n]
                           acc == f[n - 1]
                       IN  InsertAt(acc, 1 + Cardinality({ i \in DOMAIN acc : acc[i].score >= x.score }), x)
<1> DEFINE Op(acc, x) == InsertAt(acc, 1 + Cardinality({ i \in DOMAIN acc : acc[i].score >= x.score }), x)
           E(f) == [s \in SUBSET DOMAIN found |->
                       IF s = {} THEN <<>> ELSE LET x == Max(s) IN Op(f[s \ {x}], found[x])]
<1>1. PICK N, V, base : N = Len(found) /\ V = Seq(ToSet(found)) /\ base = <<>>
  OBVIOUS
<1>2. N \in Nat /\ DOMAIN found = 1 .. N /\ \A n \in 1 .. N : found[n] \in ToSet(found)
  BY <1>1 DEF ToSet
<1>3. ASSUME NEW v \in V, NEW n \in 1 .. N PROVE Op(v, found[n]) \in V
  <2>1. PICK x : x = found[n] /\ x \in ToSet(found)
    BY <1>2
  <2>2. PICK p : p = 1 + Cardinality({ i \in DOMAIN v : v[i].score >= x.score })
    OBVIOUS
  <2>3. DOMAIN v = 1 .. Len(v) /\ Len(v) \in Nat
    BY <1>1
  <2>4. Cardinality({ i \in DOMAIN v : v[i].score >= x.score }) \in 0 .. Len(v)
    BY <2>3, CountFits
  <2>5. p \in 1 .. (Len(v) + 1)
    BY <2>2, <2>3, <2>4
  <2>6. InsertAt(v, p, x) \in V
    BY <1>1, <2>1, <2>5, InsertIs
  <2>7. QED
    BY <2>1, <2>2, <2>6
<1>4. PICK step : step = [p \in (1 .. N) \X V |-> Op(p[2], found[p[1]])]
  OBVIOUS
<1> HIDE DEF Op
<1>5a. step \in Steps(N, V)
  BY <1>3, <1>4 DEF Steps
<1>5. \A n \in 1 .. N : \A v \in V : step[<<n, v>>] = Op(v, found[n])
  BY <1>3, <1>4
<1>6. base \in V
  BY <1>1
<1>7. PICK it : IsFold(it, N, V, base, step)
  BY <1>2, <1>5a, <1>6, FoldExists
<1>8. it = E(it)
  <2>1. ASSUME NEW s \in SUBSET (1 .. N), s # {}
        PROVE  it[s] = Op(it[s \ {Max(s)}], found[Max(s)])
    <3>1. PICK x : x = Max(s)
      OBVIOUS
    <3>2. x \in 1 .. N /\ s \ {x} \in SUBSET (1 .. N)
      BY <2>1, <3>1, <1>2, Greatest
    <3>3. it[s \ {x}] \in V
      BY <1>7, <3>2 DEF IsFold
    <3>4. it[s] = step[<<x, it[s \ {x}]>>]
      BY <1>7, <2>1, <3>1 DEF IsFold
    <3>5. QED
      BY <1>5, <3>1, <3>2, <3>3, <3>4
  <2>2. QED
    BY <1>1, <1>2, <1>7, <2>1 DEF IsFold
<1>9. PICK g : g = CHOOSE f : f = E(f)
  OBVIOUS
<1>10. g = E(g)
  <2> HIDE DEF E
  <2>1. QED
    BY <1>8, <1>9
<1>11. Rank(found) = g[1 .. N]
  BY <1>2, <1>9 DEF Rank, FoldLeft, MapThenFoldSet, Op
<1>12. g[{}] = base
  BY <1>1, <1>10
<1>13. ASSUME NEW n \in 1 .. N, g[1 .. (n - 1)] \in V
       PROVE  g[1 .. n] = step[<<n, g[1 .. (n - 1)]>>]
  <2>1. n \in Nat \ {0} /\ 1 .. n \in SUBSET DOMAIN found
    BY <1>2
  <2>2. Max(1 .. n) = n /\ (1 .. n) \ {n} = 1 .. (n - 1) /\ 1 .. n # {}
    BY <2>1, Places
  <2>3. g[1 .. n] = Op(g[1 .. (n - 1)], found[n])
    BY <1>10, <2>1, <2>2
  <2>4. QED
    BY <1>5, <1>13, <2>3
<1>14. PICK f : IsRun(f, N, V, base, step) /\ f[N] = g[1 .. N]
  <2>1. \A n \in 1 .. N : g[1 .. (n - 1)] \in V => g[1 .. n] = step[<<n, g[1 .. (n - 1)]>>]
    BY <1>13
  <2>2. QED
    BY <1>2, <1>5a, <1>6, <1>12, <2>1, FoldSteps
<1>15. ASSUME NEW n \in 1 .. N PROVE f[n] = Op(f[n - 1], found[n])
  <2>1. f[n - 1] \in V
    BY <1>2, <1>14 DEF IsRun
  <2>2. QED
    BY <1>5, <1>14, <2>1 DEF IsRun
<1>16. QED
  BY <1>1, <1>11, <1>14, <1>15 DEF Op, IsRun

\* What there is of the first n found without duplicates, for each n.
IsDeduplicateRun(f, found) ==
    /\ f \in [0 .. Len(found) -> Seq(ToSet(found))]
    /\ f[0] = <<>> /\ f[Len(found)] = Deduplicate(found)
    /\ \A n \in 1 .. Len(found) :
          LET x == found[n]
              acc == f[n - 1]
          IN  f[n] = IF \E i \in DOMAIN acc : acc[i].id = x.id THEN acc ELSE Append(acc, x)

LEMMA DeduplicateUnfolds ==
    ASSUME NEW found, found \in Seq(ToSet(found))
    PROVE  \E f : IsDeduplicateRun(f, found)
<1> DEFINE Op(acc, x) == IF \E i \in DOMAIN acc : acc[i].id = x.id THEN acc ELSE Append(acc, x)
           E(f) == [s \in SUBSET DOMAIN found |->
                       IF s = {} THEN <<>> ELSE LET x == Max(s) IN Op(f[s \ {x}], found[x])]
<1>1. PICK N, V, base : N = Len(found) /\ V = Seq(ToSet(found)) /\ base = <<>>
  OBVIOUS
<1>2. N \in Nat /\ DOMAIN found = 1 .. N /\ \A n \in 1 .. N : found[n] \in ToSet(found)
  BY <1>1 DEF ToSet
<1>3. \A v \in V : \A n \in 1 .. N : Op(v, found[n]) \in V
  BY <1>1, <1>2
<1>4. PICK step : step = [p \in (1 .. N) \X V |-> Op(p[2], found[p[1]])]
  OBVIOUS
<1> HIDE DEF Op
<1>5a. step \in Steps(N, V)
  BY <1>3, <1>4 DEF Steps
<1>5. \A n \in 1 .. N : \A v \in V : step[<<n, v>>] = Op(v, found[n])
  BY <1>3, <1>4
<1>6. base \in V
  BY <1>1
<1>7. PICK it : IsFold(it, N, V, base, step)
  BY <1>2, <1>5a, <1>6, FoldExists
<1>8. it = E(it)
  <2>1. ASSUME NEW s \in SUBSET (1 .. N), s # {}
        PROVE  it[s] = Op(it[s \ {Max(s)}], found[Max(s)])
    <3>1. PICK x : x = Max(s)
      OBVIOUS
    <3>2. x \in 1 .. N /\ s \ {x} \in SUBSET (1 .. N)
      BY <2>1, <3>1, <1>2, Greatest
    <3>3. it[s \ {x}] \in V
      BY <1>7, <3>2 DEF IsFold
    <3>4. it[s] = step[<<x, it[s \ {x}]>>]
      BY <1>7, <2>1, <3>1 DEF IsFold
    <3>5. QED
      BY <1>5, <3>1, <3>2, <3>3, <3>4
  <2>2. QED
    BY <1>1, <1>2, <1>7, <2>1 DEF IsFold
<1>9. PICK g : g = CHOOSE f : f = E(f)
  OBVIOUS
<1>10. g = E(g)
  <2> HIDE DEF E
  <2>1. QED
    BY <1>8, <1>9
<1>11. Deduplicate(found) = g[1 .. N]
  BY <1>2, <1>9 DEF Deduplicate, FoldLeft, MapThenFoldSet, Op
<1>12. g[{}] = base
  BY <1>1, <1>10
<1>13. ASSUME NEW n \in 1 .. N, g[1 .. (n - 1)] \in V
       PROVE  g[1 .. n] = step[<<n, g[1 .. (n - 1)]>>]
  <2>1. n \in Nat \ {0} /\ 1 .. n \in SUBSET DOMAIN found
    BY <1>2
  <2>2. Max(1 .. n) = n /\ (1 .. n) \ {n} = 1 .. (n - 1) /\ 1 .. n # {}
    BY <2>1, Places
  <2>3. g[1 .. n] = Op(g[1 .. (n - 1)], found[n])
    BY <1>10, <2>1, <2>2
  <2>4. QED
    BY <1>5, <1>13, <2>3
<1>14. PICK f : IsRun(f, N, V, base, step) /\ f[N] = g[1 .. N]
  <2>1. \A n \in 1 .. N : g[1 .. (n - 1)] \in V => g[1 .. n] = step[<<n, g[1 .. (n - 1)]>>]
    BY <1>13
  <2>2. QED
    BY <1>2, <1>5a, <1>6, <1>12, <2>1, FoldSteps
<1>15. ASSUME NEW n \in 1 .. N PROVE f[n] = Op(f[n - 1], found[n])
  <2>1. f[n - 1] \in V
    BY <1>2, <1>14 DEF IsRun
  <2>2. QED
    BY <1>5, <1>14, <2>1 DEF IsRun
<1>16. \A n \in 1 .. Len(found) : f[n] = Op(f[n - 1], found[n])
  BY <1>1, <1>15
<1>17. /\ f \in [0 .. Len(found) -> Seq(ToSet(found))]
       /\ f[0] = <<>> /\ f[Len(found)] = Deduplicate(found)
  BY <1>1, <1>11, <1>14 DEF IsRun
<1>18. IsDeduplicateRun(f, found)
  BY <1>16, <1>17 DEF Op, IsDeduplicateRun
<1>19. QED
  BY <1>18

\* A sequence is one of its elements.
LEMMA ElementsOf ==
    ASSUME NEW S, NEW s, s \in Seq(S)
    PROVE  s \in Seq(ToSet(s)) /\ ToSet(s) \subseteq S /\ Len(s) \in Nat /\ DOMAIN s = 1 .. Len(s)
BY DEF ToSet

\* A filter keeps the documents of the set, none twice that did not come twice.
LEMMA KeepFits ==
    ASSUME NEW found, found \in Seq(ToSet(found)), NEW kept
    PROVE  /\ Keep(found, kept) \in Seq(ToSet(found) \cap kept)
           /\ Len(Keep(found, kept)) <= Len(found)
           /\ Distinct(found) => Distinct(Keep(found, kept))
<1>1. PICK N, V : N = Len(found) /\ V = Seq(ToSet(found) \cap kept)
  OBVIOUS
<1>2. N \in Nat /\ DOMAIN found = 1 .. N
  BY <1>1
<1>3. PICK f : /\ f \in [0 .. N -> V]
               /\ f[0] = <<>> /\ f[N] = Keep(found, kept)
               /\ \A n \in 1 .. N :
                     f[n] = IF found[n] \in kept THEN Append(f[n - 1], found[n]) ELSE f[n - 1]
  <2>1. PICK f : IsKeepRun(f, found, kept)
    BY KeepUnfolds
  <2>2. QED
    BY <1>1, <2>1 DEF IsKeepRun
<1> DEFINE P(n) == /\ Len(f[n]) <= n
                   /\ \A i \in DOMAIN f[n] : \E m \in 1 .. n : f[n][i] = found[m]
                   /\ Distinct(found) => Distinct(f[n])
<1> DEFINE G == { n \in 0 .. N : P(n) }
<1>4. 0 \in G
  <2>1. P(0)
    BY <1>3 DEF Distinct
  <2> HIDE DEF P
  <2>2. QED
    BY <1>2, <2>1
<1>5. ASSUME NEW n \in 0 .. (N - 1), n \in G
      PROVE  n + 1 \in G
  <2>1. PICK m \in 1 .. N : m = n + 1 /\ m - 1 = n
    BY <1>2
  <2>2. P(n)
    BY <1>5
  <2>3. PICK old, new, x : old = f[n] /\ new = f[m] /\ x = found[m]
    OBVIOUS
  <2>4. old \in V /\ new \in V
    BY <1>2, <1>3, <2>3
  <2>5. CASE x \notin kept
    <3>1. new = old
      BY <1>3, <2>1, <2>3, <2>5
    <3>2. P(m)
      BY <2>1, <2>2, <2>3, <3>1
    <3> HIDE DEF P
    <3>3. QED
      BY <2>1, <3>2
  <2>6. CASE x \in kept
    <3>1. new = Append(old, x)
      BY <1>3, <2>1, <2>3, <2>6
    <3>2. /\ Len(old) \in Nat /\ DOMAIN old = 1 .. Len(old)
          /\ Len(new) = Len(old) + 1 /\ DOMAIN new = 1 .. (Len(old) + 1)
          /\ new[Len(old) + 1] = x /\ \A i \in 1 .. Len(old) : new[i] = old[i]
      <4>1. old \in Seq((ToSet(found) \cap kept) \cup {x})
        BY <1>1, <2>4
      <4> HIDE DEF P
      <4>2. QED
        BY <3>1, <4>1
    <3>3. Len(new) <= m
      BY <2>1, <2>2, <2>3, <3>2
    <3>4. \A i \in DOMAIN new : \E k \in 1 .. m : new[i] = found[k]
      <4>1. \A i \in 1 .. Len(old) : \E k \in 1 .. n : new[i] = found[k]
        BY <2>2, <2>3, <3>2
      <4>2. \A k \in 1 .. n : k \in 1 .. m
        BY <2>1
      <4>3. \A i \in 1 .. Len(old) : \E k \in 1 .. m : new[i] = found[k]
        BY <4>1, <4>2
      <4>4. m \in 1 .. m /\ new[Len(old) + 1] = found[m]
        BY <2>1, <2>3, <3>2
      <4>5. \A i \in DOMAIN new : i \in 1 .. Len(old) \/ i = Len(old) + 1
        BY <3>2
      <4>6. QED
        BY <4>3, <4>4, <4>5
    <3>5. ASSUME Distinct(found) PROVE Distinct(new)
      <4>1. ASSUME NEW i \in 1 .. Len(old) PROVE old[i].id # x.id
        <5>1. PICK k \in 1 .. n : old[i] = found[k]
          BY <2>2, <2>3, <3>2
        <5>2. k # m /\ k \in DOMAIN found /\ m \in DOMAIN found
          BY <1>2, <2>1
        <5>3. QED
          BY <2>3, <3>5, <5>1, <5>2 DEF Distinct
      <4>2. \A i, j \in 1 .. Len(old) : i # j => old[i].id # old[j].id
        BY <2>2, <2>3, <3>2, <3>5 DEF Distinct
      <4> HIDE DEF P
      <4>3. QED
        BY <3>2, <4>1, <4>2 DEF Distinct
    <3>6. P(m)
      BY <2>3, <3>3, <3>4, <3>5
    <3> HIDE DEF P
    <3>7. QED
      BY <2>1, <3>6
  <2>7. QED
    BY <2>5, <2>6
<1>6. P(N)
  <2> HIDE DEF P
  <2>1. \A n \in 0 .. N : n \in G
    <3> HIDE DEF G
    <3>1. QED
      BY <1>2, <1>4, <1>5, Induct
  <2>2. QED
    BY <1>2, <2>1
<1>7. QED
  BY <1>1, <1>2, <1>3, <1>6

\* The sort keeps the documents.
LEMMA RankFits ==
    ASSUME NEW found, found \in Seq(ToSet(found))
    PROVE  Rank(found) \in Seq(ToSet(found))
<1>1. PICK f \in [0 .. Len(found) -> Seq(ToSet(found))] : f[Len(found)] = Rank(found)
  BY RankUnfolds
<1>2. Len(found) \in 0 .. Len(found)
  OBVIOUS
<1>3. QED
  BY <1>1, <1>2

\* What has been seen is not taken again.
LEMMA DeduplicateFits ==
    ASSUME NEW found, found \in Seq(ToSet(found))
    PROVE  Deduplicate(found) \in Seq(ToSet(found)) /\ Distinct(Deduplicate(found))
<1>1. PICK N, V : N = Len(found) /\ V = Seq(ToSet(found))
  OBVIOUS
<1>2. N \in Nat /\ \A n \in 1 .. N : found[n] \in ToSet(found)
  BY <1>1 DEF ToSet
<1>0. PICK f : IsDeduplicateRun(f, found)
  BY DeduplicateUnfolds
<1>3. /\ f \in [0 .. N -> V] /\ f[0] = <<>> /\ f[N] = Deduplicate(found)
      /\ \A n \in 1 .. N :
            f[n] = LET x == found[n]
                       acc == f[n - 1]
                   IN  IF \E i \in DOMAIN acc : acc[i].id = x.id THEN acc ELSE Append(acc, x)
  BY <1>0, <1>1 DEF IsDeduplicateRun
<1>4. PICK G : G = { n \in 0 .. N : Distinct(f[n]) }
  OBVIOUS
<1>5. 0 \in G
  BY <1>2, <1>3, <1>4 DEF Distinct
<1>6. ASSUME NEW n \in 0 .. (N - 1), n \in G
      PROVE  n + 1 \in G
  <2>1. PICK m \in 1 .. N : m = n + 1 /\ m - 1 = n
    BY <1>2
  <2>2. PICK old, new, x : old = f[n] /\ new = f[m] /\ x = found[m]
    OBVIOUS
  <2>3. old \in V /\ new \in V /\ x \in ToSet(found) /\ Distinct(old)
    BY <1>2, <1>3, <1>4, <1>6, <2>2
  <2>4. new = IF \E i \in DOMAIN old : old[i].id = x.id THEN old ELSE Append(old, x)
    BY <1>3, <2>1, <2>2
  <2>5. Distinct(new)
    <3>1. CASE new = old
      BY <2>3, <3>1
    <3>2. CASE new = Append(old, x) /\ \A i \in DOMAIN old : old[i].id # x.id
      <4>1. /\ DOMAIN old = 1 .. Len(old) /\ DOMAIN new = 1 .. (Len(old) + 1) /\ Len(old) \in Nat
            /\ new[Len(old) + 1] = x /\ \A i \in 1 .. Len(old) : new[i] = old[i]
        BY <1>1, <2>3, <3>2
      <4>2. QED
        BY <2>3, <3>2, <4>1 DEF Distinct
    <3>3. QED
      BY <2>4, <3>1, <3>2
  <2>6. QED
    BY <1>4, <2>1, <2>2, <2>5
<1>7. \A n \in 0 .. N : n \in G
  BY <1>2, <1>5, <1>6, Induct
<1>8. QED
  BY <1>1, <1>2, <1>3, <1>4, <1>7

\* What is cut off is the end.
LEMMA LimitFits ==
    ASSUME NEW S, NEW found, found \in Seq(S), NEW max, max \in Nat
    PROVE  /\ Limit(found, max) \in Seq(S) /\ Len(Limit(found, max)) <= max
           /\ Distinct(found) => Distinct(Limit(found, max))
<1>1. PICK n : n = IF max < Len(found) THEN max ELSE Len(found)
  OBVIOUS
<1>2. PICK cut : cut = SubSeq(found, 1, n)
  OBVIOUS
<1>3. n \in 0 .. Len(found) /\ n <= max /\ Len(found) \in Nat /\ DOMAIN found = 1 .. Len(found)
  BY <1>1
<1>4. cut \in Seq(S) /\ Len(cut) = n /\ DOMAIN cut = 1 .. n /\ \A i \in 1 .. n : cut[i] = found[i]
  BY <1>2, <1>3
<1>5. Limit(found, max) = cut
  BY <1>1, <1>2 DEF Limit
<1>6. Distinct(found) => Distinct(cut)
  BY <1>3, <1>4 DEF Distinct
<1>7. QED
  BY <1>3, <1>4, <1>5, <1>6

\* The search returns documents.
LEMMA SearchFits ==
    ASSUME NEW query, NEW limit, limit \in Nat
    PROVE  Search(query, limit) \in Seq(ToSet(Search(query, limit)))
<1>1. PICK simulated : simulated = [i \in 1 .. limit |-> ToRankedDocument(query, i - 1)]
  OBVIOUS
<1>2. simulated \in Seq(ToSet(simulated))
  <2>1. PICK S : S = ToSet(simulated)
    OBVIOUS
  <2>2. simulated \in [1 .. limit -> S]
    BY <1>1, <2>1 DEF ToSet
  <2>3. QED
    BY <2>1, <2>2
<1>3. PICK kept : kept = { document \in ToSet(simulated) : document.score >= Threshold }
  OBVIOUS
<1>4. Search(query, limit) = Keep(simulated, kept)
  BY <1>1, <1>3 DEF Search
<1>5. PICK found : found = Keep(simulated, kept)
  OBVIOUS
<1>6. found \in Seq(ToSet(simulated) \cap kept)
  BY <1>2, <1>5, KeepFits
<1>7. found \in Seq(ToSet(found))
  BY <1>6, ElementsOf
<1>8. QED
  BY <1>4, <1>5, <1>7

\* What retrieve() answers, for every query.
LEMMA RetrieveFits ==
    ASSUME NEW query, query.maxResults \in Nat \cup {None}
    PROVE  /\ Len(Retrieve(query)) <= OrElse(query.maxResults, MaxResults)
           /\ Distinct(Retrieve(query))
           /\ \A i \in DOMAIN Retrieve(query) : Suits(Retrieve(query)[i], query)
<1>1. PICK max : max = OrElse(query.maxResults, MaxResults) /\ max \in Nat
  BY RetrievalAssumption DEF OrElse
<1>2. PICK found : found = Search(query, max * 2) /\ found \in Seq(ToSet(found))
  BY <1>1, SearchFits
<1> DEFINE InSector(document) == (query.sector # None /\ document.tags # {}) =>
                                    {query.sector, "general"} \cap document.tags # {}
           Allowed(document) == query.level # None => IndexOf(document.level) <= IndexOf(query.level)
           Deep(document) == query.maxDepth \notin {None, 0} => document.depth <= query.maxDepth
<1>3. PICK inSector : /\ inSector = IF query.sector = None THEN found ELSE SectorFilter(found, query.sector)
                      /\ inSector \in Seq(ToSet(inSector))
                      /\ \A document \in ToSet(inSector) : InSector(document)
  <2>1. CASE query.sector = None
    BY <1>2, <2>1
  <2>2. CASE query.sector # None
    <3>1. PICK kept : kept = { document \in ToSet(found) : document.tags = {} \/
                                   {query.sector, "general"} \cap document.tags # {} }
      OBVIOUS
    <3>2. PICK rest : rest = SectorFilter(found, query.sector)
      OBVIOUS
    <3>3. rest \in Seq(ToSet(found) \cap kept)
      BY <1>2, <3>1, <3>2, KeepFits DEF SectorFilter
    <3>4. rest \in Seq(ToSet(rest)) /\ ToSet(rest) \subseteq kept
      BY <3>3, ElementsOf
    <3>5. \A document \in ToSet(rest) : InSector(document)
      BY <3>1, <3>4
    <3>6. QED
      BY <2>2, <3>2, <3>4, <3>5
  <2>3. QED
    BY <2>1, <2>2
<1>4. PICK allowed : /\ allowed = IF query.level = None THEN inSector ELSE FilterByCompliance(inSector, query.level)
                     /\ allowed \in Seq(ToSet(allowed))
                     /\ \A document \in ToSet(allowed) : InSector(document) /\ Allowed(document)
  <2>1. CASE query.level = None
    BY <1>3, <2>1
  <2>2. CASE query.level # None
    <3>1. PICK kept : kept = { document \in ToSet(inSector) : IndexOf(document.level) <= IndexOf(query.level) }
      OBVIOUS
    <3>2. PICK rest : rest = FilterByCompliance(inSector, query.level)
      OBVIOUS
    <3>3. rest \in Seq(ToSet(inSector) \cap kept)
      BY <1>3, <3>1, <3>2, KeepFits DEF FilterByCompliance
    <3>4. rest \in Seq(ToSet(rest)) /\ ToSet(rest) \subseteq kept /\ ToSet(rest) \subseteq ToSet(inSector)
      BY <3>3, ElementsOf
    <3>5. \A document \in ToSet(rest) : Allowed(document)
      BY <3>1, <3>4
    <3>6. QED
      BY <1>3, <2>2, <3>2, <3>4, <3>5
  <2>3. QED
    BY <2>1, <2>2
<1> DEFINE S == ToSet(allowed)
<1>5. PICK ranked : ranked = Rank(allowed) /\ ranked \in Seq(S)
  BY <1>4, RankFits
<1>6. PICK unique : unique = Deduplicate(ranked) /\ unique \in Seq(S) /\ Distinct(unique)
  <2>1. ranked \in Seq(ToSet(ranked)) /\ ToSet(ranked) \subseteq S
    BY <1>5, ElementsOf
  <2>2. Deduplicate(ranked) \in Seq(ToSet(ranked)) /\ Distinct(Deduplicate(ranked))
    BY <2>1, DeduplicateFits
  <2>3. PICK unique : unique = Deduplicate(ranked)
    OBVIOUS
  <2>4. unique \in Seq(S)
    BY <2>1, <2>2, <2>3
  <2>5. QED
    BY <2>2, <2>3, <2>4
<1>7. PICK limited : /\ limited = Limit(unique, max) /\ limited \in Seq(S)
                     /\ Len(limited) <= max /\ Distinct(limited)
  BY <1>1, <1>6, LimitFits
<1>8. PICK chosen : chosen = IF query.maxDepth \in {None, 0} THEN limited ELSE LimitByDepth(limited, query.maxDepth)
  OBVIOUS
<1>9. Retrieve(query) = chosen
  BY <1>1, <1>2, <1>3, <1>4, <1>5, <1>6, <1>7, <1>8 DEF Retrieve
<1>10. /\ chosen \in Seq(S) /\ Len(chosen) <= max /\ Distinct(chosen)
       /\ \A document \in ToSet(chosen) : Deep(document)
  <2>1. CASE query.maxDepth \in {None, 0}
    BY <1>7, <1>8, <2>1
  <2>2. CASE query.maxDepth \notin {None, 0}
    <3>1. PICK kept : kept = { document \in ToSet(limited) : document.depth <= query.maxDepth }
      OBVIOUS
    <3>2. limited \in Seq(ToSet(limited)) /\ ToSet(limited) \subseteq S /\ Len(limited) \in Nat
      BY <1>7, ElementsOf
    <3>3. chosen = Keep(limited, kept)
      BY <1>8, <2>2, <3>1 DEF LimitByDepth
    <3>4. chosen \in Seq(ToSet(limited) \cap kept) /\ Len(chosen) <= Len(limited) /\ Distinct(chosen)
      BY <1>7, <3>2, <3>3, KeepFits
    <3>5. ToSet(chosen) \subseteq kept /\ Len(chosen) \in Nat
      BY <3>4, ElementsOf
    <3>6. chosen \in Seq(S)
      BY <3>2, <3>4
    <3>7. Len(chosen) <= max
      BY <1>1, <1>7, <3>2, <3>4, <3>5
    <3>8. \A document \in ToSet(chosen) : Deep(document)
      BY <3>1, <3>5
    <3>9. QED
      BY <3>4, <3>6, <3>7, <3>8
  <2>3. QED
    BY <2>1, <2>2
<1>11. ASSUME NEW i \in DOMAIN chosen PROVE Suits(chosen[i], query)
  <2>1. chosen[i] \in ToSet(chosen) /\ chosen[i] \in S
    BY <1>10, ElementsOf DEF ToSet
  <2>2. InSector(chosen[i]) /\ Allowed(chosen[i]) /\ Deep(chosen[i])
    BY <1>4, <1>10, <2>1
  <2>3. QED
    BY <2>2 DEF Suits
<1>12. QED
  BY <1>1, <1>9, <1>10, <1>11

-------------------------------------------------------------------------------
(* Partitions.                                                             *)

LEMMA PartitionTypes == \A p \in Partitions : p.level \in ToSet(ComplianceOrder) /\ p.sectors \subseteq Tags
<1>1. {"public", "restricted", "confidential", "regulated"} \subseteq ToSet(ComplianceOrder)
  BY DEF ComplianceOrder, ToSet
<1>2. \A i \in 1 .. 6 : DefaultPartitions[i].level \in {"public", "restricted", "confidential", "regulated"}
  BY DEF DefaultPartitions, Partition
<1>3. \A p \in Partitions : \E i \in 1 .. 6 : p = DefaultPartitions[i]
  BY DEF Partitions, DefaultPartitions, ToSet
<1>4. QED
  BY <1>1, <1>2, <1>3, VaultAssumption

LEMMA KnownPartition ==
    ASSUME NEW id, Known(id)
    PROVE  GetPartition(id) \in Partitions /\ GetPartition(id).id = id
BY DEF Known, GetPartition

\* A document of a known partition is one, and bears its name.
LEMMA EnrichedTypes ==
    ASSUME NEW doc, doc.level \in ToSet(ComplianceOrder) \cup {None}, doc.tags \subseteq Tags,
           NEW id, Known(id)
    PROVE  /\ Enriched(doc, GetPartition(id)) \in Document
           /\ Enriched(doc, GetPartition(id)).partition = id
           /\ Enriched(doc, GetPartition(id)).level = OrElse(doc.level, GetPartition(id).level)
BY PartitionTypes, KnownPartition DEF Enriched, OrElse, Document

LEMMA UpdatedTypes ==
    ASSUME NEW document \in Document, NEW id, Known(id)
    PROVE  /\ Updated(document, GetPartition(id)) \in Document
           /\ Updated(document, GetPartition(id)).partition = id
           /\ Updated(document, GetPartition(id)).level = GetPartition(id).level
<1>1. PICK p : p = GetPartition(id)
  OBVIOUS
<1>2. p.id = id /\ p \in Partitions /\ p.level \in ToSet(ComplianceOrder) /\ p.sectors \subseteq Tags
  BY <1>1, PartitionTypes, KnownPartition
<1>3. Updated(document, p) \in Document /\ Updated(document, p).partition = id /\ Updated(document, p).level = p.level
  BY <1>2 DEF Updated, Document
<1>4. QED
  BY <1>1, <1>3

-------------------------------------------------------------------------------
(* The audit log.                                                          *)

\* One more entry: the others keep their places.
LEMMA LogGrows ==
    ASSUME Types, NEW entry, auditLog' = Append(auditLog, entry)
    PROVE  /\ auditLog' \in Seq({ auditLog'[n] : n \in DOMAIN auditLog' })
           /\ Len(auditLog) \in Nat /\ DOMAIN auditLog = 1 .. Len(auditLog)
           /\ DOMAIN auditLog' = 1 .. (Len(auditLog) + 1)
           /\ auditLog'[Len(auditLog) + 1] = entry
           /\ \A n \in DOMAIN auditLog : auditLog'[n] = auditLog[n]
<1>1. PICK Entries : auditLog \in Seq(Entries)
  BY DEF Types
<1>2. auditLog \in Seq(Entries \cup {entry})
  BY <1>1
<1>3. /\ Len(auditLog) \in Nat /\ DOMAIN auditLog = 1 .. Len(auditLog)
      /\ auditLog' \in Seq(Entries \cup {entry}) /\ Len(auditLog') = Len(auditLog) + 1
      /\ DOMAIN auditLog' = 1 .. (Len(auditLog) + 1)
      /\ auditLog'[Len(auditLog) + 1] = entry
      /\ \A n \in DOMAIN auditLog : auditLog'[n] = auditLog[n]
  BY <1>2
<1>4. auditLog' \in Seq({ auditLog'[n] : n \in DOMAIN auditLog' })
  BY <1>3
<1>5. QED
  BY <1>3, <1>4

\* The last entry about a document stays so while others are written about, and a new
\* one takes its place.
LEMMA LastGrows ==
    ASSUME Types, NEW entry, auditLog' = Append(auditLog, entry), NEW id,
           NEW next, next = Len(auditLog) + 1
    PROVE  /\ entry.id # id =>
                 /\ \A n \in DOMAIN auditLog : LastAbout(id, n) =>
                        n \in DOMAIN auditLog' /\ LastAbout(id, n)' /\ auditLog'[n] = auditLog[n]
                 /\ (\A n \in DOMAIN auditLog : auditLog[n].id # id)
                        => \A n \in DOMAIN auditLog' : auditLog'[n].id # id
           /\ entry.id = id => next \in DOMAIN auditLog' /\ LastAbout(id, next)' /\ auditLog'[next] = entry
<1>1. /\ DOMAIN auditLog = 1 .. (next - 1) /\ next \in Nat \ {0}
      /\ DOMAIN auditLog' = 1 .. next
      /\ auditLog'[next] = entry
      /\ \A n \in DOMAIN auditLog : auditLog'[n] = auditLog[n]
  BY LogGrows
<1>2. ASSUME entry.id # id, NEW n \in DOMAIN auditLog, LastAbout(id, n)
      PROVE  n \in DOMAIN auditLog' /\ LastAbout(id, n)' /\ auditLog'[n] = auditLog[n]
  BY <1>1, <1>2 DEF LastAbout
<1>3. ASSUME entry.id # id, \A n \in DOMAIN auditLog : auditLog[n].id # id, NEW n \in DOMAIN auditLog'
      PROVE  auditLog'[n].id # id
  BY <1>1, <1>3
<1>4. ASSUME entry.id = id
      PROVE  next \in DOMAIN auditLog' /\ LastAbout(id, next)' /\ auditLog'[next] = entry
  BY <1>1, <1>4 DEF LastAbout
<1>5. QED
  BY <1>2, <1>3, <1>4

-------------------------------------------------------------------------------
(* Steps.                                                                  *)

\* What the calls that are done have been given stays.
DoneStays == \A c \in Calls : At(c, "done") => pc'[c] = "done" /\ input'[c] = input[c]

\* A step that stores, moves or removes one document and says so in the log.
LEMMA ChangeStep ==
    ASSUME IndInv, DoneStays, NEW id \in Ids, NEW document, NEW action, NEW partition,
           documents' = [documents EXCEPT ![id] = document],
           Log(action, id, partition),
           \/ action = "remove" /\ document = None
           \/ action # "remove" /\ document \in Document /\ document.partition = partition,
           document = None \/ document.level = GetPartition(partition).level
              \/ /\ action = "add"
                 /\ \E c \in Calls : /\ pc'[c] = "done" /\ input'[c].op = "add"
                                     /\ input'[c].doc.id = id /\ input'[c].doc.level = document.level
    PROVE  LogReplays' /\ LevelFits'
<1>1. PICK entry : entry = [action |-> action, id |-> id, partition |-> partition]
  OBVIOUS
<1>2. /\ auditLog' = Append(auditLog, entry) /\ entry.id = id /\ entry.action = action
      /\ entry.partition = partition
  BY <1>1 DEF Log
<1>3. PICK next : next = Len(auditLog) + 1
  OBVIOUS
<1>4. /\ documents'[id] = document /\ \A other \in Ids \ {id} : documents'[other] = documents[other]
      /\ document # None => document \in Document
  BY DEF IndInv, Types
<1>5. next \in DOMAIN auditLog' /\ LastAbout(id, next)' /\ auditLog'[next] = entry
  BY <1>2, <1>3, LastGrows DEF IndInv
<1>6. ASSUME NEW other \in Ids \ {id}
      PROVE  /\ \A n \in DOMAIN auditLog : LastAbout(other, n) =>
                    n \in DOMAIN auditLog' /\ LastAbout(other, n)' /\ auditLog'[n] = auditLog[n]
             /\ (\A n \in DOMAIN auditLog : auditLog[n].id # other)
                    => \A n \in DOMAIN auditLog' : auditLog'[n].id # other
  BY <1>2, <1>3, LastGrows DEF IndInv
<1>7. LogReplays'
  <2>1. ASSUME NEW other \in Ids \ {id}
        PROVE  \/ documents'[other] = None /\ \A n \in DOMAIN auditLog' : auditLog'[n].id # other
               \/ \E n \in DOMAIN auditLog' :
                     /\ LastAbout(other, n)'
                     /\ IF auditLog'[n].action = "remove" THEN documents'[other] = None
                        ELSE documents'[other] # None /\ documents'[other].partition = auditLog'[n].partition
    <3>1. CASE documents[other] = None /\ \A n \in DOMAIN auditLog : auditLog[n].id # other
      BY <1>4, <1>6, <3>1
    <3>2. ASSUME NEW n \in DOMAIN auditLog, LastAbout(other, n),
                 IF auditLog[n].action = "remove" THEN documents[other] = None
                 ELSE IsIn(other, auditLog[n].partition)
          PROVE  /\ n \in DOMAIN auditLog' /\ LastAbout(other, n)'
                 /\ IF auditLog'[n].action = "remove" THEN documents'[other] = None
                    ELSE documents'[other] # None /\ documents'[other].partition = auditLog'[n].partition
      BY <1>4, <1>6, <3>2 DEF IsIn
    <3>3. QED
      BY <3>1, <3>2 DEF IndInv, LogReplays
  <2>2. IF auditLog'[next].action = "remove" THEN documents'[id] = None
        ELSE documents'[id] # None /\ documents'[id].partition = auditLog'[next].partition
    BY <1>2, <1>4, <1>5, VaultAssumption
  <2>3. QED
    BY <1>5, <2>1, <2>2 DEF LogReplays, IsIn
<1>8. LevelFits'
  <2>1. ASSUME NEW other \in Ids \ {id}, documents'[other] # None
        PROVE  \/ documents'[other].level = GetPartition(documents'[other].partition).level
               \/ /\ \E n \in DOMAIN auditLog' : LastAbout(other, n)' /\ auditLog'[n].action = "add"
                  /\ \E c \in Calls : /\ pc'[c] = "done" /\ input'[c].op = "add"
                                      /\ input'[c].doc.id = other
                                      /\ input'[c].doc.level = documents'[other].level
    <3>1. documents[other] # None /\ documents'[other] = documents[other]
      BY <1>4, <2>1
    <3>2. CASE documents[other].level = GetPartition(documents[other].partition).level
      BY <3>1, <3>2
    <3>3. ASSUME NEW n \in DOMAIN auditLog, LastAbout(other, n), auditLog[n].action = "add",
                 NEW c \in Calls, At(c, "done"), input[c].op = "add",
                 input[c].doc.id = other, input[c].doc.level = documents[other].level
          PROVE  /\ n \in DOMAIN auditLog' /\ LastAbout(other, n)' /\ auditLog'[n].action = "add"
                 /\ pc'[c] = "done" /\ input'[c] = input[c]
      BY <1>6, <3>3 DEF DoneStays
    <3>4. QED
      BY <3>1, <3>2, <3>3 DEF IndInv, LevelFits
  <2>2. ASSUME document # None
        PROVE  \/ document.level = GetPartition(document.partition).level
               \/ /\ LastAbout(id, next)' /\ auditLog'[next].action = "add"
                  /\ \E c \in Calls : /\ pc'[c] = "done" /\ input'[c].op = "add"
                                      /\ input'[c].doc.id = id /\ input'[c].doc.level = document.level
    BY <1>2, <1>5, <2>2
  <2>3. QED
    BY <1>4, <1>5, <2>1, <2>2 DEF LevelFits, At
<1>9. QED
  BY <1>7, <1>8

\* A step that changes no document and writes, if anything, about none.
LEMMA OtherStep ==
    ASSUME IndInv, DoneStays, documents' = documents,
           \/ auditLog' = auditLog
           \/ \E partition : Log("retrieve", None, partition)
    PROVE  LogReplays' /\ LevelFits'
<1>1. ASSUME NEW id \in Ids
      PROVE  /\ \A n \in DOMAIN auditLog : LastAbout(id, n) =>
                    n \in DOMAIN auditLog' /\ LastAbout(id, n)' /\ auditLog'[n] = auditLog[n]
             /\ (\A n \in DOMAIN auditLog : auditLog[n].id # id)
                    => \A n \in DOMAIN auditLog' : auditLog'[n].id # id
  <2>1. CASE auditLog' = auditLog
    BY <2>1 DEF LastAbout
  <2>2. ASSUME NEW partition, Log("retrieve", None, partition)
        PROVE  /\ \A n \in DOMAIN auditLog : LastAbout(id, n) =>
                      n \in DOMAIN auditLog' /\ LastAbout(id, n)' /\ auditLog'[n] = auditLog[n]
               /\ (\A n \in DOMAIN auditLog : auditLog[n].id # id)
                      => \A n \in DOMAIN auditLog' : auditLog'[n].id # id
    <3>1. PICK entry : entry = [action |-> "retrieve", id |-> None, partition |-> partition]
      OBVIOUS
    <3>2. auditLog' = Append(auditLog, entry) /\ entry.id # id
      BY <2>2, <3>1, VaultAssumption DEF Log
    <3>3. PICK next : next = Len(auditLog) + 1
      OBVIOUS
    <3>4. QED
      BY <3>2, <3>3, LastGrows DEF IndInv
  <2>3. QED
    BY <2>1, <2>2
<1>2. LogReplays'
  BY <1>1 DEF IndInv, LogReplays, IsIn
<1>3. LevelFits'
  BY <1>1 DEF IndInv, LevelFits, DoneStays, At
<1>4. QED
  BY <1>2, <1>3

\* A call begins, or goes on, with an input that is kept.
Proceeds(c, i, label) ==
    /\ pc[c] \in {"idle", "embedding"}
    /\ pc' = [pc EXCEPT ![c] = label]
    /\ input' = [input EXCEPT ![c] = i] \/ (input' = input /\ input[c] = i)

LEMMA CallStep ==
    ASSUME Types, WaitingFits, NEW c \in Calls, NEW i \in Inputs, NEW label \in Labels, Proceeds(c, i, label),
           label = "embedding" => i.op = "retrieve" \/ (i.op = "add" /\ Known(i.partition)),
           DOMAIN result' = DOMAIN result
    PROVE  /\ pc' \in [Calls -> Labels] /\ DOMAIN input' = Calls /\ DOMAIN result' = Calls
           /\ pc'[c] = label /\ input'[c] = i
           /\ WaitingFits' /\ DoneStays
BY DEF Types, Labels, WaitingFits, DoneStays, Proceeds, At

LEMMA IndInvStep == IndInv /\ [Next]_vars => IndInv'
<1> SUFFICES ASSUME IndInv, [Next]_vars PROVE IndInv'
  OBVIOUS
<1> USE DEF Goto, At
<1>0. Types /\ WaitingFits
  BY DEF IndInv
<1>1. ASSUME NEW id \in Ids, NEW document, NEW action, NEW partition, Log(action, id, partition),
             document = None \/ document \in Document, documents' = [documents EXCEPT ![id] = document]
      PROVE  /\ documents' \in [Ids -> Document \cup {None}]
             /\ auditLog' \in Seq({ auditLog'[n] : n \in DOMAIN auditLog' })
  BY <1>0, <1>1, LogGrows DEF Types, Log
<1>2. ASSUME NEW c \in Calls, NEW i \in Inputs, NEW label \in Labels, Proceeds(c, i, label),
             label = "embedding" => i.op = "retrieve" \/ (i.op = "add" /\ Known(i.partition)),
             documents' = documents, auditLog' = auditLog \/ \E partition : Log("retrieve", None, partition),
             DOMAIN result' = DOMAIN result
      PROVE  IndInv'
  <2>1. auditLog' \in Seq({ auditLog'[n] : n \in DOMAIN auditLog' })
    BY <1>0, <1>2, LogGrows DEF Types, Log
  <2>2. /\ pc' \in [Calls -> Labels] /\ DOMAIN input' = Calls /\ DOMAIN result' = Calls
        /\ WaitingFits' /\ DoneStays
    BY <1>0, <1>2, CallStep
  <2>3. LogReplays' /\ LevelFits'
    BY <1>2, <2>2, OtherStep
  <2>4. QED
    BY <1>0, <1>2, <2>1, <2>2, <2>3 DEF IndInv, Types
<1>3. ASSUME NEW c \in Calls, NEW i \in Inputs, i.op = "add", Known(i.partition), Store(c, i), Proceeds(c, i, "done")
      PROVE  IndInv'
  <2>1. PICK document : document = Enriched(i.doc, GetPartition(i.partition))
    OBVIOUS
  <2>2. /\ i.doc.id \in Ids /\ document \in Document /\ document.partition = i.partition
        /\ document.level = OrElse(i.doc.level, GetPartition(i.partition).level)
    BY <1>3, <2>1, VaultAssumption, EnrichedTypes
  <2>3. /\ documents' = [documents EXCEPT ![i.doc.id] = document]
        /\ Log("add", i.doc.id, i.partition) /\ result' = result
    BY <1>3, <2>1 DEF Store
  <2>4. /\ pc' \in [Calls -> Labels] /\ DOMAIN input' = Calls /\ DOMAIN result' = Calls
        /\ pc'[c] = "done" /\ input'[c] = i
        /\ WaitingFits' /\ DoneStays
    BY <1>0, <1>3, <2>3, CallStep DEF Labels
  <2>5. Types'
    BY <1>1, <2>2, <2>3, <2>4 DEF Types
  <2>6. \/ document.level = GetPartition(i.partition).level
        \/ \E d \in Calls : /\ pc'[d] = "done" /\ input'[d].op = "add"
                            /\ input'[d].doc.id = i.doc.id /\ input'[d].doc.level = document.level
    BY <1>3, <2>2, <2>4 DEF OrElse
  <2>7. LogReplays' /\ LevelFits'
    BY <2>2, <2>3, <2>4, <2>6, ChangeStep
  <2>8. QED
    BY <2>4, <2>5, <2>7 DEF IndInv
<1>4. ASSUME NEW c \in Calls, NEW i \in Inputs, Rejected(c, i) PROVE IndInv'
  BY <1>2, <1>4 DEF Rejected, Begin, Proceeds, Labels
<1>5. ASSUME NEW c \in Calls, NEW i \in Inputs, AddEmbedded(c, i) PROVE IndInv'
  BY <1>3, <1>5 DEF AddEmbedded, Begin, Throws, Store, Proceeds
<1>6. ASSUME NEW c \in Calls, NEW i \in Inputs, AddDocument(c, i) PROVE IndInv'
  BY <1>2, <1>6 DEF AddDocument, Begin, Throws, Proceeds, Labels
<1>7. ASSUME NEW c \in Calls, NEW i \in Inputs, RemoveDocument(c, i) PROVE IndInv'
  <2>1. i.id \in Ids /\ documents' = [documents EXCEPT ![i.id] = None] /\ Log("remove", i.id, i.partition)
    BY <1>7, VaultAssumption DEF RemoveDocument, Begin
  <2>2. /\ pc' \in [Calls -> Labels] /\ DOMAIN input' = Calls /\ DOMAIN result' = Calls
        /\ WaitingFits' /\ DoneStays
    BY <1>0, <1>7, CallStep DEF RemoveDocument, Begin, Proceeds, Labels
  <2>3. Types'
    BY <1>1, <2>1, <2>2 DEF Types
  <2>4. LogReplays' /\ LevelFits'
    BY <2>1, <2>2, ChangeStep
  <2>5. QED
    BY <2>2, <2>3, <2>4 DEF IndInv
<1>8. ASSUME NEW c \in Calls, NEW i \in Inputs, UpdatePartition(c, i) PROVE IndInv'
  <2>1. i.id \in Ids /\ documents[i.id] \in Document /\ Known(i.newPartition)
    BY <1>0, <1>8, VaultAssumption DEF UpdatePartition, Begin, Throws, IsIn, Types
  <2>2. PICK document : document = Updated(documents[i.id], GetPartition(i.newPartition))
    OBVIOUS
  <2>3. /\ document \in Document /\ document.partition = i.newPartition
        /\ document.level = GetPartition(i.newPartition).level
    BY <2>1, <2>2, UpdatedTypes
  <2>4. documents' = [documents EXCEPT ![i.id] = document] /\ Log("update_partition", i.id, i.newPartition)
    BY <1>0, <1>8, <2>1, <2>2 DEF UpdatePartition, Types
  <2>5. /\ pc' \in [Calls -> Labels] /\ DOMAIN input' = Calls /\ DOMAIN result' = Calls
        /\ WaitingFits' /\ DoneStays
    BY <1>0, <1>8, CallStep DEF UpdatePartition, Begin, Proceeds, Labels
  <2>6. Types'
    BY <1>1, <2>1, <2>3, <2>4, <2>5 DEF Types
  <2>7. LogReplays' /\ LevelFits'
    BY <2>1, <2>3, <2>4, <2>5, ChangeStep
  <2>8. QED
    BY <2>5, <2>6, <2>7 DEF IndInv
<1>9. ASSUME NEW c, NEW query, Answer(c, query)
      PROVE  /\ documents' = documents /\ pc' = [pc EXCEPT ![c] = "done"]
             /\ \E partition : Log("retrieve", None, partition)
             /\ DOMAIN result' = DOMAIN result
  BY <1>9 DEF Answer
<1>10. ASSUME NEW c \in Calls, NEW i \in Inputs, RetrieveEmbedded(c, i) PROVE IndInv'
  BY <1>2, <1>9, <1>10 DEF RetrieveEmbedded, Begin, Proceeds, Labels
<1>11. ASSUME NEW c \in Calls, NEW i \in Inputs, RetrieveText(c, i) PROVE IndInv'
  BY <1>2, <1>11 DEF RetrieveText, Begin, Proceeds, Labels
<1>12. ASSUME NEW c \in Calls, DocumentEmbedded(c) PROVE IndInv'
  <2>1. input[c] \in Inputs /\ input[c].op = "add" /\ Known(input[c].partition)
    BY <1>0, <1>12 DEF DocumentEmbedded, WaitingFits
  <2>2. Store(c, input[c]) /\ Proceeds(c, input[c], "done")
    BY <1>12 DEF DocumentEmbedded, Store, Proceeds
  <2>3. QED
    BY <1>3, <2>1, <2>2
<1>13. ASSUME NEW c \in Calls, QueryEmbedded(c) PROVE IndInv'
  <2>1. input[c] \in Inputs
    BY <1>0, <1>13 DEF QueryEmbedded, WaitingFits
  <2>2. Answer(c, input[c].query) /\ pc[c] = "embedding" /\ input' = input
    BY <1>13 DEF QueryEmbedded
  <2>3. Proceeds(c, input[c], "done")
    BY <1>9, <2>2 DEF Proceeds
  <2>4. QED
    BY <1>2, <1>9, <2>1, <2>2, <2>3 DEF Labels
<1>14. ASSUME NEW c \in Calls, EmbedFails(c) PROVE IndInv'
  <2>1. input[c] \in Inputs
    BY <1>0, <1>14 DEF EmbedFails, WaitingFits
  <2>2. Proceeds(c, input[c], "failed") /\ UNCHANGED <<documents, auditLog, result>>
    BY <1>14 DEF EmbedFails, Proceeds
  <2>3. QED
    BY <1>2, <2>1, <2>2 DEF Labels
<1>15. CASE UNCHANGED vars
  BY <1>15 DEF vars, IndInv, Types, WaitingFits, LogReplays, LevelFits, LastAbout, IsIn
<1>16. QED
  BY <1>4, <1>5, <1>6, <1>7, <1>8, <1>10, <1>11, <1>12, <1>13, <1>14, <1>15 DEF Next

\* What a call has been answered is what retrieve() makes of its query.
Answered ==
    \A c \in Calls :
        \/ result[c] = None
        \/ /\ pc[c] = "done" /\ input[c] \in Inputs /\ input[c].op = "retrieve"
           /\ result[c] = Retrieve(input[c].query)

LEMMA AnsweredStep == IndInv /\ Answered /\ [Next]_vars => Answered'
<1> SUFFICES ASSUME IndInv, Answered, [Next]_vars PROVE Answered'
  OBVIOUS
<1> USE DEF Goto, At
<1>0. Types /\ WaitingFits
  BY DEF IndInv
<1>1. ASSUME NEW c \in Calls, NEW i \in Inputs, NEW label \in Labels, Proceeds(c, i, label),
             result' = result
      PROVE  Answered'
  <2>1. result[c] = None
    BY <1>1 DEF Answered, Proceeds
  <2>2. \A d \in Calls \ {c} : pc'[d] = pc[d] /\ input'[d] = input[d]
    BY <1>0, <1>1 DEF Proceeds, Types
  <2>3. QED
    BY <1>1, <2>1, <2>2 DEF Answered
<1>2. ASSUME NEW c \in Calls, NEW i \in Inputs, i.op = "retrieve", Answer(c, i.query), Proceeds(c, i, "done")
      PROVE  Answered'
  <2>1. PICK found : found = Retrieve(i.query)
    OBVIOUS
  <2>2. result'[c] = found /\ \A d \in Calls \ {c} : result'[d] = result[d]
    BY <1>0, <1>2, <2>1 DEF Answer, Types
  <2>3. /\ pc'[c] = "done" /\ input'[c] = i
        /\ \A d \in Calls \ {c} : pc'[d] = pc[d] /\ input'[d] = input[d]
    BY <1>0, <1>2 DEF Proceeds, Types
  <2>4. ASSUME NEW d \in Calls
        PROVE  \/ result'[d] = None
               \/ /\ pc'[d] = "done" /\ input'[d] \in Inputs /\ input'[d].op = "retrieve"
                  /\ result'[d] = Retrieve(input'[d].query)
    <3>1. CASE d = c
      BY <1>2, <2>1, <2>2, <2>3, <3>1
    <3>2. CASE d # c
      BY <2>2, <2>3, <3>2 DEF Answered
    <3>3. QED
      BY <3>1, <3>2
  <2>5. QED
    BY <2>4 DEF Answered
<1>3. ASSUME NEW c \in Calls, NEW i \in Inputs,
             \/ Rejected(c, i) \/ AddEmbedded(c, i) \/ AddDocument(c, i)
             \/ RemoveDocument(c, i) \/ UpdatePartition(c, i) \/ RetrieveText(c, i)
      PROVE  Answered'
  <2>1. result' = result /\ \E label \in Labels : Proceeds(c, i, label)
    BY <1>3 DEF Rejected, AddEmbedded, AddDocument, RemoveDocument, UpdatePartition, RetrieveText,
                Begin, Store, Proceeds, Labels
  <2>2. QED
    BY <1>1, <2>1
<1>4. ASSUME NEW c \in Calls, NEW i \in Inputs, RetrieveEmbedded(c, i) PROVE Answered'
  <2>1. i.op = "retrieve" /\ Answer(c, i.query) /\ Proceeds(c, i, "done")
    BY <1>4 DEF RetrieveEmbedded, Begin, Proceeds, Answer
  <2>2. QED
    BY <1>2, <2>1
<1>5. ASSUME NEW c \in Calls, QueryEmbedded(c) PROVE Answered'
  <2>1. input[c] \in Inputs
    BY <1>0, <1>5 DEF QueryEmbedded, WaitingFits
  <2>2. input[c].op = "retrieve" /\ Answer(c, input[c].query) /\ Proceeds(c, input[c], "done")
    BY <1>5 DEF QueryEmbedded, Proceeds, Answer
  <2>3. QED
    BY <1>2, <2>1, <2>2
<1>6. ASSUME NEW c \in Calls, DocumentEmbedded(c) \/ EmbedFails(c) PROVE Answered'
  <2>1. input[c] \in Inputs
    BY <1>0, <1>6 DEF DocumentEmbedded, EmbedFails, WaitingFits
  <2>2. result' = result /\ \E label \in Labels : Proceeds(c, input[c], label)
    BY <1>6 DEF DocumentEmbedded, EmbedFails, Store, Proceeds, Labels
  <2>3. QED
    BY <1>1, <2>1, <2>2
<1>7. CASE UNCHANGED vars
  BY <1>7 DEF vars, Answered
<1>8. QED
  BY <1>3, <1>4, <1>5, <1>6, <1>7 DEF Next

-------------------------------------------------------------------------------
(* The invariant, and what follows from it.                                *)

LEMMA InitIndInv == Init => IndInv
BY DEF Init, IndInv, Types, Labels, WaitingFits, LogReplays, LevelFits

\* The invariant of the vault, which every step keeps.
THEOREM VaultInvariant == Spec => []IndInv
BY InitIndInv, IndInvStep, PTL DEF Spec

\* LogReplays, for every number of calls and documents: the audit log is the history of
\* the vault, in whatever order the embeddings come.
THEOREM LogAlwaysReplays == Spec => []LogReplays
<1>1. IndInv => LogReplays
  BY DEF IndInv
<1>2. QED
  BY <1>1, VaultInvariant, PTL

\* LevelFits, likewise: no interleaving leaves a document with the level of a partition
\* it has been moved out of.
THEOREM LevelAlwaysFits == Spec => []LevelFits
<1>1. IndInv => LevelFits
  BY DEF IndInv
<1>2. QED
  BY <1>1, VaultInvariant, PTL

\* ResultsFit, for every query, every limit of the configuration and any number of calls:
\* whatever filters replace those of the search, what a retrieval returns is within the
\* level, the sector, the depth and the number it was asked for.
THEOREM ResultsAlwaysFit == Spec => []ResultsFit
<1>1. Init => Answered
  BY DEF Init, Answered
<1>2. IndInv /\ Answered => ResultsFit
  <2> SUFFICES ASSUME Answered, NEW c \in Calls, result[c] # None
               PROVE  /\ Len(result[c]) <= OrElse(input[c].query.maxResults, MaxResults)
                      /\ Distinct(result[c])
                      /\ \A i \in DOMAIN result[c] : Suits(result[c][i], input[c].query)
    BY DEF ResultsFit
  <2>1. input[c] \in Inputs /\ input[c].op = "retrieve" /\ result[c] = Retrieve(input[c].query)
    BY DEF Answered
  <2>2. input[c].query.maxResults \in Nat \cup {None}
    BY <2>1, VaultAssumption
  <2>3. QED
    BY <2>1, <2>2, RetrieveFits
<1>3. QED
  BY <1>1, <1>2, AnsweredStep, VaultInvariant, PTL DEF Spec

-------------------------------------------------------------------------------
(* The resolver: the files and the index.                                 *)

Stages == {"idle", "loading", "ready", "done", "failed"}

IsSequence(s) == s \in Seq(ToSet(s))

ResolverTypes ==
    /\ world \in Worlds
    /\ frozen \in BOOLEAN /\ initialized = frozen
    /\ index = [crosswalk \in Crosswalks |-> index[crosswalk]]
    /\ \A crosswalk \in Crosswalks : IsSequence(index[crosswalk])
    /\ stage \in [Lookups -> Stages]
    /\ loading \in [Lookups -> SUBSET Crosswalks]
    /\ rejected \in [Lookups -> BOOLEAN]
    /\ DOMAIN answer = Lookups

\* Nothing comes into the index but rows of the files.
IndexSound == \A crosswalk \in Crosswalks : ToSet(index[crosswalk]) \subseteq Files(crosswalk)

\* The files that a lookup no longer waits for are there, unless it has been rejected.
LoadsKept ==
    \A l \in Lookups : stage[l] = "loading" /\ ~ rejected[l] =>
        \A crosswalk \in Configured \ loading[l] : Files(crosswalk) \subseteq ToSet(index[crosswalk])

\* Once the index is frozen it holds all of them.
FrozenComplete == frozen => \A crosswalk \in Crosswalks : Files(crosswalk) \subseteq ToSet(index[crosswalk])

\* Who asks the index asks the frozen one, and so does who has asked.
FrozenAsked ==
    /\ \A l \in Lookups : stage[l] = "ready" => frozen
    /\ \A l \in Lookups : \/ answer[l] = NoAnswer
                          \/ frozen /\ answer[l] = TraverseToLicensure(world.db, index)

ResolverInv == ResolverTypes /\ IndexSound /\ LoadsKept /\ FrozenComplete /\ FrozenAsked

\* The elements of two sequences, one behind the other.
LEMMA ConcatElements ==
    ASSUME NEW s, IsSequence(s), NEW t, IsSequence(t)
    PROVE  IsSequence(s \o t) /\ ToSet(s \o t) = ToSet(s) \cup ToSet(t)
<1>1. PICK S : S = ToSet(s) \cup ToSet(t)
  OBVIOUS
<1>2. s \in Seq(S) /\ t \in Seq(S)
  BY <1>1 DEF IsSequence
<1>3. PICK u : u = s \o t
  OBVIOUS
<1>4. /\ u \in Seq(S) /\ Len(u) = Len(s) + Len(t) /\ Len(s) \in Nat /\ Len(t) \in Nat
      /\ DOMAIN u = 1 .. Len(u) /\ DOMAIN s = 1 .. Len(s) /\ DOMAIN t = 1 .. Len(t)
      /\ \A i \in 1 .. Len(s) : u[i] = s[i]
      /\ \A i \in 1 .. Len(t) : u[Len(s) + i] = t[i]
  BY <1>2, <1>3
<1>5. ToSet(s) \subseteq ToSet(u)
  <2>1. \A i \in DOMAIN s : i \in DOMAIN u /\ u[i] = s[i]
    BY <1>4
  <2>2. QED
    BY <2>1 DEF ToSet
<1>6. ToSet(t) \subseteq ToSet(u)
  <2>1. \A i \in DOMAIN t : Len(s) + i \in DOMAIN u /\ u[Len(s) + i] = t[i]
    BY <1>4
  <2>2. QED
    BY <2>1 DEF ToSet
<1>7. ToSet(u) \subseteq S /\ IsSequence(u)
  BY <1>4, ElementsOf DEF IsSequence
<1>8. QED
  BY <1>1, <1>3, <1>5, <1>6, <1>7

\* The rows of the files.
LEMMA FileTypes ==
    ASSUME world \in Worlds
    PROVE  /\ Configured \subseteq Crosswalks
           /\ \A crosswalk \in Configured : IsSequence(world.files[crosswalk])
                                            /\ Files(crosswalk) = ToSet(world.files[crosswalk])
           /\ \A crosswalk \in Crosswalks \ Configured : Files(crosswalk) = {}
BY UcoResolverAssumption DEF Configured, Files, IsSequence

\* A step that changes neither the world nor the index, and lets no load pass for done.
LEMMA IndexKept ==
    ASSUME ResolverInv, ResolverTypes', UNCHANGED <<world, index>>, frozen => frozen',
           frozen' => FrozenComplete',
           \A l \in Lookups : /\ stage'[l] = "loading" /\ ~ rejected'[l] =>
                                    \/ Configured \subseteq loading'[l]
                                    \/ stage[l] = "loading" /\ ~ rejected[l] /\ loading'[l] = loading[l]
                              /\ stage'[l] = "ready" => stage[l] = "ready" \/ frozen'
                              /\ \/ answer'[l] = answer[l]
                                 \/ frozen' /\ answer'[l] = TraverseToLicensure(world.db, index)
    PROVE  ResolverInv'
<1>1. Configured' = Configured /\ \A crosswalk : Files(crosswalk)' = Files(crosswalk)
  BY DEF Configured, Files
<1>2. IndexSound'
  BY <1>1 DEF ResolverInv, IndexSound
<1>3. LoadsKept'
  BY <1>1 DEF ResolverInv, LoadsKept
<1>4. FrozenComplete'
  BY DEF FrozenComplete
<1>5. FrozenAsked'
  BY DEF ResolverInv, FrozenAsked
<1>6. QED
  BY <1>2, <1>3, <1>4, <1>5 DEF ResolverInv

LEMMA LoadedStep ==
    ASSUME ResolverInv, NEW l \in Lookups, NEW crosswalk \in Configured, Loaded(l, crosswalk)
    PROVE  ResolverInv'
<1> USE DEF ResolverInv
<1>1. PICK rows : rows = world.files[crosswalk]
  OBVIOUS
<1>2. /\ Configured' = Configured /\ \A other : Files(other)' = Files(other)
      /\ crosswalk \in Crosswalks /\ Configured \subseteq Crosswalks
      /\ IsSequence(rows) /\ Files(crosswalk) = ToSet(rows)
  BY <1>1, FileTypes DEF Loaded, Ends, Configured, Files, ResolverTypes
<1>3. /\ loading' = [loading EXCEPT ![l] = @ \ {crosswalk}]
      /\ UNCHANGED <<world, initialized, frozen, stage, answer>>
  BY DEF Loaded, Ends
<1>4. CASE frozen /\ rows # <<>>
  <2>1. rejected' = [rejected EXCEPT ![l] = TRUE] /\ index' = index
    BY <1>1, <1>4 DEF Loaded
  <2>2. ResolverTypes'
    BY <1>3, <2>1 DEF ResolverTypes
  <2>3. \A m \in Lookups : stage'[m] = "loading" /\ ~ rejected'[m] =>
                              stage[m] = "loading" /\ ~ rejected[m] /\ loading'[m] = loading[m]
    BY <1>3, <2>1 DEF ResolverTypes
  <2>4. FrozenComplete'
    BY <1>2, <1>3, <2>1 DEF FrozenComplete
  <2>5. QED
    BY <1>3, <2>1, <2>2, <2>3, <2>4, IndexKept DEF FrozenAsked
<1>5. CASE ~ (frozen /\ rows # <<>>)
  <2>1. index' = [index EXCEPT ![crosswalk] = @ \o rows] /\ rejected' = rejected
    BY <1>1, <1>5 DEF Loaded
  <2>2. PICK more : more = index[crosswalk] \o rows
    OBVIOUS
  <2>3. IsSequence(more) /\ ToSet(more) = ToSet(index[crosswalk]) \cup ToSet(rows)
    BY <1>2, <2>2, ConcatElements DEF ResolverTypes
  <2>4. /\ DOMAIN index' = Crosswalks /\ index'[crosswalk] = more
        /\ \A other \in Crosswalks \ {crosswalk} : index'[other] = index[other]
    BY <1>2, <2>1, <2>2 DEF ResolverTypes
  <2>5. ResolverTypes'
    <3>1. \A other \in Crosswalks : IsSequence(index'[other])
      BY <2>3, <2>4 DEF ResolverTypes
    <3>2. index' = [other \in Crosswalks |-> index'[other]]
      BY <2>1 DEF ResolverTypes
    <3>3. QED
      BY <1>3, <2>1, <3>1, <3>2 DEF ResolverTypes
  <2>6. IndexSound'
    BY <1>2, <2>3, <2>4 DEF IndexSound
  <2>7. \A other \in Crosswalks : ToSet(index[other]) \subseteq ToSet(index'[other])
    BY <2>3, <2>4
  <2>8. LoadsKept'
    <3>1. ASSUME NEW m \in Lookups, stage'[m] = "loading", ~ rejected'[m],
                 NEW other \in Configured, other \notin loading'[m]
          PROVE  Files(other) \subseteq ToSet(index'[other])
      <4>1. CASE m = l /\ other = crosswalk
        BY <1>2, <2>3, <2>4, <4>1
      <4>2. CASE ~ (m = l /\ other = crosswalk)
        <5>1. stage[m] = "loading" /\ ~ rejected[m] /\ other \notin loading[m]
          BY <1>3, <2>1, <3>1, <4>2 DEF ResolverTypes
        <5>2. Files(other) \subseteq ToSet(index[other])
          BY <3>1, <5>1 DEF LoadsKept
        <5>3. QED
          BY <1>2, <2>7, <5>2
      <4>3. QED
        BY <4>1, <4>2
    <3>2. QED
      BY <1>2, <3>1 DEF LoadsKept
  <2>9. FrozenComplete'
    BY <1>2, <1>3, <2>7 DEF FrozenComplete
  <2>10. frozen => index' = index
    <3>1. ASSUME frozen PROVE more = index[crosswalk]
      <4>1. PICK S : index[crosswalk] \in Seq(S)
        BY <1>2 DEF ResolverTypes, IsSequence
      <4>2. QED
        BY <1>5, <2>2, <3>1, <4>1
    <3>2. QED
      BY <2>1, <2>2, <2>4, <3>1 DEF ResolverTypes
  <2>11. FrozenAsked'
    BY <1>3, <2>10 DEF FrozenAsked
  <2>12. QED
    BY <2>5, <2>6, <2>8, <2>9, <2>11
<1>6. QED
  BY <1>4, <1>5

LEMMA ResolverStep == ResolverInv /\ [ResolverNext]_resolverVars => ResolverInv'
<1> SUFFICES ASSUME ResolverInv, [ResolverNext]_resolverVars PROVE ResolverInv'
  OBVIOUS
<1> USE DEF Enter
<1>0. ResolverTypes /\ (frozen => FrozenComplete)
  BY DEF ResolverInv
<1>1. UNCHANGED <<world, index, frozen>> => (frozen' => FrozenComplete')
  BY <1>0 DEF FrozenComplete, Files, Configured
<1>2. ASSUME NEW l \in Lookups, Start(l) PROVE ResolverInv'
  <2>1. ResolverTypes'
    BY <1>0, <1>2, FileTypes DEF Start, ResolverTypes, Stages
  <2>2. \A m \in Lookups : /\ stage'[m] = "loading" /\ ~ rejected'[m] =>
                                \/ Configured \subseteq loading'[m]
                                \/ stage[m] = "loading" /\ ~ rejected[m] /\ loading'[m] = loading[m]
                           /\ stage'[m] = "ready" => stage[m] = "ready" \/ frozen'
    BY <1>0, <1>2 DEF Start, ResolverTypes
  <2>3. Configured' = Configured /\ UNCHANGED <<world, index, frozen, answer>>
    BY <1>2 DEF Start, Configured
  <2>4. QED
    BY <1>1, <2>1, <2>2, <2>3, IndexKept
<1>3. ASSUME NEW l \in Lookups, NEW crosswalk \in Configured, Loaded(l, crosswalk) PROVE ResolverInv'
  BY <1>3, LoadedStep
<1>4. ASSUME NEW l \in Lookups, NEW crosswalk \in Configured, LoadFails(l, crosswalk) PROVE ResolverInv'
  <2>1. ResolverTypes'
    BY <1>0, <1>4 DEF LoadFails, Ends, ResolverTypes
  <2>2. \A m \in Lookups : stage'[m] = "loading" /\ ~ rejected'[m] =>
                              stage[m] = "loading" /\ ~ rejected[m] /\ loading'[m] = loading[m]
    BY <1>0, <1>4 DEF LoadFails, Ends, ResolverTypes
  <2>3. UNCHANGED <<world, index, frozen, stage, answer>>
    BY <1>4 DEF LoadFails, Ends
  <2>4. QED
    BY <1>1, <2>1, <2>2, <2>3, IndexKept
<1>5. ASSUME NEW l \in Lookups, Reject(l) PROVE ResolverInv'
  <2>1. ResolverTypes'
    BY <1>0, <1>5 DEF Reject, ResolverTypes, Stages
  <2>2. \A m \in Lookups : /\ stage'[m] = "loading" => stage[m] = "loading"
                           /\ stage'[m] = "ready" => stage[m] = "ready"
    BY <1>0, <1>5 DEF Reject, ResolverTypes
  <2>3. UNCHANGED <<world, index, frozen, loading, rejected, answer>>
    BY <1>5 DEF Reject
  <2>4. QED
    BY <1>1, <2>1, <2>2, <2>3, IndexKept
<1>6. ASSUME NEW l \in Lookups, Initialized(l) PROVE ResolverInv'
  <2>1. ResolverTypes'
    BY <1>0, <1>6 DEF Initialized, ResolverTypes, Stages
  <2>2. \A m \in Lookups : stage'[m] = "loading" => stage[m] = "loading"
    BY <1>0, <1>6 DEF Initialized, ResolverTypes
  <2>3. UNCHANGED <<world, index, loading, rejected, answer>> /\ frozen'
    BY <1>6 DEF Initialized
  <2>4. \A crosswalk \in Crosswalks : Files(crosswalk) \subseteq ToSet(index[crosswalk])
    <3>1. TAKE crosswalk \in Crosswalks
    <3>2. CASE crosswalk \in Configured
      BY <1>6, <3>2 DEF Initialized, ResolverInv, LoadsKept
    <3>3. CASE crosswalk \notin Configured
      BY <1>0, <3>3, FileTypes DEF ResolverTypes
    <3>4. QED
      BY <3>2, <3>3
  <2>5. FrozenComplete'
    BY <2>3, <2>4 DEF FrozenComplete, Files, Configured
  <2>6. QED
    BY <2>1, <2>2, <2>3, <2>5, IndexKept
<1>7. ASSUME NEW l \in Lookups, AnswerLookup(l) PROVE ResolverInv'
  <2>1. ResolverTypes'
    BY <1>0, <1>7 DEF AnswerLookup, ResolverTypes, Stages
  <2>2. UNCHANGED <<world, index, frozen, loading, rejected>> /\ frozen
    BY <1>7 DEF AnswerLookup, ResolverInv, FrozenAsked
  <2>3. \A m \in Lookups : /\ stage'[m] = "loading" => stage[m] = "loading"
                           /\ stage'[m] = "ready" => stage[m] = "ready"
    BY <1>0, <1>7 DEF AnswerLookup, ResolverTypes
  <2>4. PICK found : found = TraverseToLicensure(world.db, index)
    OBVIOUS
  <2>5. \A m \in Lookups : answer'[m] = answer[m] \/ answer'[m] = found
    BY <1>0, <1>7, <2>4 DEF AnswerLookup, ResolverTypes
  <2>6. QED
    BY <1>1, <2>1, <2>2, <2>3, <2>4, <2>5, IndexKept
<1>8. ASSUME NEW l \in Lookups, AnswerWithErrors(l) PROVE ResolverInv'
  <2>1. ResolverTypes'
    BY <1>0, <1>8 DEF AnswerWithErrors, ResolverTypes, Stages
  <2>2. \A m \in Lookups : /\ stage'[m] = "loading" => stage[m] = "loading"
                           /\ stage'[m] = "ready" => stage[m] = "ready"
    BY <1>0, <1>8 DEF AnswerWithErrors, ResolverTypes
  <2>3. UNCHANGED <<world, index, frozen, loading, rejected, answer>>
    BY <1>8 DEF AnswerWithErrors
  <2>4. QED
    BY <1>1, <2>1, <2>2, <2>3, IndexKept
<1>9. CASE UNCHANGED resolverVars
  <2>1. ResolverTypes'
    BY <1>0, <1>9 DEF resolverVars, ResolverTypes
  <2>2. QED
    BY <1>1, <1>9, <2>1, IndexKept DEF resolverVars
<1>10. QED
  BY <1>2, <1>3, <1>4, <1>5, <1>6, <1>7, <1>8, <1>9 DEF ResolverNext, Read, Continue

LEMMA ResolverInitially == ResolverInit => ResolverInv
<1> SUFFICES ASSUME ResolverInit PROVE ResolverInv
  OBVIOUS
<1>1. IsSequence(<<>>) /\ ToSet(<<>>) = {}
  BY DEF IsSequence, ToSet
<1>2. QED
  BY <1>1 DEF ResolverInit, ResolverInv, ResolverTypes, Stages, IndexSound, LoadsKept, FrozenComplete, FrozenAsked

\* Whatever loads overlap or fail, the index that is asked holds the rows of the files,
\* all of them and no others.
THEOREM ResolverInvariant == ResolverSpec => []ResolverInv
BY ResolverInitially, ResolverStep, PTL DEF ResolverSpec

-------------------------------------------------------------------------------
(* What the folds of the traversal make of the first n elements.           *)

\* The rows of one code that are found among the first n of them, for each n.
IsRowsRun(f, maps, crosswalk, from) ==
    /\ f \in [0 .. Len(maps[crosswalk]) -> Seq({ row \in ToSet(maps[crosswalk]) : row.from = from })]
    /\ f[0] = <<>> /\ f[Len(maps[crosswalk])] = Rows(maps, crosswalk, from)
    /\ \A n \in 1 .. Len(maps[crosswalk]) :
          LET x == maps[crosswalk][n]
              acc == f[n - 1]
          IN  f[n] = IF x.from = from THEN Append(acc, x) ELSE acc

LEMMA RowsUnfold ==
    ASSUME NEW maps, NEW crosswalk, NEW from, IsSequence(maps[crosswalk])
    PROVE  \E f : IsRowsRun(f, maps, crosswalk, from)
<1> DEFINE Op(acc, x) == IF x.from = from THEN Append(acc, x) ELSE acc
<1>0. PICK N, V, first, s :
         /\ N = Len(maps[crosswalk])
         /\ V = Seq({ row \in ToSet(maps[crosswalk]) : row.from = from })
         /\ first = <<>>
         /\ s = maps[crosswalk]
  OBVIOUS
<1> DEFINE E(f) == [t \in SUBSET DOMAIN s |->
                       IF t = {} THEN first ELSE LET x == Max(t) IN Op(f[t \ {x}], s[x])]
<1>1. /\ N \in Nat /\ DOMAIN s = 1 .. N /\ N = Len(s)
      /\ \A n \in 1 .. N : s[n] \in ToSet(maps[crosswalk])
  BY <1>0 DEF ToSet, IsSequence
<1>2. first \in V
  BY <1>0
<1>3. ASSUME NEW v \in V, NEW n \in 1 .. N PROVE Op(v, s[n]) \in V
  BY <1>0, <1>1
<1>4. PICK step : step = [p \in (1 .. N) \X V |-> Op(p[2], s[p[1]])]
  OBVIOUS
<1> HIDE DEF Op
<1>5. step \in Steps(N, V)
  BY <1>3, <1>4 DEF Steps
<1>6. \A n \in 1 .. N : \A v \in V : step[<<n, v>>] = Op(v, s[n])
  BY <1>4
<1>7. PICK it : IsFold(it, N, V, first, step)
  BY <1>1, <1>2, <1>5, FoldExists
<1>8. it = E(it)
  <2>1. ASSUME NEW t \in SUBSET (1 .. N), t # {}
        PROVE  it[t] = Op(it[t \ {Max(t)}], s[Max(t)])
    <3>1. PICK x : x = Max(t)
      OBVIOUS
    <3>2. x \in 1 .. N /\ t \ {x} \in SUBSET (1 .. N)
      BY <1>1, <2>1, <3>1, Greatest
    <3>3. it[t \ {x}] \in V
      BY <1>7, <3>2 DEF IsFold
    <3>4. it[t] = step[<<x, it[t \ {x}]>>]
      BY <1>7, <2>1, <3>1 DEF IsFold
    <3>5. QED
      BY <1>6, <3>1, <3>2, <3>3, <3>4
  <2>2. QED
    BY <1>1, <1>7, <2>1 DEF IsFold
<1>9. PICK g : g = CHOOSE f : f = E(f)
  OBVIOUS
<1>10. g = E(g)
  <2> HIDE DEF E
  <2>1. QED
    BY <1>8, <1>9
<1>11. Rows(maps, crosswalk, from) = g[1 .. N]
  BY <1>0, <1>1, <1>9 DEF Rows, FoldLeft, MapThenFoldSet, Op
<1>12. g[{}] = first
  BY <1>10
<1>13. ASSUME NEW n \in 1 .. N, g[1 .. (n - 1)] \in V
       PROVE  g[1 .. n] = step[<<n, g[1 .. (n - 1)]>>]
  <2>1. n \in Nat \ {0} /\ 1 .. n \in SUBSET DOMAIN s
    BY <1>1
  <2>2. Max(1 .. n) = n /\ (1 .. n) \ {n} = 1 .. (n - 1) /\ 1 .. n # {}
    BY <2>1, Places
  <2>3. g[1 .. n] = Op(g[1 .. (n - 1)], s[n])
    BY <1>10, <2>1, <2>2
  <2>4. QED
    BY <1>6, <1>13, <2>3
<1>14. PICK f : IsRun(f, N, V, first, step) /\ f[N] = g[1 .. N]
  <2>1. \A n \in 1 .. N : g[1 .. (n - 1)] \in V => g[1 .. n] = step[<<n, g[1 .. (n - 1)]>>]
    BY <1>13
  <2>2. QED
    BY <1>1, <1>2, <1>5, <1>12, <2>1, FoldSteps
<1>15. ASSUME NEW n \in 1 .. N PROVE f[n] = Op(f[n - 1], s[n])
  <2>1. f[n - 1] \in V
    BY <1>1, <1>14 DEF IsRun
  <2>2. QED
    BY <1>6, <1>14, <2>1 DEF IsRun
<1>16. \A n \in 1 .. Len(maps[crosswalk]) : f[n] = Op(f[n - 1], maps[crosswalk][n])
  BY <1>0, <1>15
<1>17. /\ f \in [0 .. Len(maps[crosswalk]) -> Seq({ row \in ToSet(maps[crosswalk]) : row.from = from })]
       /\ f[0] = <<>>
       /\ f[Len(maps[crosswalk])] = Rows(maps, crosswalk, from)
  BY <1>0, <1>11, <1>14 DEF IsRun
<1>18. IsRowsRun(f, maps, crosswalk, from)
  BY <1>16, <1>17 DEF Op, IsRowsRun
<1>19. QED
  BY <1>18

\* What has been appended of the first n codes.
IsExtendRun(f, codes, more) ==
    /\ f \in [0 .. Len(more) -> Seq(ToSet(codes) \cup ToSet(more))]
    /\ f[0] = codes /\ f[Len(more)] = Extend(codes, more)
    /\ \A n \in 1 .. Len(more) :
          LET x == more[n]
              acc == f[n - 1]
          IN  f[n] = IF Has(acc, x.code) THEN acc ELSE Append(acc, x)

LEMMA ExtendUnfolds ==
    ASSUME NEW codes, IsSequence(codes), NEW more, IsSequence(more)
    PROVE  \E f : IsExtendRun(f, codes, more)
<1> DEFINE Op(acc, x) == IF Has(acc, x.code) THEN acc ELSE Append(acc, x)
<1>0. PICK N, V, first, s :
         /\ N = Len(more)
         /\ V = Seq(ToSet(codes) \cup ToSet(more))
         /\ first = codes
         /\ s = more
  OBVIOUS
<1> DEFINE E(f) == [t \in SUBSET DOMAIN s |->
                       IF t = {} THEN first ELSE LET x == Max(t) IN Op(f[t \ {x}], s[x])]
<1>1. /\ N \in Nat /\ DOMAIN s = 1 .. N /\ N = Len(s)
      /\ \A n \in 1 .. N : s[n] \in ToSet(more)
  BY <1>0 DEF ToSet, IsSequence
<1>2. first \in V
  BY <1>0 DEF IsSequence
<1>3. ASSUME NEW v \in V, NEW n \in 1 .. N PROVE Op(v, s[n]) \in V
  BY <1>0, <1>1
<1>4. PICK step : step = [p \in (1 .. N) \X V |-> Op(p[2], s[p[1]])]
  OBVIOUS
<1> HIDE DEF Op
<1>5. step \in Steps(N, V)
  BY <1>3, <1>4 DEF Steps
<1>6. \A n \in 1 .. N : \A v \in V : step[<<n, v>>] = Op(v, s[n])
  BY <1>4
<1>7. PICK it : IsFold(it, N, V, first, step)
  BY <1>1, <1>2, <1>5, FoldExists
<1>8. it = E(it)
  <2>1. ASSUME NEW t \in SUBSET (1 .. N), t # {}
        PROVE  it[t] = Op(it[t \ {Max(t)}], s[Max(t)])
    <3>1. PICK x : x = Max(t)
      OBVIOUS
    <3>2. x \in 1 .. N /\ t \ {x} \in SUBSET (1 .. N)
      BY <1>1, <2>1, <3>1, Greatest
    <3>3. it[t \ {x}] \in V
      BY <1>7, <3>2 DEF IsFold
    <3>4. it[t] = step[<<x, it[t \ {x}]>>]
      BY <1>7, <2>1, <3>1 DEF IsFold
    <3>5. QED
      BY <1>6, <3>1, <3>2, <3>3, <3>4
  <2>2. QED
    BY <1>1, <1>7, <2>1 DEF IsFold
<1>9. PICK g : g = CHOOSE f : f = E(f)
  OBVIOUS
<1>10. g = E(g)
  <2> HIDE DEF E
  <2>1. QED
    BY <1>8, <1>9
<1>11. Extend(codes, more) = g[1 .. N]
  BY <1>0, <1>1, <1>9 DEF Extend, FoldLeft, MapThenFoldSet, Op
<1>12. g[{}] = first
  BY <1>10
<1>13. ASSUME NEW n \in 1 .. N, g[1 .. (n - 1)] \in V
       PROVE  g[1 .. n] = step[<<n, g[1 .. (n - 1)]>>]
  <2>1. n \in Nat \ {0} /\ 1 .. n \in SUBSET DOMAIN s
    BY <1>1
  <2>2. Max(1 .. n) = n /\ (1 .. n) \ {n} = 1 .. (n - 1) /\ 1 .. n # {}
    BY <2>1, Places
  <2>3. g[1 .. n] = Op(g[1 .. (n - 1)], s[n])
    BY <1>10, <2>1, <2>2
  <2>4. QED
    BY <1>6, <1>13, <2>3
<1>14. PICK f : IsRun(f, N, V, first, step) /\ f[N] = g[1 .. N]
  <2>1. \A n \in 1 .. N : g[1 .. (n - 1)] \in V => g[1 .. n] = step[<<n, g[1 .. (n - 1)]>>]
    BY <1>13
  <2>2. QED
    BY <1>1, <1>2, <1>5, <1>12, <2>1, FoldSteps
<1>15. ASSUME NEW n \in 1 .. N PROVE f[n] = Op(f[n - 1], s[n])
  <2>1. f[n - 1] \in V
    BY <1>1, <1>14 DEF IsRun
  <2>2. QED
    BY <1>6, <1>14, <2>1 DEF IsRun
<1>16. \A n \in 1 .. Len(more) : f[n] = Op(f[n - 1], more[n])
  BY <1>0, <1>15
<1>17. /\ f \in [0 .. Len(more) -> Seq(ToSet(codes) \cup ToSet(more))]
       /\ f[0] = codes
       /\ f[Len(more)] = Extend(codes, more)
  BY <1>0, <1>11, <1>14 DEF IsRun
<1>18. IsExtendRun(f, codes, more)
  BY <1>16, <1>17 DEF Op, IsExtendRun
<1>19. QED
  BY <1>18

\* What the first n occupations lead to; the elements are of a set E.
IsSocRun(f, db, maps, Codomain) ==
    /\ f \in [0 .. Len(TraverseCipToSoc(db, maps)) -> Seq(Codomain)]
    /\ f[0] = <<>> /\ f[Len(TraverseCipToSoc(db, maps))] = TraverseSocToNaics(db, maps)
    /\ \A n \in 1 .. Len(TraverseCipToSoc(db, maps)) :
          LET x == TraverseCipToSoc(db, maps)[n]
              acc == f[n - 1]
          IN  f[n] = FromSoc(db, maps, acc, x)

LEMMA SocToNaicsUnfolds ==
    ASSUME NEW db, NEW maps, NEW Codomain, IsSequence(TraverseCipToSoc(db, maps)),
           \A soc \in ToSet(TraverseCipToSoc(db, maps)) : \A acc \in Seq(Codomain) :
              FromSoc(db, maps, acc, soc) \in Seq(Codomain)
    PROVE  \E f : IsSocRun(f, db, maps, Codomain)
<1> DEFINE Op(acc, x) == FromSoc(db, maps, acc, x)
<1>0. PICK N, V, first, s :
         /\ N = Len(TraverseCipToSoc(db, maps))
         /\ V = Seq(Codomain)
         /\ first = <<>>
         /\ s = TraverseCipToSoc(db, maps)
  OBVIOUS
<1> DEFINE E(f) == [t \in SUBSET DOMAIN s |->
                       IF t = {} THEN first ELSE LET x == Max(t) IN Op(f[t \ {x}], s[x])]
<1>1. /\ N \in Nat /\ DOMAIN s = 1 .. N /\ N = Len(s)
      /\ \A n \in 1 .. N : s[n] \in ToSet(TraverseCipToSoc(db, maps))
  BY <1>0 DEF ToSet, IsSequence
<1>2. first \in V
  BY <1>0
<1>3. ASSUME NEW v \in V, NEW n \in 1 .. N PROVE Op(v, s[n]) \in V
  BY <1>0, <1>1
<1>4. PICK step : step = [p \in (1 .. N) \X V |-> Op(p[2], s[p[1]])]
  OBVIOUS
<1> HIDE DEF Op
<1>5. step \in Steps(N, V)
  BY <1>3, <1>4 DEF Steps
<1>6. \A n \in 1 .. N : \A v \in V : step[<<n, v>>] = Op(v, s[n])
  BY <1>4
<1>7. PICK it : IsFold(it, N, V, first, step)
  BY <1>1, <1>2, <1>5, FoldExists
<1>8. it = E(it)
  <2>1. ASSUME NEW t \in SUBSET (1 .. N), t # {}
        PROVE  it[t] = Op(it[t \ {Max(t)}], s[Max(t)])
    <3>1. PICK x : x = Max(t)
      OBVIOUS
    <3>2. x \in 1 .. N /\ t \ {x} \in SUBSET (1 .. N)
      BY <1>1, <2>1, <3>1, Greatest
    <3>3. it[t \ {x}] \in V
      BY <1>7, <3>2 DEF IsFold
    <3>4. it[t] = step[<<x, it[t \ {x}]>>]
      BY <1>7, <2>1, <3>1 DEF IsFold
    <3>5. QED
      BY <1>6, <3>1, <3>2, <3>3, <3>4
  <2>2. QED
    BY <1>1, <1>7, <2>1 DEF IsFold
<1>9. PICK g : g = CHOOSE f : f = E(f)
  OBVIOUS
<1>10. g = E(g)
  <2> HIDE DEF E
  <2>1. QED
    BY <1>8, <1>9
<1>11. TraverseSocToNaics(db, maps) = g[1 .. N]
  BY <1>0, <1>1, <1>9 DEF TraverseSocToNaics, FoldLeft, MapThenFoldSet, Op
<1>12. g[{}] = first
  BY <1>10
<1>13. ASSUME NEW n \in 1 .. N, g[1 .. (n - 1)] \in V
       PROVE  g[1 .. n] = step[<<n, g[1 .. (n - 1)]>>]
  <2>1. n \in Nat \ {0} /\ 1 .. n \in SUBSET DOMAIN s
    BY <1>1
  <2>2. Max(1 .. n) = n /\ (1 .. n) \ {n} = 1 .. (n - 1) /\ 1 .. n # {}
    BY <2>1, Places
  <2>3. g[1 .. n] = Op(g[1 .. (n - 1)], s[n])
    BY <1>10, <2>1, <2>2
  <2>4. QED
    BY <1>6, <1>13, <2>3
<1>14. PICK f : IsRun(f, N, V, first, step) /\ f[N] = g[1 .. N]
  <2>1. \A n \in 1 .. N : g[1 .. (n - 1)] \in V => g[1 .. n] = step[<<n, g[1 .. (n - 1)]>>]
    BY <1>13
  <2>2. QED
    BY <1>1, <1>2, <1>5, <1>12, <2>1, FoldSteps
<1>15. ASSUME NEW n \in 1 .. N PROVE f[n] = Op(f[n - 1], s[n])
  <2>1. f[n - 1] \in V
    BY <1>1, <1>14 DEF IsRun
  <2>2. QED
    BY <1>6, <1>14, <2>1 DEF IsRun
<1>16. \A n \in 1 .. Len(TraverseCipToSoc(db, maps)) : f[n] = Op(f[n - 1], TraverseCipToSoc(db, maps)[n])
  BY <1>0, <1>15
<1>17. /\ f \in [0 .. Len(TraverseCipToSoc(db, maps)) -> Seq(Codomain)]
       /\ f[0] = <<>>
       /\ f[Len(TraverseCipToSoc(db, maps))] = TraverseSocToNaics(db, maps)
  BY <1>0, <1>11, <1>14 DEF IsRun
<1>18. IsSocRun(f, db, maps, Codomain)
  BY <1>16, <1>17 DEF Op, IsSocRun
<1>19. QED
  BY <1>18

\* The best mappings of the first n.
IsBestRun(f, codes) ==
    /\ f \in [0 .. Len(codes) -> Seq(ToSet(codes))]
    /\ f[0] = <<>> /\ f[Len(codes)] = BestOfEach(codes)
    /\ \A n \in 1 .. Len(codes) :
          LET x == codes[n]
              acc == f[n - 1]
          IN  f[n] = IF ~ Has(acc, x.code) THEN Append(acc, x)
                     ELSE Apply(LAMBDA y : IF y.code = x.code /\ x.confidence > y.confidence
                                           THEN x ELSE y, acc)

LEMMA BestUnfolds ==
    ASSUME NEW codes, IsSequence(codes)
    PROVE  \E f : IsBestRun(f, codes)
<1> DEFINE Op(acc, x) == IF ~ Has(acc, x.code) THEN Append(acc, x)
                     ELSE Apply(LAMBDA y : IF y.code = x.code /\ x.confidence > y.confidence
                                           THEN x ELSE y, acc)
<1>0. PICK N, V, first, s :
         /\ N = Len(codes)
         /\ V = Seq(ToSet(codes))
         /\ first = <<>>
         /\ s = codes
  OBVIOUS
<1> DEFINE E(f) == [t \in SUBSET DOMAIN s |->
                       IF t = {} THEN first ELSE LET x == Max(t) IN Op(f[t \ {x}], s[x])]
<1>1. /\ N \in Nat /\ DOMAIN s = 1 .. N /\ N = Len(s)
      /\ \A n \in 1 .. N : s[n] \in ToSet(codes)
  BY <1>0 DEF ToSet, IsSequence
<1>2. first \in V
  BY <1>0
<1>3. ASSUME NEW v \in V, NEW n \in 1 .. N PROVE Op(v, s[n]) \in V
  <2>1. PICK x : x = s[n] /\ x \in ToSet(codes)
    BY <1>0, <1>1
  <2>2. CASE ~ Has(v, x.code)
    BY <1>0, <2>1, <2>2
  <2>3. CASE Has(v, x.code)
    <3>1. PICK u : u = [i \in DOMAIN v |-> IF v[i].code = x.code /\ x.confidence > v[i].confidence THEN x ELSE v[i]]
      OBVIOUS
    <3>2. v \in Seq(ToSet(codes)) /\ DOMAIN v = 1 .. Len(v) /\ Len(v) \in Nat
      BY <1>0
    <3>3. u \in [1 .. Len(v) -> ToSet(codes)]
      BY <2>1, <3>1, <3>2
    <3>4. u \in V
      BY <1>0, <3>2, <3>3
    <3>5. Op(v, s[n]) = u
      BY <2>1, <2>3, <3>1 DEF Apply
    <3>6. QED
      BY <3>4, <3>5
  <2>4. QED
    BY <2>2, <2>3
<1>4. PICK step : step = [p \in (1 .. N) \X V |-> Op(p[2], s[p[1]])]
  OBVIOUS
<1> HIDE DEF Op
<1>5. step \in Steps(N, V)
  BY <1>3, <1>4 DEF Steps
<1>6. \A n \in 1 .. N : \A v \in V : step[<<n, v>>] = Op(v, s[n])
  BY <1>4
<1>7. PICK it : IsFold(it, N, V, first, step)
  BY <1>1, <1>2, <1>5, FoldExists
<1>8. it = E(it)
  <2>1. ASSUME NEW t \in SUBSET (1 .. N), t # {}
        PROVE  it[t] = Op(it[t \ {Max(t)}], s[Max(t)])
    <3>1. PICK x : x = Max(t)
      OBVIOUS
    <3>2. x \in 1 .. N /\ t \ {x} \in SUBSET (1 .. N)
      BY <1>1, <2>1, <3>1, Greatest
    <3>3. it[t \ {x}] \in V
      BY <1>7, <3>2 DEF IsFold
    <3>4. it[t] = step[<<x, it[t \ {x}]>>]
      BY <1>7, <2>1, <3>1 DEF IsFold
    <3>5. QED
      BY <1>6, <3>1, <3>2, <3>3, <3>4
  <2>2. QED
    BY <1>1, <1>7, <2>1 DEF IsFold
<1>9. PICK g : g = CHOOSE f : f = E(f)
  OBVIOUS
<1>10. g = E(g)
  <2> HIDE DEF E
  <2>1. QED
    BY <1>8, <1>9
<1>11. BestOfEach(codes) = g[1 .. N]
  BY <1>0, <1>1, <1>9 DEF BestOfEach, FoldLeft, MapThenFoldSet, Op
<1>12. g[{}] = first
  BY <1>10
<1>13. ASSUME NEW n \in 1 .. N, g[1 .. (n - 1)] \in V
       PROVE  g[1 .. n] = step[<<n, g[1 .. (n - 1)]>>]
  <2>1. n \in Nat \ {0} /\ 1 .. n \in SUBSET DOMAIN s
    BY <1>1
  <2>2. Max(1 .. n) = n /\ (1 .. n) \ {n} = 1 .. (n - 1) /\ 1 .. n # {}
    BY <2>1, Places
  <2>3. g[1 .. n] = Op(g[1 .. (n - 1)], s[n])
    BY <1>10, <2>1, <2>2
  <2>4. QED
    BY <1>6, <1>13, <2>3
<1>14. PICK f : IsRun(f, N, V, first, step) /\ f[N] = g[1 .. N]
  <2>1. \A n \in 1 .. N : g[1 .. (n - 1)] \in V => g[1 .. n] = step[<<n, g[1 .. (n - 1)]>>]
    BY <1>13
  <2>2. QED
    BY <1>1, <1>2, <1>5, <1>12, <2>1, FoldSteps
<1>15. ASSUME NEW n \in 1 .. N PROVE f[n] = Op(f[n - 1], s[n])
  <2>1. f[n - 1] \in V
    BY <1>1, <1>14 DEF IsRun
  <2>2. QED
    BY <1>6, <1>14, <2>1 DEF IsRun
<1>16. \A n \in 1 .. Len(codes) : f[n] = Op(f[n - 1], codes[n])
  BY <1>0, <1>15
<1>17. /\ f \in [0 .. Len(codes) -> Seq(ToSet(codes))]
       /\ f[0] = <<>>
       /\ f[Len(codes)] = BestOfEach(codes)
  BY <1>0, <1>11, <1>14 DEF IsRun
<1>18. IsBestRun(f, codes)
  BY <1>16, <1>17 DEF Op, IsBestRun
<1>19. QED
  BY <1>18

\* The first n paths, ranked.
IsRankRun(f, paths) ==
    /\ f \in [0 .. Len(paths) -> Seq(ToSet(paths))]
    /\ f[0] = <<>> /\ f[Len(paths)] = RankPaths(paths)
    /\ \A n \in 1 .. Len(paths) :
          LET x == paths[n]
              acc == f[n - 1]
          IN  f[n] = InsertAt(acc, 1 + Cardinality({ i \in DOMAIN acc : ~ RanksBefore(x, acc[i]) }), x)

LEMMA RankPathsUnfolds ==
    ASSUME NEW paths, IsSequence(paths)
    PROVE  \E f : IsRankRun(f, paths)
<1> DEFINE Op(acc, x) == InsertAt(acc, 1 + Cardinality({ i \in DOMAIN acc : ~ RanksBefore(x, acc[i]) }), x)
<1>0. PICK N, V, first, s :
         /\ N = Len(paths)
         /\ V = Seq(ToSet(paths))
         /\ first = <<>>
         /\ s = paths
  OBVIOUS
<1> DEFINE E(f) == [t \in SUBSET DOMAIN s |->
                       IF t = {} THEN first ELSE LET x == Max(t) IN Op(f[t \ {x}], s[x])]
<1>1. /\ N \in Nat /\ DOMAIN s = 1 .. N /\ N = Len(s)
      /\ \A n \in 1 .. N : s[n] \in ToSet(paths)
  BY <1>0 DEF ToSet, IsSequence
<1>2. first \in V
  BY <1>0
<1>3. ASSUME NEW v \in V, NEW n \in 1 .. N PROVE Op(v, s[n]) \in V
  <2>1. PICK x : x = s[n] /\ x \in ToSet(paths)
    BY <1>0, <1>1
  <2>2. PICK p : p = 1 + Cardinality({ i \in DOMAIN v : ~ RanksBefore(x, v[i]) })
    OBVIOUS
  <2>3. DOMAIN v = 1 .. Len(v) /\ Len(v) \in Nat
    BY <1>0
  <2>4. Cardinality({ i \in DOMAIN v : ~ RanksBefore(x, v[i]) }) \in 0 .. Len(v)
    BY <2>3, CountFits
  <2>5. p \in 1 .. (Len(v) + 1)
    BY <2>2, <2>3, <2>4
  <2>6. InsertAt(v, p, x) \in V
    BY <1>0, <2>1, <2>5, InsertIs
  <2>7. QED
    BY <2>1, <2>2, <2>6
<1>4. PICK step : step = [p \in (1 .. N) \X V |-> Op(p[2], s[p[1]])]
  OBVIOUS
<1> HIDE DEF Op
<1>5. step \in Steps(N, V)
  BY <1>3, <1>4 DEF Steps
<1>6. \A n \in 1 .. N : \A v \in V : step[<<n, v>>] = Op(v, s[n])
  BY <1>4
<1>7. PICK it : IsFold(it, N, V, first, step)
  BY <1>1, <1>2, <1>5, FoldExists
<1>8. it = E(it)
  <2>1. ASSUME NEW t \in SUBSET (1 .. N), t # {}
        PROVE  it[t] = Op(it[t \ {Max(t)}], s[Max(t)])
    <3>1. PICK x : x = Max(t)
      OBVIOUS
    <3>2. x \in 1 .. N /\ t \ {x} \in SUBSET (1 .. N)
      BY <1>1, <2>1, <3>1, Greatest
    <3>3. it[t \ {x}] \in V
      BY <1>7, <3>2 DEF IsFold
    <3>4. it[t] = step[<<x, it[t \ {x}]>>]
      BY <1>7, <2>1, <3>1 DEF IsFold
    <3>5. QED
      BY <1>6, <3>1, <3>2, <3>3, <3>4
  <2>2. QED
    BY <1>1, <1>7, <2>1 DEF IsFold
<1>9. PICK g : g = CHOOSE f : f = E(f)
  OBVIOUS
<1>10. g = E(g)
  <2> HIDE DEF E
  <2>1. QED
    BY <1>8, <1>9
<1>11. RankPaths(paths) = g[1 .. N]
  BY <1>0, <1>1, <1>9 DEF RankPaths, FoldLeft, MapThenFoldSet, Op
<1>12. g[{}] = first
  BY <1>10
<1>13. ASSUME NEW n \in 1 .. N, g[1 .. (n - 1)] \in V
       PROVE  g[1 .. n] = step[<<n, g[1 .. (n - 1)]>>]
  <2>1. n \in Nat \ {0} /\ 1 .. n \in SUBSET DOMAIN s
    BY <1>1
  <2>2. Max(1 .. n) = n /\ (1 .. n) \ {n} = 1 .. (n - 1) /\ 1 .. n # {}
    BY <2>1, Places
  <2>3. g[1 .. n] = Op(g[1 .. (n - 1)], s[n])
    BY <1>10, <2>1, <2>2
  <2>4. QED
    BY <1>6, <1>13, <2>3
<1>14. PICK f : IsRun(f, N, V, first, step) /\ f[N] = g[1 .. N]
  <2>1. \A n \in 1 .. N : g[1 .. (n - 1)] \in V => g[1 .. n] = step[<<n, g[1 .. (n - 1)]>>]
    BY <1>13
  <2>2. QED
    BY <1>1, <1>2, <1>5, <1>12, <2>1, FoldSteps
<1>15. ASSUME NEW n \in 1 .. N PROVE f[n] = Op(f[n - 1], s[n])
  <2>1. f[n - 1] \in V
    BY <1>1, <1>14 DEF IsRun
  <2>2. QED
    BY <1>6, <1>14, <2>1 DEF IsRun
<1>16. \A n \in 1 .. Len(paths) : f[n] = Op(f[n - 1], paths[n])
  BY <1>0, <1>15
<1>17. /\ f \in [0 .. Len(paths) -> Seq(ToSet(paths))]
       /\ f[0] = <<>>
       /\ f[Len(paths)] = RankPaths(paths)
  BY <1>0, <1>11, <1>14 DEF IsRun
<1>18. IsRankRun(f, paths)
  BY <1>16, <1>17 DEF Op, IsRankRun
<1>19. QED
  BY <1>18

-------------------------------------------------------------------------------
(* Mappings: no code is lost, and none comes twice.                        *)

\* The codes of a sequence of mappings.
Codes(mappings) == { mappings[i].code : i \in DOMAIN mappings }

\* One element more.
LEMMA AppendIs ==
    ASSUME NEW s, IsSequence(s), NEW x
    PROVE  /\ IsSequence(Append(s, x)) /\ ToSet(Append(s, x)) = ToSet(s) \cup {x}
           /\ Codes(Append(s, x)) = Codes(s) \cup {x.code}
<1>1. PICK S, t : S = ToSet(s) \cup {x} /\ t = Append(s, x)
  OBVIOUS
<1>2. s \in Seq(S)
  BY <1>1 DEF IsSequence
<1>3. /\ t \in Seq(S) /\ Len(s) \in Nat /\ DOMAIN s = 1 .. Len(s)
      /\ Len(t) = Len(s) + 1 /\ DOMAIN t = 1 .. (Len(s) + 1)
      /\ t[Len(s) + 1] = x /\ \A i \in DOMAIN s : t[i] = s[i]
  BY <1>1, <1>2
<1>4. \A i \in DOMAIN t : i \in DOMAIN s \/ i = Len(s) + 1
  BY <1>3
<1>5. Len(s) + 1 \in DOMAIN t /\ \A i \in DOMAIN s : i \in DOMAIN t
  BY <1>3
<1>6. ToSet(t) = ToSet(s) \cup {x}
  BY <1>3, <1>4, <1>5 DEF ToSet
<1>7. Codes(t) = Codes(s) \cup {x.code}
  BY <1>3, <1>4, <1>5 DEF Codes
<1>8. IsSequence(t)
  BY <1>3, ElementsOf DEF IsSequence
<1>9. QED
  BY <1>1, <1>6, <1>7, <1>8

\* The rows the index has of a code are those the sequence has of it.
LEMMA RowsAre ==
    ASSUME NEW maps, NEW crosswalk, NEW from, IsSequence(maps[crosswalk])
    PROVE  /\ IsSequence(Rows(maps, crosswalk, from))
           /\ ToSet(Rows(maps, crosswalk, from)) = { row \in ToSet(maps[crosswalk]) : row.from = from }
<1>1. PICK f : IsRowsRun(f, maps, crosswalk, from)
  BY RowsUnfold
<1>2. PICK s, N, S : s = maps[crosswalk] /\ N = Len(s) /\ S = { row \in ToSet(s) : row.from = from }
  OBVIOUS
<1>3. N \in Nat /\ DOMAIN s = 1 .. N /\ \A n \in 1 .. N : s[n] \in ToSet(s)
  BY <1>2 DEF IsSequence, ToSet
<1>4. /\ f \in [0 .. N -> Seq(S)] /\ f[N] = Rows(maps, crosswalk, from)
      /\ \A n \in 1 .. N : f[n] = IF s[n].from = from THEN Append(f[n - 1], s[n]) ELSE f[n - 1]
  BY <1>1, <1>2 DEF IsRowsRun
<1>5. PICK G : G = { n \in 0 .. N : \A k \in 1 .. n : s[k].from = from => s[k] \in ToSet(f[n]) }
  OBVIOUS
<1>6. 0 \in G
  BY <1>3, <1>5
<1>7. ASSUME NEW n \in 0 .. (N - 1), n \in G
      PROVE  n + 1 \in G
  <2>1. PICK m \in 1 .. N : m = n + 1 /\ m - 1 = n
    BY <1>3
  <2>2. IsSequence(f[n])
    BY <1>3, <1>4, ElementsOf DEF IsSequence
  <2>3. PICK old, new : old = f[n] /\ new = f[m]
    OBVIOUS
  <2>4. new = IF s[m].from = from THEN Append(old, s[m]) ELSE old
    BY <1>4, <2>1, <2>3
  <2>5. ToSet(old) \subseteq ToSet(new) /\ (s[m].from = from => s[m] \in ToSet(new))
    <3>1. CASE s[m].from = from
      <4>1. new = Append(old, s[m]) /\ IsSequence(old)
        BY <2>2, <2>3, <2>4, <3>1
      <4>2. ToSet(new) = ToSet(old) \cup {s[m]}
        BY <4>1, AppendIs
      <4>3. QED
        BY <4>2
    <3>2. CASE s[m].from # from
      BY <2>4, <3>2
    <3>3. QED
      BY <3>1, <3>2
  <2>6. \A k \in 1 .. n : s[k].from = from => s[k] \in ToSet(new)
    BY <1>5, <1>7, <2>3, <2>5
  <2>7. \A k \in 1 .. m : k \in 1 .. n \/ k = m
    BY <2>1
  <2>8. \A k \in 1 .. m : s[k].from = from => s[k] \in ToSet(new)
    BY <2>5, <2>6, <2>7
  <2>9. QED
    BY <1>5, <2>1, <2>3, <2>8
<1>8. N \in G
  <2>1. \A n \in 0 .. N : n \in G
    BY <1>3, <1>6, <1>7, Induct
  <2>2. QED
    BY <1>3, <2>1
<1>9. PICK rows : rows = f[N]
  OBVIOUS
<1>10. rows \in Seq(S)
  BY <1>3, <1>4, <1>9
<1>11. IsSequence(rows) /\ ToSet(rows) \subseteq S
  BY <1>10, ElementsOf DEF IsSequence
<1>12. S \subseteq ToSet(rows)
  BY <1>2, <1>3, <1>5, <1>8, <1>9 DEF ToSet
<1>13. QED
  BY <1>2, <1>4, <1>9, <1>11, <1>12

\* Nothing is lost when codes are appended that are not there.
LEMMA ExtendIs ==
    ASSUME NEW codes, IsSequence(codes), NEW more, IsSequence(more)
    PROVE  /\ Extend(codes, more) \in Seq(ToSet(codes) \cup ToSet(more))
           /\ Codes(Extend(codes, more)) = Codes(codes) \cup Codes(more)
<1>1. PICK f : IsExtendRun(f, codes, more)
  BY ExtendUnfolds
<1>2. PICK N, S : N = Len(more) /\ S = ToSet(codes) \cup ToSet(more)
  OBVIOUS
<1>3. N \in Nat /\ DOMAIN more = 1 .. N
  BY <1>2 DEF IsSequence
<1>4. /\ f \in [0 .. N -> Seq(S)] /\ f[0] = codes /\ f[N] = Extend(codes, more)
      /\ \A n \in 1 .. N : f[n] = IF Has(f[n - 1], more[n].code) THEN f[n - 1] ELSE Append(f[n - 1], more[n])
  BY <1>1, <1>2 DEF IsExtendRun
<1>5. PICK G : G = { n \in 0 .. N : Codes(f[n]) = Codes(codes) \cup { more[k].code : k \in 1 .. n } }
  OBVIOUS
<1>6. 0 \in G
  BY <1>3, <1>4, <1>5
<1>7. ASSUME NEW n \in 0 .. (N - 1), n \in G
      PROVE  n + 1 \in G
  <2>1. PICK m \in 1 .. N : m = n + 1 /\ m - 1 = n
    BY <1>3
  <2>2. PICK old, new, x : old = f[n] /\ new = f[m] /\ x = more[m]
    OBVIOUS
  <2>3. IsSequence(old)
    BY <1>3, <1>4, <2>2, ElementsOf DEF IsSequence
  <2>4. new = IF Has(old, x.code) THEN old ELSE Append(old, x)
    BY <1>4, <2>1, <2>2
  <2>5. Codes(new) = Codes(old) \cup {x.code}
    <3>1. CASE Has(old, x.code)
      BY <2>4, <3>1 DEF Has, Codes
    <3>2. CASE ~ Has(old, x.code)
      BY <2>3, <2>4, <3>2, AppendIs
    <3>3. QED
      BY <3>1, <3>2
  <2>6. { more[k].code : k \in 1 .. m } = { more[k].code : k \in 1 .. n } \cup {x.code}
    <3>1. \A k \in 1 .. m : k \in 1 .. n \/ k = m
      BY <2>1
    <3>2. m \in 1 .. m /\ \A k \in 1 .. n : k \in 1 .. m
      BY <2>1
    <3>3. QED
      BY <2>2, <3>1, <3>2
  <2>7. Codes(old) = Codes(codes) \cup { more[k].code : k \in 1 .. n }
    BY <1>5, <1>7, <2>2
  <2>8. QED
    BY <1>5, <2>1, <2>2, <2>5, <2>6, <2>7
<1>8. N \in G
  <2>1. \A n \in 0 .. N : n \in G
    BY <1>3, <1>6, <1>7, Induct
  <2>2. QED
    BY <1>3, <2>1
<1>9. Codes(more) = { more[k].code : k \in 1 .. N }
  BY <1>3 DEF Codes
<1>10. Extend(codes, more) \in Seq(S)
  BY <1>3, <1>4
<1>11. QED
  BY <1>2, <1>4, <1>5, <1>8, <1>9, <1>10

\* A sequence made of another one, place by place.
LEMMA MappedIs ==
    ASSUME NEW s, IsSequence(s), NEW t, t = [i \in DOMAIN s |-> t[i]]
    PROVE  IsSequence(t) /\ DOMAIN t = DOMAIN s /\ Len(t) = Len(s)
<1>1. Len(s) \in Nat /\ DOMAIN s = 1 .. Len(s)
  BY DEF IsSequence
<1>2. DOMAIN t = 1 .. Len(s)
  BY <1>1
<1>3. \A i \in 1 .. Len(s) : t[i] \in ToSet(t)
  BY <1>2 DEF ToSet
<1>4. t \in [1 .. Len(s) -> ToSet(t)]
  BY <1>1, <1>3
<1>5. t \in Seq(ToSet(t))
  BY <1>1, <1>4
<1>6. QED
  BY <1>1, <1>2, <1>5 DEF IsSequence

\* What a crosswalk leads to from a code.
Targets(maps, crosswalk, from) == { row.to : row \in { r \in ToSet(maps[crosswalk]) : r.from = from } }

\* What the table and the rows have of a program.
LEMMA FromCipAre ==
    ASSUME NEW direct, IsSequence(direct), NEW maps, NEW crosswalk, NEW from, IsSequence(maps[crosswalk])
    PROVE  /\ IsSequence(FromCip(direct, Rows(maps, crosswalk, from)))
           /\ Codes(FromCip(direct, Rows(maps, crosswalk, from)))
                 = ToSet(direct) \cup Targets(maps, crosswalk, from)
<1>1. PICK rows : rows = Rows(maps, crosswalk, from)
  OBVIOUS
<1>2. IsSequence(rows) /\ ToSet(rows) = { r \in ToSet(maps[crosswalk]) : r.from = from }
  BY <1>1, RowsAre
<1>3. PICK s : s = [i \in DOMAIN direct |-> Code(direct[i], Direct)]
  OBVIOUS
<1>4. PICK t : t = [i \in DOMAIN rows |-> Code(rows[i].to, rows[i].confidence * CrosswalkWeight * 10 ^ 4)]
  OBVIOUS
<1>5. IsSequence(s) /\ IsSequence(t)
  BY <1>2, <1>3, <1>4, MappedIs
<1>6. Codes(s) = ToSet(direct)
  BY <1>3 DEF Codes, Code, ToSet
<1>7. Codes(t) = { rows[i].to : i \in DOMAIN rows }
  BY <1>4 DEF Codes, Code
<1>8. { rows[i].to : i \in DOMAIN rows } = { row.to : row \in ToSet(rows) }
  BY DEF ToSet
<1>9. FromCip(direct, rows) = Extend(s, t)
  BY <1>3, <1>4 DEF FromCip, Apply
<1>10. Codes(Extend(s, t)) = Codes(s) \cup Codes(t) /\ IsSequence(Extend(s, t))
  <2>1. PICK u : u = Extend(s, t)
    OBVIOUS
  <2>2. u \in Seq(ToSet(s) \cup ToSet(t)) /\ Codes(u) = Codes(s) \cup Codes(t)
    BY <1>5, <2>1, ExtendIs
  <2>3. QED
    BY <2>1, <2>2, ElementsOf DEF IsSequence
<1>11. QED
  BY <1>1, <1>2, <1>6, <1>7, <1>8, <1>9, <1>10 DEF Targets

\* What an occupation leads to.
LeadsTo(db, maps, code) == ToSet(db.socToNaics[code]) \cup Targets(maps, "socToNaics", code)

LEMMA FromSocAre ==
    ASSUME NEW db, NEW maps, NEW naics, IsSequence(naics), NEW soc,
           IsSequence(db.socToNaics[soc.code]), IsSequence(maps["socToNaics"])
    PROVE  /\ FromSoc(db, maps, naics, soc)
                 \in Seq(ToSet(naics) \cup (ToSet(OfTable(db, soc)) \cup ToSet(OfIndex(maps, soc))))
           /\ Codes(FromSoc(db, maps, naics, soc)) = Codes(naics) \cup LeadsTo(db, maps, soc.code)
<1>1. PICK table, rows : table = db.socToNaics[soc.code] /\ rows = Rows(maps, "socToNaics", soc.code)
  OBVIOUS
<1>2. /\ IsSequence(table) /\ IsSequence(rows)
      /\ ToSet(rows) = { r \in ToSet(maps["socToNaics"]) : r.from = soc.code }
  BY <1>1, RowsAre
<1>3. PICK s, t : s = OfTable(db, soc) /\ t = OfIndex(maps, soc)
  OBVIOUS
<1>4. s = [i \in DOMAIN table |-> Code(table[i], (soc.confidence \div 100) * CrosswalkWeight)]
  BY <1>1, <1>3 DEF OfTable, Apply
<1>5. t = [i \in DOMAIN rows |-> Code(rows[i].to, (soc.confidence \div 10 ^ 4) * rows[i].confidence * InferredWeight)]
  BY <1>1, <1>3 DEF OfIndex, Apply
<1>6. IsSequence(s) /\ IsSequence(t)
  BY <1>2, <1>4, <1>5, MappedIs
<1>7. Codes(s) = ToSet(table)
  BY <1>4 DEF Codes, Code, ToSet
<1>8. Codes(t) = { row.to : row \in ToSet(rows) }
  BY <1>5 DEF Codes, Code, ToSet
<1>9. PICK u, v : u = Extend(naics, s) /\ v = Extend(u, t)
  OBVIOUS
<1>10. u \in Seq(ToSet(naics) \cup ToSet(s)) /\ Codes(u) = Codes(naics) \cup Codes(s)
  BY <1>6, <1>9, ExtendIs
<1>11. IsSequence(u) /\ ToSet(u) \subseteq ToSet(naics) \cup ToSet(s)
  BY <1>10, ElementsOf DEF IsSequence
<1>12. v \in Seq(ToSet(u) \cup ToSet(t)) /\ Codes(v) = Codes(u) \cup Codes(t)
  BY <1>6, <1>9, <1>11, ExtendIs
<1>13. v \in Seq(ToSet(naics) \cup (ToSet(s) \cup ToSet(t)))
  BY <1>11, <1>12
<1>14. FromSoc(db, maps, naics, soc) = v
  BY <1>3, <1>9 DEF FromSoc
<1>15. LeadsTo(db, maps, soc.code) = Codes(s) \cup Codes(t)
  BY <1>1, <1>2, <1>7, <1>8 DEF LeadsTo, Targets
<1>16. QED
  BY <1>3, <1>10, <1>12, <1>13, <1>14, <1>15

\* What all occupations lead to.
LEMMA SocToNaicsAre ==
    ASSUME NEW db, NEW maps, NEW socs, socs = TraverseCipToSoc(db, maps), IsSequence(socs),
           \A code \in Codes(socs) : IsSequence(db.socToNaics[code]), IsSequence(maps["socToNaics"])
    PROVE  /\ IsSequence(TraverseSocToNaics(db, maps))
           /\ Codes(TraverseSocToNaics(db, maps)) = UNION { LeadsTo(db, maps, code) : code \in Codes(socs) }
<1>1. PICK N : N = Len(socs)
  OBVIOUS
<1>2. /\ N \in Nat /\ DOMAIN socs = 1 .. N
      /\ \A n \in 1 .. N : socs[n] \in ToSet(socs) /\ socs[n].code \in Codes(socs)
  BY <1>1 DEF IsSequence, ToSet, Codes
<1>3. PICK E : E = UNION { ToSet(OfTable(db, soc)) \cup ToSet(OfIndex(maps, soc)) : soc \in ToSet(socs) }
  OBVIOUS
<1>4. ASSUME NEW soc \in ToSet(socs), NEW acc \in Seq(E)
      PROVE  /\ FromSoc(db, maps, acc, soc) \in Seq(E)
             /\ Codes(FromSoc(db, maps, acc, soc)) = Codes(acc) \cup LeadsTo(db, maps, soc.code)
  <2>1. IsSequence(acc) /\ ToSet(acc) \subseteq E
    BY ElementsOf DEF IsSequence
  <2>2. soc.code \in Codes(socs)
    BY DEF Codes, ToSet
  <2>3. PICK T : T = ToSet(OfTable(db, soc)) \cup ToSet(OfIndex(maps, soc))
    OBVIOUS
  <2>4. T \subseteq E
    BY <1>3, <2>3
  <2>5. PICK next : next = FromSoc(db, maps, acc, soc)
    OBVIOUS
  <2>6. next \in Seq(ToSet(acc) \cup T) /\ Codes(next) = Codes(acc) \cup LeadsTo(db, maps, soc.code)
    BY <2>1, <2>2, <2>3, <2>5, FromSocAre
  <2>7. next \in Seq(E)
    BY <2>1, <2>4, <2>6
  <2>8. QED
    BY <2>5, <2>6, <2>7
<1>5. PICK f : IsSocRun(f, db, maps, E)
  BY <1>4, SocToNaicsUnfolds
<1>6. /\ f \in [0 .. N -> Seq(E)] /\ f[0] = <<>> /\ f[N] = TraverseSocToNaics(db, maps)
      /\ \A n \in 1 .. N : f[n] = FromSoc(db, maps, f[n - 1], socs[n])
  BY <1>1, <1>5 DEF IsSocRun
<1>7. PICK G : G = { n \in 0 .. N : Codes(f[n]) = UNION { LeadsTo(db, maps, socs[k].code) : k \in 1 .. n } }
  OBVIOUS
<1>8. 0 \in G
  BY <1>2, <1>6, <1>7 DEF Codes
<1>9. ASSUME NEW n \in 0 .. (N - 1), n \in G
      PROVE  n + 1 \in G
  <2>1. PICK m \in 1 .. N : m = n + 1 /\ m - 1 = n
    BY <1>2
  <2>2. PICK old, new, x : old = f[n] /\ new = f[m] /\ x = socs[m]
    OBVIOUS
  <2>3. old \in Seq(E) /\ x \in ToSet(socs) /\ new = FromSoc(db, maps, old, x)
    BY <1>2, <1>6, <2>1, <2>2
  <2>4. Codes(new) = Codes(old) \cup LeadsTo(db, maps, x.code)
    BY <1>4, <2>3
  <2>5. PICK A, B : /\ A = UNION { LeadsTo(db, maps, socs[k].code) : k \in 1 .. n }
                    /\ B = UNION { LeadsTo(db, maps, socs[k].code) : k \in 1 .. m }
    OBVIOUS
  <2>6. B = A \cup LeadsTo(db, maps, x.code)
    <3>1. \A k \in 1 .. m : k \in 1 .. n \/ k = m
      BY <2>1
    <3>2. m \in 1 .. m /\ \A k \in 1 .. n : k \in 1 .. m
      BY <2>1
    <3>3. QED
      BY <2>2, <2>5, <3>1, <3>2
  <2>7. Codes(old) = A
    BY <1>7, <1>9, <2>2, <2>5
  <2>8. Codes(f[m]) = B
    BY <2>2, <2>4, <2>6, <2>7
  <2>9. QED
    BY <1>7, <2>1, <2>5, <2>8
<1>10. N \in G
  <2>1. \A n \in 0 .. N : n \in G
    BY <1>2, <1>8, <1>9, Induct
  <2>2. QED
    BY <1>2, <2>1
<1>11. UNION { LeadsTo(db, maps, socs[k].code) : k \in 1 .. N }
          = UNION { LeadsTo(db, maps, code) : code \in Codes(socs) }
  BY <1>2 DEF Codes
<1>12. IsSequence(f[N])
  <2>1. f[N] \in Seq(E)
    BY <1>2, <1>6
  <2>2. QED
    BY <2>1, ElementsOf DEF IsSequence
<1>13. QED
  BY <1>6, <1>7, <1>10, <1>11, <1>12

\* No code has two mappings.
UniqueCodes(mappings) == \A i, j \in DOMAIN mappings : mappings[i].code = mappings[j].code => i = j

\* The codes of C stand before the others.
CodesFirst(mappings, C) ==
    \A i, j \in DOMAIN mappings : mappings[i].code \in C /\ mappings[j].code \notin C => i < j

\* The best mappings are those of the same codes, once each; codes that come first stay first.
LEMMA BestAre ==
    ASSUME NEW codes, IsSequence(codes), NEW m, m \in 0 .. Len(codes), NEW C,
           C = { codes[k].code : k \in 1 .. m }
    PROVE  /\ IsSequence(BestOfEach(codes)) /\ Codes(BestOfEach(codes)) = Codes(codes)
           /\ UniqueCodes(BestOfEach(codes)) /\ CodesFirst(BestOfEach(codes), C)
<1>1. PICK f : IsBestRun(f, codes)
  BY BestUnfolds
<1>2. PICK N, S : N = Len(codes) /\ S = ToSet(codes)
  OBVIOUS
<1>3. N \in Nat /\ DOMAIN codes = 1 .. N /\ m \in 0 .. N
  BY <1>2 DEF IsSequence
<1>4. /\ f \in [0 .. N -> Seq(S)] /\ f[0] = <<>> /\ f[N] = BestOfEach(codes)
      /\ \A n \in 1 .. N :
            f[n] = IF ~ Has(f[n - 1], codes[n].code) THEN Append(f[n - 1], codes[n])
                   ELSE [i \in DOMAIN f[n - 1] |->
                            IF f[n - 1][i].code = codes[n].code /\ codes[n].confidence > f[n - 1][i].confidence
                            THEN codes[n] ELSE f[n - 1][i]]
  BY <1>1, <1>2 DEF IsBestRun, Apply
<1> DEFINE Good(n) == /\ Codes(f[n]) = { codes[k].code : k \in 1 .. n }
                      /\ UniqueCodes(f[n]) /\ CodesFirst(f[n], C)
<1>5. PICK G : G = { n \in 0 .. N : Good(n) }
  OBVIOUS
<1>6. Good(0)
  BY <1>4 DEF Codes, UniqueCodes, CodesFirst
<1>7. ASSUME NEW n \in 0 .. (N - 1), Good(n)
      PROVE  Good(n + 1)
  <2>1. PICK p \in 1 .. N : p = n + 1 /\ p - 1 = n
    BY <1>3
  <2>2. PICK old, new, x : old = f[n] /\ new = f[p] /\ x = codes[p]
    OBVIOUS
  <2>3. IsSequence(old)
    <3>1. old \in Seq(S)
      BY <1>3, <1>4, <2>2
    <3>2. QED
      BY <3>1, ElementsOf DEF IsSequence
  <2>4. /\ ~ Has(old, x.code) => new = Append(old, x)
        /\ Has(old, x.code) =>
              new = [i \in DOMAIN old |->
                        IF old[i].code = x.code /\ x.confidence > old[i].confidence THEN x ELSE old[i]]
    <3>1. f[p] = IF ~ Has(f[p - 1], codes[p].code) THEN Append(f[p - 1], codes[p])
                 ELSE [i \in DOMAIN f[p - 1] |->
                          IF f[p - 1][i].code = codes[p].code /\ codes[p].confidence > f[p - 1][i].confidence
                          THEN codes[p] ELSE f[p - 1][i]]
      BY <1>4
    <3>2. f[p - 1] = old /\ f[p] = new /\ codes[p] = x
      BY <2>1, <2>2
    <3>3. new = IF ~ Has(old, x.code) THEN Append(old, x)
                ELSE [i \in DOMAIN old |->
                         IF old[i].code = x.code /\ x.confidence > old[i].confidence THEN x ELSE old[i]]
      BY <3>1, <3>2, Zenon
    <3>4. QED
      BY <3>3, Zenon
  <2>5. Codes(old) = { codes[k].code : k \in 1 .. n } /\ UniqueCodes(old) /\ CodesFirst(old, C)
    BY <1>7, <2>2
  <2>6. { codes[k].code : k \in 1 .. p } = { codes[k].code : k \in 1 .. n } \cup {x.code}
    <3>1. \A k \in 1 .. p : k \in 1 .. n \/ k = p
      BY <2>1
    <3>2. p \in 1 .. p /\ \A k \in 1 .. n : k \in 1 .. p
      BY <2>1
    <3>3. QED
      BY <2>2, <3>1, <3>2
  <2>7. CASE Has(old, x.code)
    <3>1. DOMAIN new = DOMAIN old /\ \A i \in DOMAIN old : new[i].code = old[i].code
      BY <2>4, <2>7
    <3>2. Codes(new) = Codes(old) /\ UniqueCodes(new) /\ CodesFirst(new, C)
      BY <2>5, <3>1 DEF Codes, UniqueCodes, CodesFirst
    <3>3. x.code \in Codes(old)
      BY <2>7 DEF Has, Codes
    <3>4. QED
      BY <2>1, <2>2, <2>5, <2>6, <3>2, <3>3
  <2>8. CASE ~ Has(old, x.code)
    <3>1. PICK L : L = Len(old)
      OBVIOUS
    <3>2. /\ Codes(new) = Codes(old) \cup {x.code} /\ L \in Nat
          /\ DOMAIN old = 1 .. L /\ DOMAIN new = 1 .. (L + 1) /\ new[L + 1] = x
          /\ \A i \in 1 .. L : new[i] = old[i]
      <4>1. new = Append(old, x)
        BY <2>4, <2>8
      <4>2. PICK T : T = ToSet(old) \cup {x}
        OBVIOUS
      <4>3. old \in Seq(T) /\ x \in T
        BY <2>3, <4>2 DEF IsSequence
      <4>4. /\ L \in Nat /\ DOMAIN old = 1 .. L /\ DOMAIN new = 1 .. (L + 1) /\ new[L + 1] = x
            /\ \A i \in 1 .. L : new[i] = old[i]
        BY <3>1, <4>1, <4>3
      <4>5. Codes(new) = Codes(old) \cup {x.code}
        BY <2>3, <4>1, AppendIs
      <4>6. QED
        BY <4>4, <4>5
    <3>3. \A i \in 1 .. L : old[i].code # x.code
      BY <2>8, <3>2 DEF Has
    <3>4. UniqueCodes(new)
      <4>1. \A i, j \in 1 .. L : old[i].code = old[j].code => i = j
        BY <2>5, <3>2 DEF UniqueCodes
      <4>2. \A i \in 1 .. (L + 1) : i \in 1 .. L \/ i = L + 1
        BY <3>2
      <4>3. QED
        BY <3>2, <3>3, <4>1, <4>2 DEF UniqueCodes
    <3>5. x.code \in C => \A i \in 1 .. L : old[i].code \in C
      <4>1. SUFFICES ASSUME x.code \in C, NEW i \in 1 .. L PROVE old[i].code \in C
        OBVIOUS
      <4>2. x.code \notin Codes(old) /\ old[i].code \in Codes(old)
        BY <2>8, <3>2 DEF Has, Codes
      <4>3. PICK k \in 1 .. m : codes[k].code = x.code
        BY <4>1
      <4>4. k \notin 1 .. n
        BY <2>5, <4>2, <4>3
      <4>5. \A q \in 1 .. n : q \in 1 .. m
        BY <1>3, <4>3, <4>4
      <4>6. QED
        BY <2>5, <4>2, <4>5
    <3>6. CodesFirst(new, C)
      <4>1. ASSUME NEW i \in 1 .. (L + 1), NEW j \in 1 .. (L + 1),
                   new[i].code \in C, new[j].code \notin C
            PROVE  i < j
        <5>1. CASE i \in 1 .. L /\ j \in 1 .. L
          BY <2>5, <3>2, <4>1, <5>1 DEF CodesFirst
        <5>2. CASE i = L + 1
          <6>1. j \in 1 .. L
            BY <3>2, <4>1, <5>2
          <6>2. QED
            BY <3>2, <3>5, <4>1, <5>2, <6>1
        <5>3. CASE i \in 1 .. L /\ j = L + 1
          BY <3>2, <5>3
        <5>4. QED
          BY <3>2, <5>1, <5>2, <5>3
      <4>2. QED
        BY <3>2, <4>1 DEF CodesFirst
    <3>7. Codes(new) = { codes[k].code : k \in 1 .. p }
      BY <2>5, <2>6, <3>2
    <3>8. QED
      BY <2>1, <2>2, <3>4, <3>6, <3>7
  <2>9. QED
    BY <2>7, <2>8
<1>8. Good(N)
  <2> HIDE DEF Good
  <2>1. 0 \in G /\ \A n \in 0 .. (N - 1) : n \in G => n + 1 \in G
    BY <1>3, <1>5, <1>6, <1>7
  <2>2. \A n \in 0 .. N : n \in G
    BY <1>3, <2>1, Induct
  <2>3. QED
    BY <1>3, <1>5, <2>2
<1>9. IsSequence(f[N])
  <2>1. f[N] \in Seq(S)
    BY <1>3, <1>4
  <2>2. QED
    BY <2>1, ElementsOf DEF IsSequence
<1>10. Codes(codes) = { codes[k].code : k \in 1 .. N }
  BY <1>3 DEF Codes
<1>11. QED
  BY <1>4, <1>8, <1>9, <1>10

\* A set of places that has all places before each of its own is an interval.
LEMMA Prefix ==
    ASSUME NEW N \in Nat, NEW D, D \subseteq 1 .. N,
           \A i \in D : \A j \in 1 .. N : j <= i => j \in D
    PROVE  Cardinality(D) \in 0 .. N /\ D = 1 .. Cardinality(D)
<1>1. CASE D = {}
  <2>1. Cardinality(D) = 0
    BY <1>1, FS_EmptySet
  <2>2. QED
    BY <1>1, <2>1
<1>2. CASE D # {}
  <2>1. PICK M : M = Max(D)
    OBVIOUS
  <2>2. M \in D /\ \A y \in D : M >= y
    BY <1>2, <2>1, Greatest
  <2>3. M \in 1 .. N
    BY <2>2
  <2>4. D = 1 .. M
    <3>1. \A y \in D : y \in 1 .. M
      BY <2>2, <2>3
    <3>2. \A y \in 1 .. M : y \in 1 .. N /\ y <= M
      BY <2>3
    <3>3. QED
      BY <2>2, <3>1, <3>2
  <2>5. Cardinality(1 .. M) = M
    BY <2>3, FS_Interval
  <2>6. QED
    BY <2>3, <2>4, <2>5
<1>3. QED
  BY <1>1, <1>2

\* As many values as places, if no value has two.
LEMMA CountIs ==
    ASSUME NEW N \in Nat, NEW f, NEW T, f \in [1 .. N -> T],
           \A t \in T : \E i \in 1 .. N : f[i] = t,
           \A i, j \in 1 .. N : f[i] = f[j] => i = j
    PROVE  Cardinality(T) = N
<1>1. f \in Surjection(1 .. N, T)
  BY DEF Surjection
<1>2. f \in Injection(1 .. N, T)
  BY DEF Injection, IsInjective
<1>3. IsFiniteSet(1 .. N) /\ Cardinality(1 .. N) = N
  BY FS_Interval
<1>4. QED
  BY <1>1, <1>2, <1>3, FS_Surjection

-------------------------------------------------------------------------------
(* Paths: what is ranked first.                                            *)

\* One sequence is another with one more element.
Inserted(t, s, p, x) ==
    /\ Len(t) = Len(s) + 1 /\ DOMAIN t = 1 .. (Len(s) + 1)
    /\ \A i \in 1 .. (p - 1) : t[i] = s[i]
    /\ t[p] = x
    /\ \A i \in (p + 1) .. (Len(s) + 1) : t[i] = s[i - 1]

LEMMA InsertPlaces ==
    ASSUME NEW s, IsSequence(s), NEW x, NEW p, p \in 1 .. (Len(s) + 1)
    PROVE  Inserted(InsertAt(s, p, x), s, p, x)
<1>0. PICK t : t = InsertAt(s, p, x)
  OBVIOUS
<1>1. PICK S : S = ToSet(s) \cup {x}
  OBVIOUS
<1>2. s \in Seq(S) /\ x \in S
  BY <1>1 DEF IsSequence
<1>3. t \in Seq(S) /\ Len(t) = Len(s) + 1
  BY <1>0, <1>2, InsertIs
<1>4. \A i \in 1 .. (Len(s) + 1) :
         InsertAt(s, p, x)[i] = IF i < p THEN s[i] ELSE IF i = p THEN x ELSE s[i - 1]
  BY <1>2, InsertIs
<1>5. DOMAIN t = 1 .. (Len(s) + 1) /\ Len(s) \in Nat
  BY <1>2, <1>3
<1>6. \A i \in 1 .. (Len(s) + 1) : t[i] = IF i < p THEN s[i] ELSE IF i = p THEN x ELSE s[i - 1]
  BY <1>0, <1>4
<1>7. Inserted(t, s, p, x)
  <2>1. \A i \in 1 .. (p - 1) : t[i] = s[i]
    <3>1. \A i \in 1 .. (p - 1) : i \in 1 .. (Len(s) + 1) /\ i < p
      BY <1>5
    <3>2. QED
      BY <1>6, <3>1
  <2>2. t[p] = x
    <3>1. p \in 1 .. (Len(s) + 1) /\ ~ p < p
      BY <1>5
    <3>2. QED
      BY <1>6, <3>1
  <2>3. \A i \in (p + 1) .. (Len(s) + 1) : t[i] = s[i - 1]
    <3>1. \A i \in (p + 1) .. (Len(s) + 1) : i \in 1 .. (Len(s) + 1) /\ ~ i < p /\ i # p
      BY <1>5
    <3>2. QED
      BY <1>6, <3>1
  <2>4. QED
    BY <1>3, <1>5, <2>1, <2>2, <2>3 DEF Inserted
<1>8. QED
  BY <1>0, <1>7

NaicsOf(paths) == { paths[i].naics : i \in DOMAIN paths }

\* The paths to the codes of C stand before the others.
PathsFirst(paths, C) ==
    \A i, j \in DOMAIN paths : paths[i].naics \in C /\ paths[j].naics \notin C => i < j

\* The direct matches stand before the others.
DirectMatchesFirst(paths) ==
    \A i, j \in DOMAIN paths : paths[i].direct /\ ~ paths[j].direct => i < j

\* One more path is ranked behind the direct matches if it is one, and last if it is none.
LEMMA InsertRanks ==
    ASSUME NEW acc, IsSequence(acc), NEW x, NEW C,
           x.direct => x.naics \in C, \A i \in DOMAIN acc : acc[i].direct => acc[i].naics \in C,
           \A i \in DOMAIN acc : RanksBefore(x, acc[i]) <=> x.direct /\ ~ acc[i].direct,
           DirectMatchesFirst(acc), PathsFirst(acc, C),
           ~ x.direct /\ x.naics \in C => NaicsOf(acc) \subseteq C,
           NEW new, new = InsertAt(acc, 1 + Cardinality({ i \in DOMAIN acc : ~ RanksBefore(x, acc[i]) }), x)
    PROVE  /\ DirectMatchesFirst(new) /\ PathsFirst(new, C)
           /\ NaicsOf(new) = NaicsOf(acc) \cup {x.naics} /\ Len(new) = Len(acc) + 1
<1>1. PICK L, D, p : /\ L = Len(acc) /\ D = { i \in DOMAIN acc : ~ RanksBefore(x, acc[i]) }
                     /\ p = 1 + Cardinality(D)
  OBVIOUS
<1>2. L \in Nat /\ DOMAIN acc = 1 .. L /\ D \subseteq 1 .. L
  BY <1>1 DEF IsSequence
<1>3. \A i \in 1 .. L : i \in D <=> ~ x.direct \/ acc[i].direct
  BY <1>1, <1>2
<1>4. ASSUME NEW i \in D, NEW j \in 1 .. L, j <= i
      PROVE  j \in D
  <2>1. CASE ~ x.direct
    BY <1>3, <2>1
  <2>2. CASE x.direct
    <3>1. i \in 1 .. L /\ acc[i].direct
      BY <1>2, <1>3, <2>2
    <3>2. ~ acc[j].direct => i < j
      BY <1>2, <3>1 DEF DirectMatchesFirst
    <3>3. QED
      BY <1>2, <1>3, <1>4, <3>1, <3>2
  <2>3. QED
    BY <2>1, <2>2
<1>5. Cardinality(D) \in 0 .. L /\ D = 1 .. Cardinality(D)
  BY <1>2, <1>4, Prefix
<1>6. p \in 1 .. (L + 1) /\ D = 1 .. (p - 1)
  <2>1. PICK k : k = Cardinality(D)
    OBVIOUS
  <2>2. k \in 0 .. L /\ D = 1 .. k
    BY <1>5, <2>1
  <2>3. p = 1 + k
    BY <1>1, <2>1
  <2>4. p \in 1 .. (L + 1) /\ p - 1 = k
    BY <1>2, <2>2, <2>3
  <2>5. QED
    BY <2>2, <2>4
<1>9. /\ Len(new) = L + 1 /\ DOMAIN new = 1 .. (L + 1)
      /\ \A i \in 1 .. (p - 1) : new[i] = acc[i]
      /\ new[p] = x
      /\ \A i \in (p + 1) .. (L + 1) : new[i] = acc[i - 1]
  <2>1. new = InsertAt(acc, p, x)
    BY <1>1
  <2>2. p \in 1 .. (Len(acc) + 1)
    BY <1>1, <1>6
  <2>3. Inserted(new, acc, p, x)
    BY <2>1, <2>2, InsertPlaces
  <2>4. QED
    BY <1>1, <2>3 DEF Inserted
<1>10. DOMAIN new = 1 .. (L + 1)
  BY <1>9
<1>11. \A i \in 1 .. (p - 1) : i \in 1 .. L /\ (~ x.direct \/ acc[i].direct) /\ new[i] = acc[i]
  BY <1>2, <1>3, <1>6, <1>9
<1>12. \A i \in (p + 1) .. (L + 1) : /\ i - 1 \in 1 .. L /\ x.direct /\ ~ acc[i - 1].direct /\ new[i] = acc[i - 1]
  <2>1. TAKE i \in (p + 1) .. (L + 1)
  <2>2. i - 1 \in 1 .. L /\ i - 1 \notin D
    BY <1>2, <1>6
  <2>3. QED
    BY <1>3, <1>9, <2>2
<1>13. new[p] = x
  BY <1>9
<1>14. \A i \in 1 .. (L + 1) : i \in 1 .. (p - 1) \/ i = p \/ i \in (p + 1) .. (L + 1)
  BY <1>2, <1>6
<1>15. ASSUME NEW i \in 1 .. (L + 1), NEW j \in 1 .. (L + 1), new[i].direct, ~ new[j].direct
       PROVE  i < j
  <2>1. CASE ~ x.direct
    <3>1. i \in 1 .. (p - 1)
      BY <1>12, <1>13, <1>14, <1>15, <2>1
    <3>2. j \in 1 .. (p - 1) => i < j
      BY <1>2, <1>11, <1>15, <3>1 DEF DirectMatchesFirst
    <3>3. QED
      BY <1>2, <1>6, <1>14, <3>1, <3>2
  <2>2. CASE x.direct
    <3>1. i \in 1 .. p
      BY <1>6, <1>12, <1>14, <1>15
    <3>2. j \in (p + 1) .. (L + 1)
      BY <1>11, <1>13, <1>14, <1>15, <2>2
    <3>3. QED
      BY <1>6, <3>1, <3>2
  <2>3. QED
    BY <2>1, <2>2
<1>16. ASSUME NEW i \in 1 .. (L + 1), NEW j \in 1 .. (L + 1), new[i].naics \in C, new[j].naics \notin C
       PROVE  i < j
  <2>1. CASE ~ x.direct
    <3>1. p = L + 1
      <4>1. (p + 1) .. (L + 1) = {}
        BY <1>12, <2>1
      <4>2. QED
        BY <1>2, <1>6, <4>1
    <3>2. CASE i = p
      <4>1. \A k \in 1 .. L : acc[k].naics \in C
        BY <1>2, <1>13, <1>16, <2>1, <3>2 DEF NaicsOf
      <4>2. \A k \in 1 .. (L + 1) : new[k].naics \in C
        BY <1>11, <1>12, <1>13, <1>14, <1>16, <3>2, <4>1
      <4>3. QED
        BY <1>16, <4>2
    <3>3. CASE i \in 1 .. (p - 1)
      <4>1. j \in 1 .. (p - 1) => i < j
        BY <1>2, <1>11, <1>16, <3>3 DEF PathsFirst
      <4>2. QED
        BY <1>2, <1>6, <1>14, <3>3, <4>1
    <3>4. QED
      BY <1>2, <1>6, <3>1, <3>2, <3>3
  <2>2. CASE x.direct
    <3>1. j \in (p + 1) .. (L + 1)
      BY <1>2, <1>11, <1>13, <1>14, <1>16, <2>2
    <3>2. CASE i \in (p + 1) .. (L + 1)
      <4>1. i - 1 < j - 1
        <5>1. /\ i - 1 \in DOMAIN acc /\ j - 1 \in DOMAIN acc
              /\ acc[i - 1].naics \in C /\ acc[j - 1].naics \notin C
          BY <1>2, <1>12, <1>16, <3>1, <3>2
        <5>2. QED
          BY <5>1 DEF PathsFirst
      <4>2. QED
        BY <4>1
    <3>3. CASE i \notin (p + 1) .. (L + 1)
      BY <1>6, <1>14, <3>1, <3>3
    <3>4. QED
      BY <3>2, <3>3
  <2>3. QED
    BY <2>1, <2>2
<1>17. NaicsOf(new) = NaicsOf(acc) \cup {x.naics}
  <2>1. \A i \in DOMAIN new : new[i] = x \/ \E k \in DOMAIN acc : new[i] = acc[k]
    BY <1>2, <1>10, <1>11, <1>12, <1>13, <1>14
  <2>2. \A k \in DOMAIN acc : \E i \in DOMAIN new : new[i] = acc[k]
    <3>1. TAKE k \in DOMAIN acc
    <3>2. CASE k < p
      <4>1. k \in DOMAIN new /\ k \in 1 .. (p - 1)
        BY <1>2, <1>6, <1>10, <3>2
      <4>2. QED
        BY <1>9, <4>1
    <3>3. CASE k >= p
      <4>1. k + 1 \in DOMAIN new /\ k + 1 \in (p + 1) .. (L + 1) /\ (k + 1) - 1 = k
        BY <1>2, <1>6, <1>10, <3>3
      <4>2. new[k + 1] = acc[k]
        BY <1>9, <4>1
      <4>3. QED
        BY <4>1, <4>2
    <3>4. k < p \/ k >= p
      BY <1>2, <1>6
    <3>5. QED
      BY <3>2, <3>3, <3>4
  <2>3. p \in DOMAIN new /\ new[p] = x
    BY <1>6, <1>10, <1>13
  <2>4. NaicsOf(new) \subseteq NaicsOf(acc) \cup {x.naics}
    BY <2>1 DEF NaicsOf
  <2>5. NaicsOf(acc) \subseteq NaicsOf(new)
    BY <2>2 DEF NaicsOf
  <2>6. x.naics \in NaicsOf(new)
    BY <2>3 DEF NaicsOf
  <2>7. QED
    BY <2>4, <2>5, <2>6
<1>18. DirectMatchesFirst(new) /\ PathsFirst(new, C)
  BY <1>10, <1>15, <1>16 DEF DirectMatchesFirst, PathsFirst
<1>19. QED
  BY <1>1, <1>9, <1>17, <1>18

\* The ranked paths are the paths, and those that come first stay first if the direct matches
\* are among them and nothing else tells two paths apart.
LEMMA RankPathsAre ==
    ASSUME NEW paths, IsSequence(paths), NEW C, PathsFirst(paths, C),
           \A a \in ToSet(paths) : a.direct => a.naics \in C,
           \A a, b \in ToSet(paths) : RanksBefore(a, b) <=> a.direct /\ ~ b.direct
    PROVE  /\ PathsFirst(RankPaths(paths), C) /\ NaicsOf(RankPaths(paths)) = NaicsOf(paths)
           /\ Len(RankPaths(paths)) = Len(paths)
<1>1. PICK f : IsRankRun(f, paths)
  BY RankPathsUnfolds
<1>2. PICK N, S : N = Len(paths) /\ S = ToSet(paths)
  OBVIOUS
<1>3. N \in Nat /\ DOMAIN paths = 1 .. N /\ \A n \in 1 .. N : paths[n] \in S
  BY <1>2 DEF IsSequence, ToSet
<1>4. /\ f \in [0 .. N -> Seq(S)] /\ f[0] = <<>> /\ f[N] = RankPaths(paths)
      /\ \A n \in 1 .. N :
            f[n] = InsertAt(f[n - 1],
                            1 + Cardinality({ i \in DOMAIN f[n - 1] : ~ RanksBefore(paths[n], f[n - 1][i]) }),
                            paths[n])
  BY <1>1, <1>2 DEF IsRankRun
<1> DEFINE Good(n) == /\ NaicsOf(f[n]) = { paths[k].naics : k \in 1 .. n } /\ Len(f[n]) = n
                      /\ DirectMatchesFirst(f[n]) /\ PathsFirst(f[n], C)
<1>5. PICK G : G = { n \in 0 .. N : Good(n) }
  OBVIOUS
<1>6. Good(0)
  BY <1>4 DEF NaicsOf, DirectMatchesFirst, PathsFirst
<1>7. ASSUME NEW n \in 0 .. (N - 1), Good(n)
      PROVE  Good(n + 1)
  <2>1. PICK p \in 1 .. N : p = n + 1 /\ p - 1 = n
    BY <1>3
  <2>2. PICK old, new, x : old = f[n] /\ new = f[p] /\ x = paths[p]
    OBVIOUS
  <2>3. old \in Seq(S) /\ x \in S
    BY <1>3, <1>4, <2>2
  <2>4. IsSequence(old) /\ ToSet(old) \subseteq S /\ \A i \in DOMAIN old : old[i] \in S
    BY <2>3, ElementsOf DEF IsSequence, ToSet
  <2>5. new = InsertAt(old, 1 + Cardinality({ i \in DOMAIN old : ~ RanksBefore(x, old[i]) }), x)
    <3>1. f[p] = InsertAt(f[p - 1],
                          1 + Cardinality({ i \in DOMAIN f[p - 1] : ~ RanksBefore(paths[p], f[p - 1][i]) }),
                          paths[p])
      BY <1>4
    <3>2. f[p - 1] = old /\ f[p] = new /\ paths[p] = x
      BY <2>1, <2>2
    <3>3. QED
      BY <3>1, <3>2, Zenon
  <2>6. /\ NaicsOf(old) = { paths[k].naics : k \in 1 .. n } /\ Len(old) = n
        /\ DirectMatchesFirst(old) /\ PathsFirst(old, C)
    BY <1>7, <2>2
  <2>7. /\ x.direct => x.naics \in C
        /\ \A i \in DOMAIN old : old[i].direct => old[i].naics \in C
        /\ \A i \in DOMAIN old : RanksBefore(x, old[i]) <=> x.direct /\ ~ old[i].direct
    BY <1>2, <2>3, <2>4
  <2>8. x.naics \in C => NaicsOf(old) \subseteq C
    <3>1. SUFFICES ASSUME x.naics \in C, NEW k \in 1 .. n PROVE paths[k].naics \in C
      BY <2>6
    <3>2. k \in DOMAIN paths /\ p \in DOMAIN paths /\ ~ p < k
      BY <1>3, <2>1
    <3>3. QED
      BY <2>2, <3>1, <3>2 DEF PathsFirst
  <2>9. /\ DirectMatchesFirst(new) /\ PathsFirst(new, C)
        /\ NaicsOf(new) = NaicsOf(old) \cup {x.naics} /\ Len(new) = Len(old) + 1
    BY <2>4, <2>5, <2>6, <2>7, <2>8, InsertRanks
  <2>10. { paths[k].naics : k \in 1 .. p } = { paths[k].naics : k \in 1 .. n } \cup {x.naics}
    <3>1. \A k \in 1 .. p : k \in 1 .. n \/ k = p
      BY <2>1
    <3>2. p \in 1 .. p /\ \A k \in 1 .. n : k \in 1 .. p
      BY <2>1
    <3>3. QED
      BY <2>2, <3>1, <3>2
  <2>11. QED
    BY <2>1, <2>2, <2>6, <2>9, <2>10
<1>8. Good(N)
  <2> HIDE DEF Good
  <2>1. 0 \in G /\ \A n \in 0 .. (N - 1) : n \in G => n + 1 \in G
    BY <1>3, <1>5, <1>6, <1>7
  <2>2. \A n \in 0 .. N : n \in G
    BY <1>3, <2>1, Induct
  <2>3. QED
    BY <1>3, <1>5, <2>2
<1>9. NaicsOf(paths) = { paths[k].naics : k \in 1 .. N }
  BY <1>3 DEF NaicsOf
<1>10. QED
  BY <1>2, <1>4, <1>8, <1>9

\* The codes of the first n mappings.
CodesUpTo(mappings, n) == { mappings[k].code : k \in 1 .. n }

\* Two sequences of mappings, one behind the other.
LEMMA ConcatIs ==
    ASSUME NEW s, IsSequence(s), NEW t, IsSequence(t)
    PROVE  /\ IsSequence(s \o t) /\ Codes(s \o t) = Codes(s) \cup Codes(t)
           /\ Len(s) \in 0 .. Len(s \o t)
           /\ Codes(s) = CodesUpTo(s \o t, Len(s))
<1>1. PICK S : S = ToSet(s) \cup ToSet(t)
  OBVIOUS
<1>2. s \in Seq(S) /\ t \in Seq(S)
  BY <1>1 DEF IsSequence
<1>3. PICK u : u = s \o t
  OBVIOUS
<1>4. /\ u \in Seq(S) /\ Len(u) = Len(s) + Len(t) /\ Len(s) \in Nat /\ Len(t) \in Nat
      /\ DOMAIN u = 1 .. Len(u) /\ DOMAIN s = 1 .. Len(s) /\ DOMAIN t = 1 .. Len(t)
      /\ \A i \in 1 .. Len(s) : u[i] = s[i]
      /\ \A i \in 1 .. Len(t) : u[Len(s) + i] = t[i]
      /\ \A i \in (Len(s) + 1) .. Len(u) : u[i] = t[i - Len(s)]
  BY <1>2, <1>3
<1>5. Codes(s) = CodesUpTo(u, Len(s))
  BY <1>4 DEF Codes, CodesUpTo
<1>6. Codes(s) \subseteq Codes(u)
  <2>1. \A i \in DOMAIN s : i \in DOMAIN u /\ u[i] = s[i]
    BY <1>4
  <2>2. QED
    BY <2>1 DEF Codes
<1>7. Codes(t) \subseteq Codes(u)
  <2>1. \A i \in DOMAIN t : Len(s) + i \in DOMAIN u /\ u[Len(s) + i] = t[i]
    BY <1>4
  <2>2. QED
    BY <2>1 DEF Codes
<1>8. Codes(u) \subseteq Codes(s) \cup Codes(t)
  <2>1. \A i \in DOMAIN u : i \in DOMAIN s \/ i \in (Len(s) + 1) .. Len(u)
    BY <1>4
  <2>2. \A i \in (Len(s) + 1) .. Len(u) : i - Len(s) \in DOMAIN t /\ u[i] = t[i - Len(s)]
    BY <1>4
  <2>3. \A i \in DOMAIN u : u[i].code \in Codes(s) \cup Codes(t)
    <3>1. \A i \in DOMAIN s : u[i].code \in Codes(s)
      BY <1>4 DEF Codes
    <3>2. \A i \in (Len(s) + 1) .. Len(u) : u[i].code \in Codes(t)
      BY <2>2 DEF Codes
    <3>3. QED
      BY <2>1, <3>1, <3>2
  <2>4. QED
    BY <2>3 DEF Codes
<1>9. IsSequence(u) /\ Len(s) \in 0 .. Len(u)
  BY <1>4, ElementsOf DEF IsSequence
<1>10. QED
  BY <1>3, <1>5, <1>6, <1>7, <1>8, <1>9

\* What traverseToLicensure() answers, for every database and every index: the codes of both
\* ways, once each, those of the program before the others.
LEMMA TraverseAre ==
    ASSUME NEW db, NEW maps, NEW cip, cip = TraverseCipToNaics(db, maps), IsSequence(cip),
           NEW soc, soc = TraverseSocToNaics(db, maps), IsSequence(soc),
           IsSequence(maps["cipToNaics"]), Targets(maps, "cipToNaics", Cip) \subseteq Codes(cip)
    PROVE  /\ NaicsOf(TraverseToLicensure(db, maps)) = Codes(cip) \cup Codes(soc)
           /\ Len(TraverseToLicensure(db, maps)) = Cardinality(Codes(cip) \cup Codes(soc))
           /\ PathsFirst(TraverseToLicensure(db, maps), Codes(cip))
<1>1. PICK codes, best : codes = cip \o soc /\ best = BestOfEach(codes)
  OBVIOUS
<1>2. /\ IsSequence(codes) /\ Codes(codes) = Codes(cip) \cup Codes(soc) /\ Len(cip) \in 0 .. Len(codes)
      /\ Codes(cip) = { codes[k].code : k \in 1 .. Len(cip) }
  <2>1. /\ IsSequence(cip \o soc) /\ Codes(cip \o soc) = Codes(cip) \cup Codes(soc)
        /\ Len(cip) \in 0 .. Len(cip \o soc)
        /\ Codes(cip) = CodesUpTo(cip \o soc, Len(cip))
    BY ConcatIs
  <2>2. QED
    BY <1>1, <2>1, Zenon DEF CodesUpTo
<1>3. /\ IsSequence(best) /\ Codes(best) = Codes(codes) /\ UniqueCodes(best)
      /\ CodesFirst(best, Codes(cip))
  <2>1. PICK m, C : m = Len(cip) /\ C = Codes(cip)
    OBVIOUS
  <2>2. m \in 0 .. Len(codes) /\ C = { codes[k].code : k \in 1 .. m }
    BY <1>2, <2>1, Zenon
  <2>3. /\ IsSequence(BestOfEach(codes)) /\ Codes(BestOfEach(codes)) = Codes(codes)
        /\ UniqueCodes(BestOfEach(codes)) /\ CodesFirst(BestOfEach(codes), C)
    BY <1>2, <2>2, BestAre
  <2>4. QED
    BY <1>1, <2>1, <2>3
<1>4. PICK socs, confidence, risk :
         /\ socs = TraverseCipToSoc(db, maps)
         /\ confidence = CalculateConfidence(socs, db.licensed) /\ risk = CalculateRisk(socs, db.licensed)
  OBVIOUS
<1>5. confidence \in Int /\ risk \in Int
  BY <1>4 DEF CalculateConfidence, CalculateRisk
<1>6. PICK paths : paths = [i \in DOMAIN best |->
                               [naics |-> best[i].code, mapping |-> best[i].confidence,
                                direct |-> IsDirectMatch(maps, best[i].code),
                                confidence |-> confidence, risk |-> risk]]
  OBVIOUS
<1>7. TraverseToLicensure(db, maps) = RankPaths(paths)
  BY <1>1, <1>4, <1>6 DEF TraverseToLicensure, Apply
<1>8. IsSequence(paths) /\ DOMAIN paths = DOMAIN best /\ Len(paths) = Len(best)
  BY <1>3, <1>6, MappedIs
<1>9. \A i \in DOMAIN best : /\ paths[i].naics = best[i].code
                             /\ paths[i].direct = IsDirectMatch(maps, best[i].code)
                             /\ paths[i].confidence = confidence /\ paths[i].risk = risk
  BY <1>6
<1>10. NaicsOf(paths) = Codes(best)
  BY <1>8, <1>9 DEF NaicsOf, Codes
<1>11. PathsFirst(paths, Codes(cip))
  BY <1>3, <1>8, <1>9 DEF PathsFirst, CodesFirst
<1>12. \A code : IsDirectMatch(maps, code) => code \in Codes(cip)
  <2>1. SUFFICES ASSUME NEW code, IsDirectMatch(maps, code) PROVE code \in Codes(cip)
    OBVIOUS
  <2>2. PICK i \in DOMAIN Rows(maps, "cipToNaics", Cip) : Rows(maps, "cipToNaics", Cip)[i].to = code
    BY <2>1 DEF IsDirectMatch
  <2>3. PICK row : row \in ToSet(Rows(maps, "cipToNaics", Cip)) /\ row.to = code
    BY <2>2 DEF ToSet
  <2>4. row \in ToSet(maps["cipToNaics"]) /\ row.from = Cip
    BY <2>3, RowsAre
  <2>5. QED
    BY <2>3, <2>4 DEF Targets
<1>13. \A a \in ToSet(paths) : /\ a.direct \in BOOLEAN /\ a.direct => a.naics \in Codes(cip)
                               /\ a.confidence = confidence /\ a.risk = risk
  <2>1. SUFFICES ASSUME NEW i \in DOMAIN best
                 PROVE  /\ paths[i].direct \in BOOLEAN /\ paths[i].direct => paths[i].naics \in Codes(cip)
                        /\ paths[i].confidence = confidence /\ paths[i].risk = risk
    BY <1>8 DEF ToSet
  <2>2. IsDirectMatch(maps, best[i].code) \in BOOLEAN
    BY DEF IsDirectMatch
  <2>3. QED
    BY <1>9, <1>12, <2>2
<1>14. \A a, b \in ToSet(paths) : RanksBefore(a, b) <=> a.direct /\ ~ b.direct
  BY <1>5, <1>13 DEF RanksBefore
<1>15. PICK ranked : ranked = RankPaths(paths)
  OBVIOUS
<1>16. PathsFirst(ranked, Codes(cip)) /\ NaicsOf(ranked) = NaicsOf(paths) /\ Len(ranked) = Len(paths)
  BY <1>8, <1>11, <1>13, <1>14, <1>15, RankPathsAre
<1>17. Len(best) = Cardinality(Codes(best))
  <2>1. PICK g : g = [i \in DOMAIN best |-> best[i].code]
    OBVIOUS
  <2>2. Len(best) \in Nat /\ DOMAIN best = 1 .. Len(best)
    BY <1>3 DEF IsSequence
  <2>3. /\ g \in [1 .. Len(best) -> Codes(best)]
        /\ \A c \in Codes(best) : \E i \in 1 .. Len(best) : g[i] = c
        /\ \A i, j \in 1 .. Len(best) : g[i] = g[j] => i = j
    BY <1>3, <2>1, <2>2 DEF Codes, UniqueCodes
  <2>4. QED
    BY <2>2, <2>3, CountIs
<1>18. QED
  BY <1>2, <1>3, <1>7, <1>8, <1>10, <1>15, <1>16, <1>17

-------------------------------------------------------------------------------

\* An answer is that of the frozen index, which holds the rows of the files.
LEMMA AnswerIs ==
    ASSUME ResolverInv, NEW l \in Lookups, Ranked(l)
    PROVE  /\ NaicsOf(answer[l]) = NaicsOfCip \cup NaicsOfSoc
           /\ Len(answer[l]) = Cardinality(NaicsOfCip \cup NaicsOfSoc)
           /\ PathsFirst(answer[l], NaicsOfCip)
<1>1. PICK db : db = world.db
  OBVIOUS
<1>2. /\ answer[l] = TraverseToLicensure(db, index)
      /\ \A crosswalk \in Crosswalks : /\ IsSequence(index[crosswalk])
                                       /\ ToSet(index[crosswalk]) = Files(crosswalk)
  BY <1>1 DEF ResolverInv, ResolverTypes, IndexSound, FrozenComplete, FrozenAsked, Ranked
<1>3. {"cipToNaics", "cipToSoc", "socToNaics"} \subseteq Crosswalks
  BY DEF Crosswalks
<1>4. \A crosswalk \in Crosswalks : \A from : Targets(index, crosswalk, from) = Related(crosswalk, from)
  BY <1>2 DEF Targets, Related
<1>5. /\ db.cipToNaics \in Seq(Naics) /\ db.cipToSoc \in Seq(Soc) /\ db.socToNaics \in [Soc -> Seq(Naics)]
  BY <1>1, UcoResolverAssumption DEF ResolverInv, ResolverTypes
<1>6. /\ IsSequence(db.cipToNaics) /\ IsSequence(db.cipToSoc) /\ ToSet(db.cipToSoc) \subseteq Soc
      /\ \A soc \in Soc : IsSequence(db.socToNaics[soc])
  BY <1>5, ElementsOf DEF IsSequence
<1>7. PICK cip : cip = TraverseCipToNaics(db, index)
  OBVIOUS
<1>8. IsSequence(cip) /\ Codes(cip) = NaicsOfCip
  BY <1>1, <1>2, <1>3, <1>4, <1>6, <1>7, FromCipAre DEF TraverseCipToNaics, NaicsOfCip
<1>9. PICK socs : socs = TraverseCipToSoc(db, index)
  OBVIOUS
<1>10. IsSequence(socs) /\ Codes(socs) = SocOfCip
  BY <1>1, <1>2, <1>3, <1>4, <1>6, <1>9, FromCipAre DEF TraverseCipToSoc, SocOfCip
<1>11. SocOfCip \subseteq Soc
  <2>1. Related("cipToSoc", Cip) \subseteq Soc
    <3>1. SUFFICES ASSUME NEW row \in Files("cipToSoc") PROVE row.to \in Soc
      BY DEF Related
    <3>2. "cipToSoc" \in DOMAIN world.files /\ row \in ToSet(world.files["cipToSoc"])
      BY DEF Files, Configured
    <3>3. world \in Worlds
      BY DEF ResolverInv, ResolverTypes
    <3>4. IsRow(row, Soc)
      BY <3>2, <3>3, UcoResolverAssumption
    <3>5. QED
      BY <3>4 DEF IsRow
  <2>2. QED
    BY <1>1, <1>6, <2>1 DEF SocOfCip
<1>12. PICK soc : soc = TraverseSocToNaics(db, index)
  OBVIOUS
<1>13. /\ IsSequence(soc)
       /\ Codes(soc) = UNION { LeadsTo(db, index, code) : code \in SocOfCip }
  <2>1. \A code \in Codes(socs) : IsSequence(db.socToNaics[code])
    BY <1>6, <1>10, <1>11
  <2>2. IsSequence(index["socToNaics"])
    BY <1>2, <1>3
  <2>3. /\ IsSequence(TraverseSocToNaics(db, index))
        /\ Codes(TraverseSocToNaics(db, index)) = UNION { LeadsTo(db, index, code) : code \in Codes(socs) }
    BY <1>9, <1>10, <2>1, <2>2, SocToNaicsAre
  <2>4. QED
    BY <1>10, <1>12, <2>3
<1>14. Codes(soc) = NaicsOfSoc
  BY <1>1, <1>3, <1>4, <1>13 DEF LeadsTo, NaicsOfSoc
<1>15. Targets(index, "cipToNaics", Cip) \subseteq Codes(cip) /\ IsSequence(index["cipToNaics"])
  BY <1>2, <1>3, <1>4, <1>8 DEF NaicsOfCip
<1>16. /\ NaicsOf(TraverseToLicensure(db, index)) = Codes(cip) \cup Codes(soc)
       /\ Len(TraverseToLicensure(db, index)) = Cardinality(Codes(cip) \cup Codes(soc))
       /\ PathsFirst(TraverseToLicensure(db, index), Codes(cip))
  BY <1>7, <1>8, <1>12, <1>13, <1>15, TraverseAre
<1>17. QED
  BY <1>2, <1>8, <1>14, <1>16

\* Each code that is related to the program is in every answer, once.
THEOREM AnswersAlwaysComplete == ResolverSpec => []AnswersComplete
<1>1. ResolverInv => AnswersComplete
  BY AnswerIs DEF AnswersComplete, NaicsOf
<1>2. QED
  BY <1>1, ResolverInvariant, PTL

\* The codes of the program itself stand before the others in every answer.
THEOREM DirectAlwaysFirst == ResolverSpec => []DirectFirst
<1>1. ResolverInv => DirectFirst
  BY AnswerIs DEF DirectFirst, PathsFirst
<1>2. QED
  BY <1>1, ResolverInvariant, PTL

================================================================================
