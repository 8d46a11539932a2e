--------------------------- MODULE RateLimiterProofs ----------------------------
(***************************************************************************)
(* Proofs about RateLimiter, for every number of addresses and requests,   *)
(* every length of time, and the limits a configuration may have.  That a  *)
(* limit admits somebody, and that an admin window is not the shorter one, *)
(* is checked nowhere in the code, so it is a hypothesis of the theorem    *)
(* that needs it.                                                          *)
(***************************************************************************)
EXTENDS RateLimiter, FiniteSetTheorems, TLAPS

Request == [ip : Ips, admin : BOOLEAN, at : Nat, admitted : BOOLEAN]

Types ==
    /\ now \in Nat
    /\ rateLimitStore \in [Ips -> [count : Nat, resetAt : Int]]
    /\ log \in Seq(Request)

\* Requests are in the log in the order of time.
InOrder ==
    /\ \A i, j \in DOMAIN log : i <= j => log[i].at <= log[j].at
    /\ \A i \in DOMAIN log : log[i].at <= now

\* The window of an address was opened by a request that was admitted.
OpenerAdmitted ==
    \A ip \in Ips :
        \/ rateLimitStore[ip] = NoEntry /\ \A i \in DOMAIN log : log[i].ip # ip
        \/ \E o \in DOMAIN log : /\ log[o].ip = ip /\ log[o].admitted
                                 /\ rateLimitStore[ip].resetAt <= log[o].at + Longest

-------------------------------------------------------------------------------
(* Types and order.                                                        *)

LEMMA LimitTypes ==
    /\ RateMax \in Nat /\ AdminRateMax \in Nat /\ Window \in Nat /\ AdminWindow \in Nat /\ Longest \in Nat
    /\ \A a \in BOOLEAN : MaxOf(a) \in Nat /\ WindowOf(a) \in Nat /\ WindowOf(a) <= Longest
<1>1. RateMax \in Nat /\ AdminRateMax \in Nat /\ Window \in Nat /\ AdminWindow \in Nat
  BY RateAssumption
<1>2. QED
  BY <1>1 DEF MaxOf, WindowOf, Longest

LEMMA LogTypes ==
    ASSUME Types
    PROVE  \A i \in DOMAIN log : i \in Nat \ {0} /\ log[i].ip \in Ips /\ log[i].at \in Nat /\ log[i].admin \in BOOLEAN
<1>1. Len(log) \in Nat /\ DOMAIN log = 1 .. Len(log) /\ \A i \in DOMAIN log : log[i] \in Request
  BY DEF Types
<1>2. QED
  BY <1>1 DEF Request

LEMMA CountTypes ==
    ASSUME NEW entry \in [count : Nat, resetAt : Int], NEW isAdmin \in BOOLEAN, NEW time \in Nat
    PROVE  /\ Count(entry, isAdmin, time) \in [count : Nat, resetAt : Int]
           /\ Within(Count(entry, isAdmin, time), isAdmin) \in BOOLEAN
           /\ time > entry.resetAt =>
                 /\ Count(entry, isAdmin, time).count = 1
                 /\ Count(entry, isAdmin, time).resetAt = time + WindowOf(isAdmin)
           /\ ~ time > entry.resetAt =>
                 /\ Count(entry, isAdmin, time).count = entry.count + 1
                 /\ Count(entry, isAdmin, time).resetAt = entry.resetAt
BY LimitTypes DEF Count, Within

\* What checkRateLimit() writes, and that nothing else changes.
LEMMA CheckEffect ==
    ASSUME Types, NEW ip \in Ips, NEW isAdmin \in BOOLEAN, CheckRateLimit(ip, isAdmin),
           NEW next, next = Len(log) + 1,
           NEW entry, entry = Count(rateLimitStore[ip], isAdmin, now)
    PROVE  /\ entry \in [count : Nat, resetAt : Int] /\ next \in Nat \ {0}
           /\ rateLimitStore'[ip] = entry
           /\ \A other \in Ips \ {ip} : rateLimitStore'[other] = rateLimitStore[other]
           /\ DOMAIN log = 1 .. (next - 1) /\ DOMAIN log' = 1 .. next
           /\ \A i \in DOMAIN log : log'[i] = log[i]
           /\ log'[next].ip = ip /\ log'[next].admin = isAdmin /\ log'[next].at = now
           /\ log'[next].admitted = Within(entry, isAdmin)
           /\ now' = now /\ Types'
<1>1. entry \in [count : Nat, resetAt : Int] /\ Within(entry, isAdmin) \in BOOLEAN
  BY CountTypes DEF Types
<1>2. PICK r : r = [ip |-> ip, admin |-> isAdmin, at |-> now, admitted |-> Within(entry, isAdmin)]
  OBVIOUS
<1>3. r \in Request
  BY <1>1, <1>2 DEF Request, Types
<1>4. rateLimitStore' = [rateLimitStore EXCEPT ![ip] = entry] /\ log' = Append(log, r) /\ now' = now
  BY <1>2 DEF CheckRateLimit
<1>5. /\ log' \in Seq(Request) /\ next \in Nat \ {0}
      /\ DOMAIN log = 1 .. (next - 1) /\ DOMAIN log' = 1 .. next
      /\ \A i \in DOMAIN log : log'[i] = log[i]
      /\ log'[next] = r
  BY <1>3, <1>4 DEF Types
<1>6. QED
  BY <1>1, <1>2, <1>4, <1>5 DEF Types

LEMMA InOrderStep == Types /\ InOrder /\ [Next]_vars => Types' /\ InOrder'
<1> SUFFICES ASSUME Types, InOrder, [Next]_vars PROVE Types' /\ InOrder'
  OBVIOUS
<1>1. CASE Tick \/ UNCHANGED vars
  <2>1. /\ log' = log /\ rateLimitStore' = rateLimitStore /\ now' \in Nat /\ now' >= now
    BY <1>1 DEF Tick, vars, Types
  <2>2. \A i \in DOMAIN log : log[i].at \in Nat
    BY LogTypes
  <2>3. QED
    BY <2>1, <2>2 DEF Types, InOrder
<1>2. ASSUME NEW ip \in Ips, NEW isAdmin \in BOOLEAN, CheckRateLimit(ip, isAdmin) PROVE Types' /\ InOrder'
  <2>1. PICK next : next = Len(log) + 1
    OBVIOUS
  <2>2. PICK entry : entry = Count(rateLimitStore[ip], isAdmin, now)
    OBVIOUS
  <2>3. /\ DOMAIN log = 1 .. (next - 1) /\ DOMAIN log' = 1 .. next /\ next \in Nat \ {0}
        /\ \A i \in DOMAIN log : log'[i] = log[i]
        /\ log'[next].at = now /\ now' = now /\ Types'
    BY <1>2, <2>1, <2>2, CheckEffect
  <2>4. \A i \in DOMAIN log : log[i].at \in Nat
    BY LogTypes
  <2>5. now \in Nat
    BY DEF Types
  <2>8. QED
    BY <2>3, <2>4, <2>5 DEF InOrder
<1>3. QED
  BY <1>1, <1>2 DEF Next

-------------------------------------------------------------------------------
(* Nobody is locked out.                                                   *)

LockInv == Types /\ InOrder /\ OpenerAdmitted /\ NobodyLockedOut

LEMMA LockInvStep ==
    ASSUME RateMax > 0, AdminRateMax > 0
    PROVE  LockInv /\ [Next]_vars => LockInv'
<1> SUFFICES ASSUME LockInv, [Next]_vars PROVE LockInv'
  OBVIOUS
<1>0. Types /\ InOrder /\ Types' /\ InOrder'
  BY InOrderStep DEF LockInv
<1>1. CASE Tick \/ UNCHANGED vars
  BY <1>0, <1>1 DEF Tick, vars, LockInv, OpenerAdmitted, NobodyLockedOut
<1>2. ASSUME NEW ip \in Ips, NEW isAdmin \in BOOLEAN, CheckRateLimit(ip, isAdmin) PROVE LockInv'
  <2>1. PICK next : next = Len(log) + 1
    OBVIOUS
  <2>2. PICK old : old = rateLimitStore[ip]
    OBVIOUS
  <2>3. PICK entry : entry = Count(old, isAdmin, now)
    OBVIOUS
  <2>4. /\ rateLimitStore'[ip] = entry
        /\ \A other \in Ips \ {ip} : rateLimitStore'[other] = rateLimitStore[other]
        /\ DOMAIN log = 1 .. (next - 1) /\ DOMAIN log' = 1 .. next /\ next \in Nat \ {0}
        /\ \A i \in DOMAIN log : log'[i] = log[i]
        /\ log'[next].ip = ip /\ log'[next].at = now
        /\ log'[next].admitted = Within(entry, isAdmin)
    BY <1>0, <1>2, <2>1, <2>2, <2>3, CheckEffect
  <2>5. /\ old \in [count : Nat, resetAt : Int] /\ now \in Nat
        /\ Longest \in Nat /\ WindowOf(isAdmin) \in Nat /\ WindowOf(isAdmin) <= Longest
        /\ MaxOf(isAdmin) \in Nat \ {0}
        /\ \A i \in DOMAIN log : log[i].at \in Nat
        /\ \A i \in DOMAIN log' : log'[i].at \in Nat
    <3>1. \A i \in DOMAIN log : log[i].at \in Nat
      BY <1>0, LogTypes
    <3>2. old \in [count : Nat, resetAt : Int] /\ now \in Nat /\ MaxOf(isAdmin) > 0
      BY <1>0, <2>2 DEF Types, MaxOf
    <3>3. \A i \in DOMAIN log' : log'[i].at \in Nat
      BY <2>4, <3>1, <3>2
    <3>4. QED
      BY <3>1, <3>2, <3>3, LimitTypes
  <2>6. ASSUME \A i \in DOMAIN log' : i < next /\ log'[i].ip = ip /\ now - log'[i].at > Longest =>
                    \E k \in i .. next : log'[k].ip = ip /\ log'[k].admitted
        PROVE  NobodyLockedOut'
    <3>1. ASSUME NEW i \in DOMAIN log', NEW j \in DOMAIN log',
                 i < j, log'[i].ip = log'[j].ip, log'[j].at - log'[i].at > Longest
          PROVE  \E k \in i .. j : log'[k].ip = log'[i].ip /\ log'[k].admitted
      <4>1. CASE j = next
        BY <2>4, <2>6, <3>1, <4>1
      <4>2. CASE j # next
        <5>1. /\ i \in DOMAIN log /\ j \in DOMAIN log /\ log'[i] = log[i] /\ log'[j] = log[j]
          BY <2>4, <3>1, <4>2
        <5>2. PICK k \in i .. j : log[k].ip = log[i].ip /\ log[k].admitted
          BY <3>1, <5>1 DEF LockInv, NobodyLockedOut
        <5>3. k \in DOMAIN log /\ log'[k] = log[k]
          BY <2>4, <5>1
        <5>4. QED
          BY <5>1, <5>2, <5>3
      <4>3. QED
        BY <4>1, <4>2
    <3>2. QED
      BY <3>1 DEF NobodyLockedOut, Longest
  <2>7. /\ now > old.resetAt => entry.count = 1 /\ entry.resetAt = now + WindowOf(isAdmin)
        /\ ~ now > old.resetAt => entry.count = old.count + 1 /\ entry.resetAt = old.resetAt
    <3>1. old.resetAt \in Int /\ old.count \in Nat
      BY <2>5
    <3>2. QED
      BY <2>3, <2>5, <3>1 DEF Count
  <2>8. CASE now > old.resetAt
    <3>1. entry.count = 1 /\ entry.resetAt = now + WindowOf(isAdmin)
      BY <2>5, <2>7, <2>8
    <3>2. log'[next].admitted
      <4>1. Within(entry, isAdmin)
        BY <2>5, <3>1 DEF Within
      <4>2. QED
        BY <2>4, <4>1
    <3>3. OpenerAdmitted'
      <4>1. next \in DOMAIN log' /\ rateLimitStore'[ip].resetAt <= log'[next].at + Longest
        BY <2>4, <2>5, <3>1
      <4>2. QED
        BY <2>4, <3>2, <4>1 DEF OpenerAdmitted, LockInv
    <3>4. NobodyLockedOut'
      BY <2>4, <3>2, <2>6 DEF NobodyLockedOut, LockInv
    <3>5. QED
      BY <1>0, <3>3, <3>4 DEF LockInv
  <2>9. CASE ~ now > old.resetAt
    <3>1. entry.resetAt = old.resetAt
      BY <2>5, <2>7, <2>9
    <3>2. PICK o \in DOMAIN log : /\ log[o].ip = ip /\ log[o].admitted
                                  /\ old.resetAt <= log[o].at + Longest
      BY <2>2, <2>5, <2>9 DEF LockInv, OpenerAdmitted, NoEntry
    <3>3. OpenerAdmitted'
      <4>1. o \in DOMAIN log' /\ log'[o] = log[o] /\ rateLimitStore'[ip].resetAt <= log'[o].at + Longest
        BY <2>4, <3>1, <3>2
      <4>2. QED
        BY <2>4, <3>2, <4>1 DEF OpenerAdmitted, LockInv
    <3>4. ASSUME NEW i \in DOMAIN log', i < next, log'[i].ip = ip, now - log'[i].at > Longest
          PROVE  \E k \in i .. next : log'[k].ip = ip /\ log'[k].admitted
      <4>1. log[i].at < log[o].at /\ i \in DOMAIN log
        BY <2>4, <2>5, <2>9, <3>2, <3>4, SMTT(30)
      <4>2. i \in Nat /\ o \in Nat /\ o < next
        BY <2>4, <4>1
      <4>3. ~ o <= i
        BY <1>0, <2>5, <4>1 DEF InOrder
      <4>4. QED
        BY <2>4, <3>2, <4>1, <4>2, <4>3
    <3>5. NobodyLockedOut'
      BY <2>6, <3>4
    <3>6. QED
      BY <1>0, <3>3, <3>5 DEF LockInv
  <2>10. QED
    BY <2>8, <2>9
<1>3. QED
  BY <1>1, <1>2 DEF Next

\* NobodyLockedOut: where both limits admit a request at all, an address that asks for
\* longer than a window is admitted in it, however often it was refused meanwhile.
THEOREM ClientsNotLockedOut ==
    ASSUME RateMax > 0, AdminRateMax > 0
    PROVE  Spec => []NobodyLockedOut
<1>1. Init => LockInv
  BY DEF Init, LockInv, Types, InOrder, OpenerAdmitted, NobodyLockedOut, NoEntry
<1>2. LockInv /\ [Next]_vars => LockInv'
  BY LockInvStep
<1>3. LockInv => NobodyLockedOut
  BY DEF LockInv
<1>4. QED
  BY <1>1, <1>2, <1>3, PTL DEF Spec

-------------------------------------------------------------------------------
(* Admissions are bounded.  w[i] is the request that opened the window in  *)
(* which request i was counted.                                            *)

LengthOf(o) == WindowOf(log[o].admin)

AdmittedIn(w, o, a) == { i \in DOMAIN log : w[i] = o /\ log[i].admin = a /\ log[i].admitted }

\* Windows of an address follow each other, and each is as long as its opener says.
Openers(w) ==
    /\ w \in [DOMAIN log -> DOMAIN log]
    /\ \A i \in DOMAIN log :
          w[i] <= i /\ log[w[i]].ip = log[i].ip /\ log[i].at <= log[w[i]].at + LengthOf(w[i])
    /\ \A i, j \in DOMAIN log :
          log[i].ip = log[j].ip /\ w[i] < w[j] => log[w[j]].at > log[w[i]].at + LengthOf(w[i])

\* No window admits more of a class than its maximum.
WindowsBounded(w) == \A o \in DOMAIN log, a \in BOOLEAN : Cardinality(AdmittedIn(w, o, a)) <= MaxOf(a)

\* The entry of an address is that of its last window, and counts what was admitted in it.
EntriesFit(w) ==
    \A ip \in Ips :
        \/ rateLimitStore[ip] = NoEntry /\ \A i \in DOMAIN log : log[i].ip # ip
        \/ \E o \in DOMAIN log :
              /\ log[o].ip = ip /\ w[o] = o /\ rateLimitStore[ip].resetAt = log[o].at + LengthOf(o)
              /\ \A i \in DOMAIN log : log[i].ip = ip => w[i] <= o
              /\ \A a \in BOOLEAN : Cardinality(AdmittedIn(w, o, a)) <= rateLimitStore[ip].count

Windowed(w) == Openers(w) /\ WindowsBounded(w) /\ EntriesFit(w)

WindowInv == Types /\ InOrder /\ \E w : Windowed(w)

LEMMA AdmittedFinite ==
    ASSUME Types, NEW w, NEW o, NEW a
    PROVE  IsFiniteSet(AdmittedIn(w, o, a)) /\ Cardinality(AdmittedIn(w, o, a)) \in Nat
<1>1. IsFiniteSet(1 .. Len(log)) /\ DOMAIN log = 1 .. Len(log)
  BY FS_Interval DEF Types
<1>2. AdmittedIn(w, o, a) \subseteq DOMAIN log
  BY DEF AdmittedIn
<1>3. QED
  BY <1>1, <1>2, FS_Subset, FS_CardinalityType

\* One more request, which opens a window or is counted in one.
LEMMA AdmittedGrows ==
    ASSUME Types, NEW ip \in Ips, NEW isAdmin \in BOOLEAN, CheckRateLimit(ip, isAdmin),
           NEW next, next = Len(log) + 1,
           NEW w, NEW v, \A i \in DOMAIN log : v[i] = w[i],
           NEW o, NEW a
    PROVE  /\ ~ (v[next] = o /\ isAdmin = a /\ log'[next].admitted) =>
                 AdmittedIn(v, o, a)' = AdmittedIn(w, o, a)
           /\ v[next] = o /\ isAdmin = a /\ log'[next].admitted =>
                 Cardinality(AdmittedIn(v, o, a)') = Cardinality(AdmittedIn(w, o, a)) + 1
<1>1. PICK entry : entry = Count(rateLimitStore[ip], isAdmin, now)
  OBVIOUS
<1>2. /\ DOMAIN log = 1 .. (next - 1) /\ DOMAIN log' = 1 .. next /\ next \in Nat \ {0}
      /\ \A i \in DOMAIN log : log'[i] = log[i]
      /\ log'[next].admin = isAdmin
  BY <1>1, CheckEffect
<1>3. ASSUME ~ (v[next] = o /\ isAdmin = a /\ log'[next].admitted)
      PROVE  AdmittedIn(v, o, a)' = AdmittedIn(w, o, a)
  BY <1>2, <1>3 DEF AdmittedIn
<1>4. ASSUME v[next] = o, isAdmin = a, log'[next].admitted
      PROVE  Cardinality(AdmittedIn(v, o, a)') = Cardinality(AdmittedIn(w, o, a)) + 1
  <2>1. PICK before : before = AdmittedIn(w, o, a)
    OBVIOUS
  <2>2. AdmittedIn(v, o, a)' = before \cup {next} /\ next \notin before
    BY <1>2, <1>4, <2>1 DEF AdmittedIn
  <2>3. IsFiniteSet(before)
    BY <2>1, AdmittedFinite
  <2>4. Cardinality(before \cup {next}) = Cardinality(before) + 1
    BY <2>2, <2>3, FS_AddElement
  <2>5. QED
    BY <2>1, <2>2, <2>4
<1>5. QED
  BY <1>3, <1>4

LEMMA WindowInvStep == WindowInv /\ [Next]_vars => WindowInv'
<1> SUFFICES ASSUME WindowInv, [Next]_vars PROVE WindowInv'
  OBVIOUS
<1>0. Types /\ InOrder /\ Types' /\ InOrder'
  BY InOrderStep DEF WindowInv
<1>1. PICK w : Windowed(w)
  BY DEF WindowInv
<1>2. CASE Tick \/ UNCHANGED vars
  <2>1. log' = log /\ rateLimitStore' = rateLimitStore
    BY <1>2 DEF Tick, vars
  <2>2. Windowed(w)'
    BY <1>1, <2>1 DEF Windowed, Openers, WindowsBounded, EntriesFit, AdmittedIn, LengthOf
  <2>3. QED
    BY <1>0, <2>2 DEF WindowInv
<1>3. ASSUME NEW ip \in Ips, NEW isAdmin \in BOOLEAN, CheckRateLimit(ip, isAdmin) PROVE WindowInv'
  <2>1. PICK next : next = Len(log) + 1
    OBVIOUS
  <2>2. PICK old : old = rateLimitStore[ip]
    OBVIOUS
  <2>3. PICK entry : entry = Count(old, isAdmin, now)
    OBVIOUS
  <2>4. /\ rateLimitStore'[ip] = entry
        /\ \A other \in Ips \ {ip} : rateLimitStore'[other] = rateLimitStore[other]
        /\ DOMAIN log = 1 .. (next - 1) /\ DOMAIN log' = 1 .. next /\ next \in Nat \ {0}
        /\ \A i \in DOMAIN log : log'[i] = log[i]
        /\ log'[next].ip = ip /\ log'[next].at = now /\ log'[next].admin = isAdmin
        /\ log'[next].admitted = Within(entry, isAdmin)
    BY <1>0, <1>3, <2>1, <2>2, <2>3, CheckEffect
  <2>5. /\ old.resetAt \in Int /\ old.count \in Nat /\ now \in Nat
        /\ WindowOf(isAdmin) \in Nat /\ \A a \in BOOLEAN : MaxOf(a) \in Nat
    BY <1>0, <2>2, LimitTypes DEF Types
  <2>6. /\ now > old.resetAt => entry.count = 1 /\ entry.resetAt = now + WindowOf(isAdmin)
        /\ ~ now > old.resetAt => entry.count = old.count + 1 /\ entry.resetAt = old.resetAt
    BY <2>3, <2>5 DEF Count
  <2>7. /\ \A i \in DOMAIN log : log[i].at \in Nat /\ log[i].ip \in Ips /\ LengthOf(i) \in Nat
        /\ \A i \in DOMAIN log : LengthOf(i)' = LengthOf(i)
        /\ \A n : n = next => LengthOf(n)' = WindowOf(isAdmin)
    BY <1>0, <2>4, LogTypes, LimitTypes DEF LengthOf, WindowOf
  <2>8. /\ w \in [DOMAIN log -> DOMAIN log]
        /\ \A i \in DOMAIN log : w[i] \in 1 .. (next - 1) /\ w[i] <= i /\ log[w[i]].ip = log[i].ip
                                /\ log[i].at <= log[w[i]].at + LengthOf(w[i])
        /\ \A i, j \in DOMAIN log :
              log[i].ip = log[j].ip /\ w[i] < w[j] => log[w[j]].at > log[w[i]].at + LengthOf(w[i])
    BY <1>1, <2>4 DEF Windowed, Openers
  <2>9. ASSUME NEW v, NEW o \in DOMAIN log',
               v = [i \in DOMAIN log' |-> IF i = next THEN o ELSE w[i]],
               log'[o].ip = ip, v[o] = o, entry.resetAt = log'[o].at + LengthOf(o)',
               \A i \in DOMAIN log : log[i].ip = ip => w[i] <= o,
               Openers(v)',
               \A a \in BOOLEAN : Cardinality(AdmittedIn(w, o, a)) <= MaxOf(a),
               \A a \in BOOLEAN : Cardinality(AdmittedIn(w, o, a)) <= entry.count,
               Cardinality(AdmittedIn(w, o, isAdmin)) + 1 <= entry.count
        PROVE  WindowInv'
    <3>1. /\ v[next] = o /\ next \in DOMAIN log'
          /\ \A i \in DOMAIN log : i \in DOMAIN log' /\ v[i] = w[i] /\ w[i] \in DOMAIN log /\ w[i] < next
      <4>1. v[next] = o /\ next \in DOMAIN log'
        BY <2>4, <2>9
      <4>2. ASSUME NEW i \in DOMAIN log
            PROVE  i \in DOMAIN log' /\ v[i] = w[i] /\ w[i] \in DOMAIN log /\ w[i] < next
        <5>1. w[i] \in 1 .. (next - 1) /\ i \in 1 .. (next - 1)
          BY <2>4, <2>8
        <5>2. QED
          BY <2>4, <2>9, <5>1
      <4>3. QED
        BY <4>1, <4>2
    <3>2. ASSUME NEW p, NEW a
          PROVE  /\ ~ (o = p /\ isAdmin = a /\ log'[next].admitted) =>
                       AdmittedIn(v, p, a)' = AdmittedIn(w, p, a)
                 /\ o = p /\ isAdmin = a /\ log'[next].admitted =>
                       Cardinality(AdmittedIn(v, p, a)') = Cardinality(AdmittedIn(w, p, a)) + 1
      BY <1>0, <1>3, <2>1, <3>1, AdmittedGrows
    <3>3. ASSUME NEW p, NEW a \in BOOLEAN PROVE Cardinality(AdmittedIn(w, p, a)) \in Nat
      BY <1>0, AdmittedFinite
    <3>4. \A a \in BOOLEAN : Cardinality(AdmittedIn(v, o, a)') <= entry.count
      BY <2>9, <3>2, <3>3
    <3>5. ASSUME NEW p \in DOMAIN log', NEW a \in BOOLEAN PROVE Cardinality(AdmittedIn(v, p, a)') <= MaxOf(a)
      <4>1. CASE p # o
        <5>1. CASE p \in DOMAIN log
          BY <1>1, <3>2, <4>1, <5>1 DEF Windowed, WindowsBounded
        <5>2. CASE p = next
          <6>1. AdmittedIn(w, p, a) = {}
            BY <2>4, <3>1, <5>2 DEF AdmittedIn
          <6>2. Cardinality(AdmittedIn(v, p, a)') = 0
            BY <3>2, <4>1, <6>1, FS_EmptySet
          <6>3. QED
            BY <2>5, <6>2
        <5>3. QED
          BY <2>4, <5>1, <5>2
      <4>2. CASE p = o /\ ~ (isAdmin = a /\ log'[next].admitted)
        BY <2>9, <3>2, <4>2
      <4>3. CASE p = o /\ isAdmin = a /\ log'[next].admitted
        <5>1. entry.count <= MaxOf(a)
          BY <2>4, <4>3 DEF Within
        <5>2. Cardinality(AdmittedIn(v, p, a)') <= entry.count
          BY <3>4, <4>3
        <5>3. QED
          BY <2>5, <2>6, <3>2, <3>3, <4>3, <5>1, <5>2
      <4>4. QED
        BY <4>1, <4>2, <4>3
    <3>6. WindowsBounded(v)'
      BY <3>5 DEF WindowsBounded, MaxOf
    <3>7. EntriesFit(v)'
      <4>1. ASSUME NEW other \in Ips \ {ip}
            PROVE  \/ rateLimitStore'[other] = NoEntry /\ \A i \in DOMAIN log' : log'[i].ip # other
                   \/ \E q \in DOMAIN log' :
                         /\ log'[q].ip = other /\ v[q] = q
                         /\ rateLimitStore'[other].resetAt = log'[q].at + LengthOf(q)'
                         /\ \A i \in DOMAIN log' : log'[i].ip = other => v[i] <= q
                         /\ \A a \in BOOLEAN :
                               Cardinality(AdmittedIn(v, q, a)') <= rateLimitStore'[other].count
        <5>1. CASE rateLimitStore[other] = NoEntry /\ \A i \in DOMAIN log : log[i].ip # other
          BY <2>4, <5>1
        <5>2. ASSUME NEW q \in DOMAIN log,
                     log[q].ip = other, w[q] = q, rateLimitStore[other].resetAt = log[q].at + LengthOf(q),
                     \A i \in DOMAIN log : log[i].ip = other => w[i] <= q,
                     \A a \in BOOLEAN : Cardinality(AdmittedIn(w, q, a)) <= rateLimitStore[other].count
              PROVE  /\ q \in DOMAIN log' /\ log'[q].ip = other /\ v[q] = q
                     /\ rateLimitStore'[other].resetAt = log'[q].at + LengthOf(q)'
                     /\ \A i \in DOMAIN log' : log'[i].ip = other => v[i] <= q
                     /\ \A a \in BOOLEAN :
                           Cardinality(AdmittedIn(v, q, a)') <= rateLimitStore'[other].count
          <6>1. q # o
            BY <2>4, <2>9, <5>2
          <6>2. \A a \in BOOLEAN : AdmittedIn(v, q, a)' = AdmittedIn(w, q, a)
            BY <3>2, <6>1
          <6>3. \A i \in DOMAIN log' : log'[i].ip = other => i \in DOMAIN log /\ log[i].ip = other /\ v[i] = w[i]
            BY <2>4, <3>1
          <6>4. q \in DOMAIN log' /\ v[q] = w[q] /\ log'[q] = log[q] /\ LengthOf(q)' = LengthOf(q)
            BY <2>4, <2>7, <3>1, <5>2
          <6>5. QED
            BY <2>4, <5>2, <6>2, <6>3, <6>4
        <5>3. QED
          BY <1>1, <5>1, <5>2 DEF Windowed, EntriesFit
      <4>2. \A i \in DOMAIN log' : log'[i].ip = ip => v[i] <= o
        <5>1. o \in Nat
          BY <2>4, <2>9
        <5>2. QED
          BY <2>4, <2>9, <3>1, <5>1
      <4>3. QED
        BY <2>4, <2>9, <3>4, <4>1, <4>2 DEF EntriesFit
    <3>8. QED
      BY <1>0, <2>9, <3>6, <3>7 DEF WindowInv, Windowed
  <2>10. CASE now > old.resetAt
    <3>1. PICK v : v = [i \in DOMAIN log' |-> IF i = next THEN next ELSE w[i]]
      OBVIOUS
    <3>2. /\ v \in [DOMAIN log' -> DOMAIN log'] /\ v[next] = next /\ next \in DOMAIN log'
          /\ \A i \in DOMAIN log : i \in DOMAIN log' /\ v[i] = w[i] /\ w[i] < next
      BY <2>4, <2>8, <3>1
    <3>3. ASSUME NEW i \in DOMAIN log, log[i].ip = ip
          PROVE  now > log[w[i]].at + LengthOf(w[i])
      <4>1. PICK o \in DOMAIN log :
                /\ log[o].ip = ip /\ w[o] = o /\ old.resetAt = log[o].at + LengthOf(o)
                /\ w[i] <= o
        BY <1>1, <2>2, <3>3 DEF Windowed, EntriesFit
      <4>2. CASE w[i] = o
        BY <2>5, <2>7, <2>10, <4>1, <4>2
      <4>3. CASE w[i] # o
        <5>1. w[i] < o /\ w[i] \in DOMAIN log
          BY <2>4, <2>8, <4>1, <4>3
        <5>2. log[o].at > log[w[i]].at + LengthOf(w[i])
          BY <2>8, <3>3, <4>1, <5>1
        <5>3. QED
          BY <2>5, <2>7, <2>10, <4>1, <5>1, <5>2
      <4>4. QED
        BY <4>2, <4>3
    <3>4. Openers(v)'
      <4>0. \A i \in DOMAIN log : /\ log'[i] = log[i] /\ log'[v[i]] = log[w[i]] /\ v[i] = w[i]
                                  /\ LengthOf(v[i])' = LengthOf(w[i])
        BY <2>4, <2>7, <2>8, <3>2
      <4>1. ASSUME NEW i \in DOMAIN log'
            PROVE  /\ v[i] <= i /\ log'[v[i]].ip = log'[i].ip
                   /\ log'[i].at <= log'[v[i]].at + LengthOf(v[i])'
        <5>1. CASE i \in DOMAIN log
          BY <2>8, <4>0, <5>1
        <5>2. CASE i = next
          BY <2>4, <2>5, <2>6, <2>7, <3>2, <5>2
        <5>3. QED
          BY <2>4, <5>1, <5>2
      <4>2. ASSUME NEW i \in DOMAIN log', NEW j \in DOMAIN log', log'[i].ip = log'[j].ip, v[i] < v[j]
            PROVE  log'[v[j]].at > log'[v[i]].at + LengthOf(v[i])'
        <5>1. CASE i \in DOMAIN log /\ j \in DOMAIN log
          BY <2>8, <4>0, <4>2, <5>1
        <5>2. CASE i \in DOMAIN log /\ j = next
          BY <2>4, <2>7, <3>2, <3>3, <4>0, <4>2, <5>2
        <5>3. i # next
          BY <2>4, <3>2, <4>2
        <5>4. QED
          BY <2>4, <5>1, <5>2, <5>3
      <4>3. QED
        BY <3>2, <4>1, <4>2 DEF Openers
    <3>5. \A a \in BOOLEAN : Cardinality(AdmittedIn(w, next, a)) = 0
      <4>1. \A a : AdmittedIn(w, next, a) = {}
        BY <2>4, <2>8 DEF AdmittedIn
      <4>2. QED
        BY <4>1, FS_EmptySet
    <3>6. entry.resetAt = log'[next].at + LengthOf(next)' /\ entry.count = 1
      BY <2>4, <2>5, <2>6, <2>7, <2>10
    <3>7. /\ \A a \in BOOLEAN : Cardinality(AdmittedIn(w, next, a)) <= MaxOf(a)
          /\ \A a \in BOOLEAN : Cardinality(AdmittedIn(w, next, a)) <= entry.count
          /\ Cardinality(AdmittedIn(w, next, isAdmin)) + 1 <= entry.count
      BY <2>5, <3>5, <3>6
    <3>8. \A i \in DOMAIN log : log[i].ip = ip => w[i] <= next
      BY <2>4, <2>8
    <3>9. QED
      BY <2>4, <2>9, <3>1, <3>2, <3>4, <3>6, <3>7, <3>8
  <2>11. CASE ~ now > old.resetAt
    <3>1. PICK o \in DOMAIN log :
              /\ log[o].ip = ip /\ w[o] = o /\ old.resetAt = log[o].at + LengthOf(o)
              /\ \A i \in DOMAIN log : log[i].ip = ip => w[i] <= o
              /\ \A a \in BOOLEAN : Cardinality(AdmittedIn(w, o, a)) <= old.count
      BY <1>1, <2>2, <2>5, <2>11 DEF Windowed, EntriesFit, NoEntry
    <3>2. PICK v : v = [i \in DOMAIN log' |-> IF i = next THEN o ELSE w[i]]
      OBVIOUS
    <3>0. o \in 1 .. (next - 1) /\ \A i \in DOMAIN log : i \in 1 .. (next - 1)
      BY <2>4
    <3>3. /\ v \in [DOMAIN log' -> DOMAIN log'] /\ v[next] = o /\ o < next /\ o \in DOMAIN log'
          /\ \A i \in DOMAIN log : i \in DOMAIN log' /\ v[i] = w[i] /\ w[i] < next
      <4>1. DOMAIN log' = 1 .. next /\ DOMAIN log = 1 .. (next - 1) /\ next \in Nat \ {0}
        BY <2>4
      <4>2. o \in DOMAIN log' /\ o < next /\ next \in DOMAIN log' /\ DOMAIN log \subseteq DOMAIN log'
        BY <3>0, <4>1
      <4>3. \A i \in DOMAIN log : i # next /\ i \in DOMAIN log'
        BY <3>0, <4>1, <4>2
      <4>4. \A i \in DOMAIN log : w[i] \in DOMAIN log /\ w[i] < next
        BY <2>8, <4>1
      <4>5. \A i \in DOMAIN log' : i # next => i \in DOMAIN log
        BY <4>1
      <4>6. v[next] = o /\ \A i \in DOMAIN log : v[i] = w[i]
        BY <3>2, <4>2, <4>3
      <4>7. v \in [DOMAIN log' -> DOMAIN log']
        BY <3>2, <4>2, <4>4, <4>5
      <4>8. QED
        BY <4>2, <4>3, <4>4, <4>6, <4>7
    <3>4. Openers(v)'
      <4>0. \A i \in DOMAIN log : /\ log'[i] = log[i] /\ log'[v[i]] = log[w[i]] /\ v[i] = w[i]
                                  /\ LengthOf(v[i])' = LengthOf(w[i])
        BY <2>4, <2>7, <2>8, <3>3
      <4>1. ASSUME NEW i \in DOMAIN log'
            PROVE  /\ v[i] <= i /\ log'[v[i]].ip = log'[i].ip
                   /\ log'[i].at <= log'[v[i]].at + LengthOf(v[i])'
        <5>1. CASE i \in DOMAIN log
          BY <2>8, <4>0, <5>1
        <5>2. CASE i = next
          <6>1. v[i] = o /\ log'[o] = log[o] /\ LengthOf(o)' = LengthOf(o) /\ o <= next
            BY <2>4, <2>7, <3>0, <3>1, <3>3, <5>2
          <6>2. now <= log[o].at + LengthOf(o)
            BY <2>5, <2>7, <2>11, <3>1
          <6>3. QED
            BY <2>4, <3>1, <5>2, <6>1, <6>2
        <5>3. QED
          BY <2>4, <5>1, <5>2
      <4>2. ASSUME NEW i \in DOMAIN log', NEW j \in DOMAIN log', log'[i].ip = log'[j].ip, v[i] < v[j]
            PROVE  log'[v[j]].at > log'[v[i]].at + LengthOf(v[i])'
        <5>1. CASE i \in DOMAIN log /\ j \in DOMAIN log
          BY <2>8, <4>0, <4>2, <5>1
        <5>2. CASE i \in DOMAIN log /\ j = next
          <6>1. v[i] = w[i] /\ v[j] = o /\ w[i] < w[o] /\ log[i].ip = log[o].ip /\ w[o] = o
            BY <2>4, <3>1, <3>3, <4>2, <5>2
          <6>2. log[o].at > log[w[i]].at + LengthOf(w[i])
            BY <2>8, <3>1, <5>2, <6>1
          <6>3. log'[o] = log[o] /\ log'[w[i]] = log[w[i]] /\ LengthOf(w[i])' = LengthOf(w[i])
            BY <2>4, <2>7, <2>8, <3>1, <5>2
          <6>4. QED
            BY <6>1, <6>2, <6>3
        <5>3. CASE i = next
          <6>1. j \in DOMAIN log
            BY <2>4, <3>3, <4>2, <5>3
          <6>2. v[i] = o /\ v[j] = w[j] /\ log[j].ip = ip
            BY <2>4, <3>3, <4>2, <5>3, <6>1
          <6>3. w[j] <= o /\ w[j] \in Int /\ o \in Int
            BY <2>8, <3>0, <3>1, <6>1, <6>2
          <6>4. QED
            BY <4>2, <6>2, <6>3
        <5>4. QED
          BY <2>4, <5>1, <5>2, <5>3
      <4>3. QED
        BY <3>3, <4>1, <4>2 DEF Openers
    <3>5. /\ log'[o].ip = ip /\ v[o] = o /\ entry.resetAt = log'[o].at + LengthOf(o)'
          /\ entry.count = old.count + 1
      BY <2>4, <2>5, <2>6, <2>7, <2>11, <3>1, <3>3
    <3>6. \A a \in BOOLEAN : /\ Cardinality(AdmittedIn(w, o, a)) \in Nat
                             /\ Cardinality(AdmittedIn(w, o, a)) <= MaxOf(a)
                             /\ Cardinality(AdmittedIn(w, o, a)) <= old.count
      BY <1>0, <1>1, <3>1, AdmittedFinite DEF Windowed, WindowsBounded
    <3>7. QED
      BY <2>5, <2>9, <3>1, <3>2, <3>3, <3>4, <3>5, <3>6
  <2>12. QED
    BY <2>10, <2>11
<1>4. QED
  BY <1>2, <1>3 DEF Next

\* An interval of one Window touches two windows at most.
LEMMA ThreeDoNotFit ==
    ASSUME AdminWindow >= Window, Types, InOrder, NEW w, Openers(w),
           NEW t \in Nat,
           NEW i \in DOMAIN log, NEW j \in DOMAIN log, NEW k \in DOMAIN log,
           log[i].ip = log[j].ip, log[j].ip = log[k].ip,
           log[i].at >= t, log[k].at <= t + Window
    PROVE  ~ (w[i] < w[j] /\ w[j] < w[k])
<1> SUFFICES ASSUME w[i] < w[j], w[j] < w[k] PROVE FALSE
  OBVIOUS
<1>1. log[w[j]].at > log[w[i]].at + LengthOf(w[i]) /\ log[w[k]].at > log[w[j]].at + LengthOf(w[j])
  BY DEF Openers
<1>2. log[i].at <= log[w[i]].at + LengthOf(w[i])
  BY DEF Openers
<1>3. w[i] \in DOMAIN log /\ w[j] \in DOMAIN log /\ w[k] \in DOMAIN log /\ w[k] <= k
  BY DEF Openers
<1>4. log[w[k]].at <= log[k].at
  BY <1>3 DEF InOrder
<1>5. LengthOf(w[j]) \in Nat /\ LengthOf(w[i]) \in Nat /\ LengthOf(w[j]) >= Window /\ Window \in Nat
  BY <1>3, LimitTypes, LogTypes DEF LengthOf, WindowOf
<1>6. /\ log[w[i]].at \in Nat /\ log[w[j]].at \in Nat /\ log[w[k]].at \in Nat
      /\ log[i].at \in Nat /\ log[k].at \in Nat
  BY <1>3, LogTypes
<1>7. QED
  BY <1>1, <1>2, <1>4, <1>5, <1>6

LEMMA WindowsBoundAdmissions ==
    ASSUME AdminWindow >= Window, WindowInv
    PROVE  AdmissionsBounded
<1>1. PICK w : Windowed(w)
  BY DEF WindowInv
<1>2. Types /\ InOrder /\ Openers(w) /\ WindowsBounded(w)
  BY <1>1 DEF WindowInv, Windowed
<1>3. SUFFICES ASSUME NEW ip \in Ips, NEW a \in BOOLEAN, NEW t \in 0 .. now
               PROVE  Cardinality({ i \in Between(ip, t, t + Window) :
                                        log[i].admin = a /\ log[i].admitted }) <= 2 * MaxOf(a)
  BY DEF AdmissionsBounded
<1> DEFINE B == { i \in Between(ip, t, t + Window) : log[i].admin = a /\ log[i].admitted }
<1>4. t \in Nat /\ Window \in Nat /\ MaxOf(a) \in Nat
  BY <1>2, LimitTypes DEF Types
<1>5. \A i \in B : /\ i \in DOMAIN log /\ log[i].ip = ip /\ log[i].at >= t /\ log[i].at <= t + Window
                   /\ log[i].admin = a /\ log[i].admitted /\ w[i] \in DOMAIN log /\ w[i] \in Nat
  BY <1>2, <1>4, LogTypes DEF Between, Openers
<1>6. \A i, j, k \in B : ~ (w[i] < w[j] /\ w[j] < w[k])
  BY <1>2, <1>4, <1>5, ThreeDoNotFit
<1>7. ASSUME NEW p \in DOMAIN log, NEW q \in DOMAIN log, \A i \in B : w[i] = p \/ w[i] = q
      PROVE  Cardinality(B) <= 2 * MaxOf(a)
  <2>1. B \subseteq AdmittedIn(w, p, a) \cup AdmittedIn(w, q, a)
    BY <1>5, <1>7 DEF AdmittedIn
  <2>2. /\ IsFiniteSet(AdmittedIn(w, p, a)) /\ IsFiniteSet(AdmittedIn(w, q, a))
        /\ Cardinality(AdmittedIn(w, p, a)) \in Nat /\ Cardinality(AdmittedIn(w, q, a)) \in Nat
        /\ Cardinality(AdmittedIn(w, p, a)) <= MaxOf(a) /\ Cardinality(AdmittedIn(w, q, a)) <= MaxOf(a)
    BY <1>2, AdmittedFinite DEF WindowsBounded
  <2>3. PICK both : both = AdmittedIn(w, p, a) \cup AdmittedIn(w, q, a)
    OBVIOUS
  <2>4. /\ IsFiniteSet(both) /\ Cardinality(both) \in Nat
        /\ Cardinality(both) <= Cardinality(AdmittedIn(w, p, a)) + Cardinality(AdmittedIn(w, q, a))
    <3>1. IsFiniteSet(AdmittedIn(w, p, a) \cap AdmittedIn(w, q, a))
      BY <2>2, FS_Intersection
    <3>2. Cardinality(AdmittedIn(w, p, a) \cap AdmittedIn(w, q, a)) \in Nat
      BY <3>1, FS_CardinalityType
    <3>3. IsFiniteSet(both) /\ Cardinality(both) = Cardinality(AdmittedIn(w, p, a))
              + Cardinality(AdmittedIn(w, q, a)) - Cardinality(AdmittedIn(w, p, a) \cap AdmittedIn(w, q, a))
      BY <2>2, <2>3, FS_Union
    <3>4. PICK m, n, l \in Nat : /\ m = Cardinality(AdmittedIn(w, p, a)) /\ n = Cardinality(AdmittedIn(w, q, a))
                                /\ l = Cardinality(AdmittedIn(w, p, a) \cap AdmittedIn(w, q, a))
      BY <2>2, <3>2
    <3>5. Cardinality(both) = m + n - l /\ IsFiniteSet(both)
      BY <3>3, <3>4
    <3>6. Cardinality(both) \in Nat
      BY <3>5, FS_CardinalityType
    <3>7. QED
      BY <3>4, <3>5, <3>6
  <2>5. Cardinality(B) <= Cardinality(both) /\ Cardinality(B) \in Nat
    <3>1. B \subseteq both
      BY <2>1, <2>3
    <3>2. QED
      BY <2>4, <3>1, FS_Subset, FS_CardinalityType
  <2>6. QED
    BY <1>4, <2>2, <2>4, <2>5
<1>8. CASE B = {}
  BY <1>4, <1>8, FS_EmptySet
<1>9. CASE B # {}
  <2>1. PICK i \in B : TRUE
    BY <1>9
  <2>0. PICK p \in DOMAIN log : p = w[i]
    BY <1>5, <2>1
  <2>2. ASSUME \A k \in B : w[k] = w[i] PROVE Cardinality(B) <= 2 * MaxOf(a)
    <3>1. \A k \in B : w[k] = p
      BY <2>0, <2>2
    <3> HIDE DEF B
    <3>2. QED
      BY <1>7, <3>1
  <2>3. ASSUME NEW j \in B, w[j] # w[i] PROVE Cardinality(B) <= 2 * MaxOf(a)
    <3>1. PICK q \in DOMAIN log : q = w[j]
      BY <1>5, <2>3
    <3>2. \A k \in B : w[k] = p \/ w[k] = q
      BY <1>5, <1>6, <2>0, <2>1, <2>3, <3>1
    <3> HIDE DEF B
    <3>3. QED
      BY <1>7, <3>2
  <2>4. QED
    BY <2>2, <2>3
<1>10. QED
  BY <1>8, <1>9

\* AdmissionsBounded: as long as an admin window is not the shorter one, no Window of
\* time admits more than twice the maximum of a class from one address.
THEOREM AdmissionsAlwaysBounded ==
    ASSUME AdminWindow >= Window
    PROVE  Spec => []AdmissionsBounded
<1>1. Init => WindowInv
  <2> SUFFICES ASSUME Init PROVE WindowInv
    OBVIOUS
  <2>1. Types /\ InOrder
    BY DEF Init, Types, InOrder, NoEntry
  <2>2. PICK w : w = [i \in {} |-> i]
    OBVIOUS
  <2>3. DOMAIN log = {}
    BY DEF Init
  <2>4. Openers(w)
    BY <2>2, <2>3 DEF Openers
  <2>5. WindowsBounded(w)
    BY <2>3 DEF WindowsBounded
  <2>6. EntriesFit(w)
    BY <2>3 DEF EntriesFit, Init
  <2>7. QED
    BY <2>1, <2>4, <2>5, <2>6 DEF WindowInv, Windowed
<1>2. WindowInv /\ [Next]_vars => WindowInv'
  BY WindowInvStep
<1>3. WindowInv => AdmissionsBounded
  BY WindowsBoundAdmissions
<1>4. QED
  BY <1>1, <1>2, <1>3, PTL DEF Spec

================================================================================
