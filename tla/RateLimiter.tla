------------------------------ MODULE RateLimiter ------------------------------
(***************************************************************************)
(* The rate limiter over time: requests of admin and other routes from     *)
(* some addresses, in any order, while the clock advances.  log is a       *)
(* history of what was asked and what was admitted.                        *)
(***************************************************************************)
EXTENDS RateLimit, Sequences, FiniteSets

CONSTANTS
    Ips,
    MaxTime,       \* bound: ticks of the clock
    MaxRequests    \* bound: requests

VARIABLES now, rateLimitStore, log

vars == <<now, rateLimitStore, log>>

Init ==
    /\ now = 0
    /\ rateLimitStore = [ip \in Ips |-> NoEntry]
    /\ log = <<>>

CheckRateLimit(ip, isAdmin) ==
    LET entry == Count(rateLimitStore[ip], isAdmin, now) IN
    /\ Len(log) < MaxRequests
    /\ rateLimitStore' = [rateLimitStore EXCEPT ![ip] = entry]
    /\ log' = Append(log, [ip |-> ip, admin |-> isAdmin, at |-> now,
                           admitted |-> Within(entry, isAdmin)])
    /\ UNCHANGED now

Tick ==
    /\ now < MaxTime
    /\ now' = now + 1
    /\ UNCHANGED <<rateLimitStore, log>>

Next == Tick \/ \E ip \in Ips, isAdmin \in BOOLEAN : CheckRateLimit(ip, isAdmin)

Spec == Init /\ [][Next]_vars

-------------------------------------------------------------------------------
\* Requests of an address between two times.
Between(ip, first, last) ==
    { i \in DOMAIN log : log[i].ip = ip /\ log[i].at \in first..last }

(***************************************************************************)
(* What a fixed window bounds: however requests are spread, and with admin *)
(* and other requests sharing the entry, no Window of time sees more than  *)
(* twice the maximum of a class admitted (two windows can touch it).  It   *)
(* needs AdminWindow >= Window: a shorter window an admin request opens    *)
(* lets three touch.                                                       *)
(***************************************************************************)
AdmissionsBounded ==
    \A ip \in Ips, isAdmin \in BOOLEAN, t \in 0..now :
        Cardinality({ i \in Between(ip, t, t + Window) :
                          log[i].admin = isAdmin /\ log[i].admitted })
            <= 2 * MaxOf(isAdmin)

Longest == IF Window < AdminWindow THEN AdminWindow ELSE Window

(***************************************************************************)
(* Nobody is locked out: of requests of one address that span more than a  *)
(* window, one is admitted; a client that keeps asking while refused does  *)
(* not prolong its refusal.                                                *)
(***************************************************************************)
NobodyLockedOut ==
    \A i, j \in DOMAIN log :
        (i < j /\ log[i].ip = log[j].ip /\ log[j].at - log[i].at > Longest)
            => \E k \in i..j : log[k].ip = log[i].ip /\ log[k].admitted

===============================================================================
