------------------------------- MODULE RateLimit -------------------------------
(***************************************************************************)
(* checkRateLimit of gate-530/src/api-server.ts; the rate limiting         *)
(* middleware of middleware-engine/src/server.ts is the same code.  Each   *)
(* client address has one entry, shared by the admin and the other routes: *)
(* whichever opens a window fixes its length, and each is compared with    *)
(* its own maximum.                                                        *)
(***************************************************************************)
EXTENDS Integers

CONSTANTS
    RateMax, AdminRateMax,   \* RATE_LIMIT_MAX_REQUESTS, ADMIN_...
    Window, AdminWindow      \* RATE_LIMIT_WINDOW_MS, ADMIN_..., in ticks

ASSUME RateAssumption == {RateMax, AdminRateMax, Window, AdminWindow} \subseteq Nat

\* An address without an entry; resetAt is before any time.
NoEntry == [count |-> 0, resetAt |-> -1]

WindowOf(isAdmin) == IF isAdmin THEN AdminWindow ELSE Window
MaxOf(isAdmin)    == IF isAdmin THEN AdminRateMax ELSE RateMax

\* Mutant: every request moves the end of the window.
CountSliding(entry, isAdmin, time) ==
    IF time > entry.resetAt
    THEN [count |-> 1, resetAt |-> time + WindowOf(isAdmin)]
    ELSE [count |-> entry.count + 1, resetAt |-> time + WindowOf(isAdmin)]

\* The entry after one more request at the given time.
Count(entry, isAdmin, time) ==
    IF time > entry.resetAt
    THEN [count |-> 1, resetAt |-> time + WindowOf(isAdmin)]
    ELSE [entry EXCEPT !.count = @ + 1]

\* Mutants: off by one, either way.
WithinPlusOne(entry, isAdmin)  == entry.count <= MaxOf(isAdmin) + 1
WithinMinusOne(entry, isAdmin) == entry.count < MaxOf(isAdmin)

Within(entry, isAdmin) == entry.count <= MaxOf(isAdmin)

===============================================================================
