-------------------------- MODULE MiddlewareProperties --------------------------
(***************************************************************************)
(* What makes the middleware correct, over the specification Middleware.   *)
(***************************************************************************)
EXTENDS Middleware

EventType == [by : Reqs,
              action : {"auth.failure", "classification.critical", "policy.deny",
                        "request.processed", "orchestrator.error", "admin.createRule",
                        "admin.updateRule", "admin.deleteRule"},
              result : Decisions \cup {"ERROR", "success"}]

Answered(r) == pc[r] = "done"

\* What was accepted, in order, persisted or not.
Log == events \o buffer

EventsOf(r) == { i \in DOMAIN Log : Log[i].by = r }

\* r was told a decision, or changed a rule and was told so.
Told(r)    == Answered(r) /\ response[r].decision # None
Changed(r) == /\ Answered(r) /\ response[r].status \in {200, 201, 204}
              /\ request[r].kind \in {"createRule", "updateRule", "deleteRule"}

\* r's handler threw before it had done anything.
Thrown(r) == request[r].malformed /\ response[r].status = 500

(***************************************************************************)
(* process() and the rule handlers: whoever is told a decision or a change *)
(* has exactly one audit event of his own, which agrees with the answer,   *)
(* whichever of the five ways out of the pipeline was taken and however    *)
(* batches were flushed in between; the event of an error goes with a      *)
(* denial.  The exception is a malformed body: its handler throws before   *)
(* process(), and handleError tells of a DENY that no layer has taken and  *)
(* no event records.                                                       *)
(***************************************************************************)
EveryAnswerAudited ==
    \A r \in Reqs :
        /\ Cardinality(EventsOf(r)) <= 1
        /\ EventsOf(r) # {} => Answered(r)
        /\ Told(r) /\ ~ Thrown(r) => \E i \in EventsOf(r) :
              \/ Log[i].result = response[r].decision
              \/ Log[i].result = "ERROR" /\ response[r].decision = "DENY"
        /\ Changed(r) => \E i \in EventsOf(r) : Log[i].result = "success"

(***************************************************************************)
(* The layers in their order: an answer that is not a denial is that of an *)
(* authenticated request which is not critical and loaded no deny, and     *)
(* evidence is on record under its id, even if createEvidence failed for   *)
(* others.                                                                 *)
(***************************************************************************)
PassedEveryLayer ==
    \A r \in Reqs : Told(r) /\ response[r].decision # "DENY" =>
        /\ request[r].authentic
        /\ ~ (request[r].critical /\ FailClosed)
        /\ ~ Denies(loaded[r])
        /\ evidence[request[r].id] # None
        /\ response[r].status = 200

(***************************************************************************)
(* The policy cache: the rules an evaluation uses are those that some      *)
(* state of the store had for its tenant, sector and intent less than one  *)
(* cacheTtlMs ago; so a stored, changed or deleted rule takes effect       *)
(* within that time although nothing invalidates the entry.                *)
(***************************************************************************)
PoliciesRecent ==
    \A r \in Reqs : loadedAt[r] # -1 =>
        \E past \in inForce :
            /\ loaded[r] = Applicable(past.store, KeyOf(r))
            /\ past.at <= loadedAt[r]
            /\ past.at = loadedAt[r] \/ loadedAt[r] < past.at + CacheTtl

(***************************************************************************)
(* The audit layer implements an append-only log: what recordEvent         *)
(* accepted is never lost, repeated or reordered by the batches and the    *)
(* timer, and getAuditTrail reads a prefix of it that only grows.          *)
(***************************************************************************)
Trail == INSTANCE AppendOnlyLog
             WITH Entries <- EventType, log <- Log, visible <- Len(events)

ImplementsTrail == Trail!Spec

\* An accepted event is read by getAuditTrail in the end, by its batch or the timer.
AcceptedIsPublished ==
    \A r \in Reqs : (\E i \in DOMAIN buffer : buffer[i].by = r)
                        ~> (\E i \in DOMAIN events : events[i].by = r)

===============================================================================
