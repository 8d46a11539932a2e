--------------------------- MODULE ComplianceLedger ---------------------------
(***************************************************************************)
(* What the compliance API promises its callers, without servers, pools or *)
(* statements: a verdict is chosen once, evidence of it is recorded before *)
(* an audit entry of it, and nobody learns a verdict (or is told that an   *)
(* administrative change was made) before both records are durable.  What  *)
(* can be told at any time without a record is a denial, marked as an      *)
(* error: the system fails closed.  WAVE1_MVP_SPEC.md, section 3, lists    *)
(* the steps in this order.                                                *)
(***************************************************************************)
CONSTANTS Reqs, Decisions, None

VARIABLES
    verdict,    \* r -> the decision, None before it is taken
    evidence,   \* pairs <<r, decision>>, durable
    audited,    \* requests with a durable audit entry
    answer      \* r -> None before it is answered, then what it is told and why

vars == <<verdict, evidence, audited, answer>>

Init ==
    /\ verdict = [r \in Reqs |-> None]
    /\ evidence = {}
    /\ audited = {}
    /\ answer = [r \in Reqs |-> None]

Decide(r, d) ==
    /\ verdict[r] = None
    /\ answer[r] = None
    /\ r \notin audited
    /\ verdict' = [verdict EXCEPT ![r] = d]
    /\ UNCHANGED <<evidence, audited, answer>>

RecordEvidence(r) ==
    /\ verdict[r] # None
    /\ evidence' = evidence \cup {<<r, verdict[r]>>}
    /\ UNCHANGED <<verdict, audited, answer>>

RecordAudit(r) ==
    /\ verdict[r] # None => <<r, verdict[r]>> \in evidence
    /\ audited' = audited \cup {r}
    /\ UNCHANGED <<verdict, evidence, answer>>

Disclose(r) ==
    /\ answer[r] = None
    /\ r \in audited
    /\ answer' = [answer EXCEPT ![r] =
                     [tells   |-> verdict[r],
                      because |-> IF verdict[r] = None THEN "change" ELSE "verdict"]]
    /\ UNCHANGED <<verdict, evidence, audited>>

\* A denial that is not the verdict, whatever the verdict is and what is recorded of it.
FailClosed(r) ==
    /\ answer[r] = None
    /\ answer' = [answer EXCEPT ![r] = [tells |-> "deny", because |-> "error"]]
    /\ UNCHANGED <<verdict, evidence, audited>>

\* Any answer that tells no decision and confirms no change.
AnswerOtherwise(r) ==
    /\ answer[r] = None
    /\ answer' = [answer EXCEPT ![r] = [tells |-> None, because |-> "other"]]
    /\ UNCHANGED <<verdict, evidence, audited>>

Next == \E r \in Reqs : \/ \E d \in Decisions : Decide(r, d)
                        \/ RecordEvidence(r) \/ RecordAudit(r)
                        \/ Disclose(r) \/ FailClosed(r) \/ AnswerOtherwise(r)

Spec == Init /\ [][Next]_vars

===============================================================================
