------------------------------- MODULE WormTable -------------------------------
(***************************************************************************)
(* What a write-once-read-many audit table promises: while it is           *)
(* protected, a row that was committed never changes, and leaves the table *)
(* only for the archive, together with others, in a step that leaves a row *)
(* of its own which says how many.  Protection comes and goes in steps     *)
(* that touch no row.                                                      *)
(***************************************************************************)
EXTENDS FiniteSets

CONSTANTS Rows, Moved(_)   \* Moved: how many rows a row says it moved

VARIABLES audit, archive, protected

vars == <<audit, archive, protected>>

Init == audit = {} /\ archive = {} /\ protected = TRUE

New(row) == row \in Rows \ (audit \cup archive)

Insert(row) ==
    /\ New(row)
    /\ audit' = audit \cup {row}
    /\ UNCHANGED <<archive, protected>>

Prune(expired, row) ==
    /\ New(row) /\ expired \subseteq audit
    /\ Moved(row) = Cardinality(expired)
    /\ audit' = (audit \ expired) \cup {row}
    /\ archive' = archive \cup expired
    /\ UNCHANGED protected

\* Rows of an unprotected table may change or go, one at a time.
Tamper(row) ==
    /\ ~ protected
    /\ row \in audit
    /\ audit' \ {row} \subseteq Rows /\ audit \ audit' = {row}
    /\ UNCHANGED <<archive, protected>>

SetProtection ==
    /\ protected' = ~ protected
    /\ UNCHANGED <<audit, archive>>

Next ==
    \/ \E row \in audit' \ audit : Insert(row) \/ Prune(archive' \ archive, row)
    \/ \E row \in audit \ audit' : Tamper(row)
    \/ SetProtection

Spec == Init /\ [][Next]_vars

================================================================================
