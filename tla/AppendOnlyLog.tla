----------------------------- MODULE AppendOnlyLog -----------------------------
(***************************************************************************)
(* What an audit trail with a write buffer promises: an entry that was     *)
(* accepted keeps its place for ever, and readers see an ever longer       *)
(* prefix of what was accepted.                                            *)
(***************************************************************************)
EXTENDS Naturals, Sequences

CONSTANT Entries

VARIABLES
    log,        \* every entry accepted, in order
    visible     \* how many of them a reader sees

vars == <<log, visible>>

Init == log = <<>> /\ visible = 0

\* An entry is accepted; it, and what was waiting, may become visible at once.
Accept(e) ==
    /\ log' = Append(log, e)
    /\ visible' \in {visible, Len(log) + 1}

Publish ==
    /\ visible' = Len(log)
    /\ UNCHANGED log

Next == (\E e \in Entries : Accept(e)) \/ Publish

Spec == Init /\ [][Next]_vars

===============================================================================
