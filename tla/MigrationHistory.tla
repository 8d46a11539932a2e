--------------------------- MODULE MigrationHistory ----------------------------
(***************************************************************************)
(* What a database is promised about its migrations: they are executed in  *)
(* their order, each one only when those before it are recorded; what is   *)
(* recorded was executed; a file that leaves its transaction to the runner *)
(* is executed and recorded in one step, and so once.  A caller is told    *)
(* that the migrations are complete only when all are recorded.            *)
(***************************************************************************)
EXTENDS Naturals

CONSTANTS
    NumFiles,           \* the files, in their order
    SelfCommitting      \* those that begin and commit a transaction themselves

VARIABLES
    executed,           \* file -> how often its statements took effect
    recorded,
    told                \* somebody was told that nothing is missing

vars == <<executed, recorded, told>>

Files == 1 .. NumFiles

Init ==
    /\ executed = [f \in Files |-> 0]
    /\ recorded = {}
    /\ told = FALSE

InTurn(f) == 1 .. (f - 1) \subseteq recorded

Execute(f) ==
    /\ f \in SelfCommitting /\ InTurn(f)
    /\ executed' = [executed EXCEPT ![f] = @ + 1]
    /\ UNCHANGED <<recorded, told>>

Record(f) ==
    /\ f \in SelfCommitting /\ executed[f] > 0
    /\ f \notin recorded
    /\ recorded' = recorded \cup {f}
    /\ UNCHANGED <<executed, told>>

ExecuteAndRecord(f) ==
    /\ f \notin SelfCommitting /\ InTurn(f)
    /\ f \notin recorded
    /\ executed' = [executed EXCEPT ![f] = @ + 1]
    /\ recorded' = recorded \cup {f}
    /\ UNCHANGED told

Tell ==
    /\ recorded = Files
    /\ told' = TRUE
    /\ UNCHANGED <<executed, recorded>>

Next == Tell \/ \E f \in Files : Execute(f) \/ Record(f) \/ ExecuteAndRecord(f)

Spec == Init /\ [][Next]_vars

================================================================================
