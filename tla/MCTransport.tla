------------------------------ MODULE MCTransport ------------------------------
(***************************************************************************)
(* Small instances of the transports for TLC.                              *)
(***************************************************************************)
EXTENDS TransportProperties, TLC

CONSTANTS c1, c2

TwoConnections == {c1, c2}
Symmetry == Permutations(TwoConnections)

Simple(operator, field, value) ==
    [logical |-> Undefined, conditions |-> Undefined,
     operator |-> operator, field |-> field, value |-> value]

IsNamed == Simple("eq", "subject.name", "Jose")
Broken  == Simple("eq", Undefined, Undefined)

AllConditions == {IsNamed, Broken}

Rule(id, sector, condition) ==
    [id |-> id, priority |-> 10, condition |-> condition, action |-> "deny",
     enabled |-> TRUE, sector |-> sector, overrides |-> {}]

\* A rule about a name with a character of two bytes, and one that throws.
TwoRules == << Rule("name", "education", IsNamed), Rule("broken", "health", Broken) >>

Context(sector) == [sector |-> sector, attr |-> [f \in {"subject.name"} |-> "Jose"]]

Replaced(ctx) == [ctx EXCEPT !.attr = [f \in {"subject.name"} |-> "replaced"]]

\* Three bytes, the last two of them one character.
EvaluateIn(sector) == [kind |-> "evaluate", ctx |-> Context(sector), body |-> 3, wide |-> {2}]
Get(kind) == [kind |-> kind, ctx |-> None, body |-> 0, wide |-> {}]

ThreeScripts ==
    { <<EvaluateIn("education"), EvaluateIn("education")>>,
      <<Get("metrics"), EvaluateIn("health")>>,
      <<Get("other")>> }

================================================================================
