------------------------------ MODULE MCMiddleware ------------------------------
(***************************************************************************)
(* Small instances of Middleware for TLC.                                  *)
(***************************************************************************)
EXTENDS MiddlewareProperties, TLC

CONSTANTS r1, r2, r3

Requests2 == {r1, r2}
Requests3 == {r1, r2, r3}
RequestSymmetry == Permutations(Requests3)

OneIp     == {"10.0.0.1"}
OneToken  == {"token"}
OneTenant == {"global"}
TwoSectors == {"general", "financial"}
OneIntent == {"analysis"}
OneRule   == {"rule-1"}
TwoIds    == {"req-1", "req-2"}

MakeBody(effect) == [id |-> "rule-1", sector |-> None, action |-> None, effect |-> effect]

Input(kind, token) ==
    [kind |-> kind, ip |-> "10.0.0.1", token |-> token, id |-> "req-1",
     authentic |-> TRUE, critical |-> FALSE, tenant |-> "global",
     sector |-> "general", intent |-> "analysis", rule |-> MakeBody("deny"),
     malformed |-> FALSE]

Malformed(input) == [input EXCEPT !.malformed = TRUE]

EvaluateInput == Input("evaluate", None)
Admin(kind)   == Input(kind, "token")

\* Rules that come and go while evaluations use the cache.
PolicyInputs ==
    { EvaluateInput, Admin("createRule"), Admin("deleteRule"),
      [Admin("updateRule") EXCEPT !.rule = MakeBody("allow")],
      Input("deleteRule", None), [EvaluateInput EXCEPT !.authentic = FALSE],
      Malformed(EvaluateInput), Malformed(Admin("updateRule")) }

\* Every way through the server and the pipeline.
AllInputs ==
    { EvaluateInput, [EvaluateInput EXCEPT !.authentic = FALSE],
      [EvaluateInput EXCEPT !.critical = TRUE, !.id = "req-2"],
      Admin("createRule"), [Admin("createRule") EXCEPT !.rule = MakeBody("invalid")],
      [Admin("createRule") EXCEPT !.rule.sector = "financial"],
      [Admin("updateRule") EXCEPT !.rule = MakeBody(None)],
      [Admin("updateRule") EXCEPT !.rule = MakeBody("invalid")],
      Admin("deleteRule"), Input("adminAudit", None), Admin("adminAudit"),
      Input("getEvidence", None), Input("stateless", None), Input("retrieve", None), Input("unknown", None),
      Malformed(EvaluateInput), Malformed(Admin("createRule")), Malformed(Admin("updateRule")),
      Malformed(Input("retrieve", None)) }

===============================================================================
