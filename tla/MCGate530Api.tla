----------------------------- MODULE MCGate530Api -----------------------------
(***************************************************************************)
(* Small instances of Gate530Api for TLC.                                  *)
(***************************************************************************)
EXTENDS Gate530ApiClaims, TLC

CONSTANTS r1, r2, r3

Requests2 == {r1, r2}
Requests3 == {r1, r2, r3}
RequestSymmetry == Permutations(Requests3)

AllIds   == {"u1", "u2", "uDeny", "rule-default-deny-pii", "rule-allow-public", "anonymous"}
UuidForm == {"u1", "u2", "uDeny"}
OneIp    == {"10.0.0.1"}

-------------------------------------------------------------------------------
(* Conditions, rules and contexts.                                         *)

Simple(operator, field, value) ==
    [logical |-> Undefined, conditions |-> Undefined,
     operator |-> operator, field |-> field, value |-> value]

IsPii    == Simple("eq", "resource.classification", "pii")
IsAccess == Simple("eq", "action", "access")
IsPublic == Simple("eq", "resource.classification", "public")

\* buildEngine(), api-server.ts:82-88: operator 'and', nested conditions, no field.
PiiAccess == [logical |-> Undefined, conditions |-> <<IsPii, IsAccess>>,
              operator |-> "and", field |-> Undefined, value |-> Undefined]

\* handleCreateRule, api-server.ts:486: the condition of a body without one.
Empty == Simple(Undefined, Undefined, Undefined)

AllConditions == {IsPii, IsAccess, IsPublic, PiiAccess, Empty}

Rule(id, priority, condition, action) ==
    [id |-> id, priority |-> priority, condition |-> condition, action |-> action,
     enabled |-> TRUE, sector |-> Undefined, overrides |-> {}]

BuildEngine == << Rule("rule-default-deny-pii", 100, PiiAccess, "deny"),
                  Rule("rule-allow-public", 10, IsPublic, "allow") >>

Context(classification) ==
    [sector |-> "general",
     attr   |-> [f \in {"resource.classification", "action"} |->
                    IF f = "action" THEN "access" ELSE classification]]

-------------------------------------------------------------------------------
(* Requests.                                                               *)

Input(kind, cred, id) ==
    [kind |-> kind, ip |-> "10.0.0.1", cred |-> cred, malformed |-> FALSE, id |-> id,
     actor |-> "u1", ctx |-> None, rule |-> None, query |-> None]

EvaluateInput(id, ctx) == [Input("evaluate", "user", id) EXCEPT !.ctx = ctx]
CreateInput(cred, rule) == [Input("createRule", cred, rule.id) EXCEPT !.rule = rule]

EvaluatePublic == EvaluateInput("u1", Context("public"))
DenyPublic     == Rule("uDeny", 200, IsPublic, "deny")
DropDefault    == Input("deleteRule", "admin", "rule-default-deny-pii")

AuditInput(operation, limit, offset) ==
    [Input("adminAudit", "admin", "u2") EXCEPT !.query =
        [actorId |-> None, operation |-> operation, tableName |-> None,
         limit |-> limit, offset |-> offset]]

NewestInsertion == AuditInput("INSERT", 1, 0)
SecondEvent     == AuditInput(None, 1, 1)

\* The ways through handleRequest, one request of each kind.
EveryKind ==
    { EvaluatePublic, [EvaluatePublic EXCEPT !.cred = "none"],
      [EvaluatePublic EXCEPT !.actor = "anonymous"],
      [EvaluatePublic EXCEPT !.malformed = TRUE],
      CreateInput("admin", DenyPublic), CreateInput("user", DenyPublic),
      DropDefault, Input("getEvidence", "none", "u1"),
      SecondEvent, Input("ready", "none", "u2"),
      Input("metrics", "none", "u2"), Input("unknown", "none", "u2") }

\* A deny rule comes and a built-in rule goes while decisions are taken, stored and
\* read back; the query of the audit log has a filter and a LIMIT that may be used up.
MixedInputs ==
    { EvaluatePublic, DropDefault, CreateInput("admin", DenyPublic),
      Input("getEvidence", "none", "u1"), NewestInsertion }

\* What the refuted claim needs.
PublicInputs == { EvaluatePublic }

===============================================================================
