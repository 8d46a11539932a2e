------------------------------ MODULE RuleEngine ------------------------------
(***************************************************************************)
(* The decision function of Gate 530: packages/gate-530/src/engine.ts,     *)
(* rules.ts and sector.ts, as operators without state.                     *)
(*                                                                         *)
(* A rule list is a sequence: the engine keeps its rules in a JavaScript   *)
(* Map, which iterates in insertion order and keeps the place of a key     *)
(* that is set again.  The reason, the dimension and the confidence of a   *)
(* decision are left out.  The string operators 'contains' and 'regex' are *)
(* left out; every other operator of a condition is modelled.              *)
(***************************************************************************)
EXTENDS Integers, Sequences

CONSTANTS
    Conditions,   \* every condition in use, and every condition nested in one
    Undefined     \* JavaScript's undefined

Decisions == {"allow", "deny", "escalate"}

(***************************************************************************)
(* A context: its sector, and what each dotted field path resolves to.     *)
(* A path the context does not have resolves to undefined; resolving the   *)
(* field of a condition that has none is a TypeError.                      *)
(***************************************************************************)
ResolveField(field, ctx) ==
    IF field \in DOMAIN ctx.attr THEN ctx.attr[field] ELSE Undefined

Ordered(a, b) == a \in Int /\ b \in Int

Truth(b) == IF b THEN "true" ELSE "false"

EvaluateSimpleCondition(c, ctx) ==
    IF c.field = Undefined THEN "throws"
    ELSE LET v == ResolveField(c.field, ctx) IN
         Truth(\/ c.operator = "eq"     /\ v = c.value
               \/ c.operator = "ne"     /\ v # c.value
               \/ c.operator = "gt"     /\ Ordered(v, c.value) /\ v > c.value
               \/ c.operator = "lt"     /\ Ordered(v, c.value) /\ v < c.value
               \/ c.operator = "gte"    /\ Ordered(v, c.value) /\ v >= c.value
               \/ c.operator = "lte"    /\ Ordered(v, c.value) /\ v <= c.value
               \/ c.operator = "in"     /\ v \in c.value
               \/ c.operator = "exists" /\ v # Undefined)

(***************************************************************************)
(* A compound condition needs both 'logical' and 'conditions'; all nested  *)
(* conditions are evaluated, so one that throws makes the whole throw.     *)
(***************************************************************************)
EvaluateCondition(condition, ctx) ==
    LET value[c \in Conditions] ==
            IF c.logical # Undefined /\ c.conditions # Undefined
            THEN LET results == { value[c.conditions[i]] : i \in DOMAIN c.conditions } IN
                 IF "throws" \in results THEN "throws"
                 ELSE IF c.logical = "and" THEN Truth("false" \notin results)
                                           ELSE Truth("true" \in results)
            ELSE EvaluateSimpleCondition(c, ctx)
    IN  value[condition]

MatchSector(rule, ctx) == rule.sector \in {Undefined, ctx.sector, "general"}

EvaluateRule(rule, ctx) ==
    IF rule.enabled /\ MatchSector(rule, ctx)
    THEN EvaluateCondition(rule.condition, ctx)
    ELSE "false"

(***************************************************************************)
(* The places of the rules that apply to a context, in the list of the     *)
(* engine's rules followed by those of the sector registry, whose sector   *)
(* is not compared.                                                        *)
(***************************************************************************)
GetApplicableRules(rules, sectorRules, ctx) ==
    LET all == rules \o sectorRules
    IN  { i \in DOMAIN all : all[i].enabled /\ (i > Len(rules) \/ MatchSector(all[i], ctx)) }

(***************************************************************************)
(* An overriding rule removes the rules it names as soon as it is          *)
(* applicable, whether or not its own condition holds.                     *)
(***************************************************************************)
ApplyOverrides(all, places) ==
    { i \in places : \A j \in places : all[i].id \notin all[j].overrides }

\* Mutant: the comparison of the sort is reversed.
LowestPriority(rules, indices) ==
    CHOOSE i \in indices :
        \A j \in indices : \/ rules[j].priority > rules[i].priority
                           \/ rules[j].priority = rules[i].priority /\ i <= j

\* The head of a list stably sorted by descending priority.
HighestPriority(rules, indices) ==
    CHOOSE i \in indices :
        \A j \in indices : \/ rules[j].priority < rules[i].priority
                           \/ rules[j].priority = rules[i].priority /\ i <= j

\* Only the three known actions decide; any other is a deny.
RuleDecision(rule) == IF rule.action \in Decisions THEN rule.action ELSE "deny"

PerformEvaluation(rules, sectorRules, ctx) ==
    LET all        == rules \o sectorRules
        applicable == ApplyOverrides(all, GetApplicableRules(rules, sectorRules, ctx))
        result(i)  == EvaluateRule(all[i], ctx)
        matched    == { i \in applicable : result(i) = "true" }
    IN  IF \E i \in applicable : result(i) = "throws" THEN "throws"
        ELSE IF matched = {} THEN "allow"
        ELSE RuleDecision(all[HighestPriority(all, matched)])

\* Mutant: an evaluation that throws is not caught.
EvaluateUncaught(rules, sectorRules, ctx) == PerformEvaluation(rules, sectorRules, ctx)

\* Fail closed: an evaluation that throws is a deny decision.
Evaluate(rules, sectorRules, ctx) ==
    LET decision == PerformEvaluation(rules, sectorRules, ctx)
    IN  IF decision = "throws" THEN "deny" ELSE decision

AddRule(rules, rule) ==
    IF \E i \in DOMAIN rules : rules[i].id = rule.id
    THEN [i \in DOMAIN rules |-> IF rules[i].id = rule.id THEN rule ELSE rules[i]]
    ELSE Append(rules, rule)

\* The ids of the rules are distinct, as the keys of the Map are.
RemoveRule(rules, id) ==
    IF \E i \in DOMAIN rules : rules[i].id = id
    THEN LET place == CHOOSE i \in DOMAIN rules : rules[i].id = id
         IN  SubSeq(rules, 1, place - 1) \o SubSeq(rules, place + 1, Len(rules))
    ELSE rules

===============================================================================
