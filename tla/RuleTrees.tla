----------------------------- MODULE RuleTrees -----------------------------
(***************************************************************************)
(* Achievement rules as they are stored: trees of JSON objects, with the    *)
(* validators of the gateway and of the loyalty service and                 *)
(* RuleEngineService.evaluate.  Leaves flattens a tree to what Loyalty works*)
(* with.  A field that a rule lacks is not in its record, a missing type is *)
(* "" and a missing field or operator any wrong name; values of another type*)
(* than the field's are left out.  evaluate returns "true" or "false", or   *)
(* throws.  The recursion is over a set of trees that contains the parts of *)
(* its members.                                                             *)
(***************************************************************************)
EXTENDS Integers, Sequences, FiniteSets

CONSTANTS
    Rules,      \* rules an administrator may send, with the rules inside them
    Depth       \* how deep each of them nests

Has(rule, field) == field \in DOMAIN rule

\* The rules a rule consists of, and what f is for each of them.
Parts(rule) == IF rule.type = "COMBINATION" /\ Has(rule, "rules") THEN rule.rules ELSE <<>>
OfParts(f, rule) == [i \in DOMAIN Parts(rule) |-> f[Parts(rule)[i]]]

\* JSON objects are finite trees.
ASSUME TreeAssumption ==
    /\ Depth \in [Rules -> Nat]
    /\ \A rule \in Rules :
          Parts(rule) \in Seq(Rules) /\ \A i \in DOMAIN Parts(rule) : Depth[Parts(rule)[i]] < Depth[rule]

COUNT(field, operator, value) == [type |-> "COUNT", field |-> field, operator |-> operator, value |-> value]
SUM(field, operator, value) == [type |-> "SUM", field |-> field, operator |-> operator, value |-> value]
ACHIEVEMENT_SET(ids) == [type |-> "ACHIEVEMENT_SET", achievementIds |-> ids]
ACHIEVEMENT_SET_MIN(ids, min) == [type |-> "ACHIEVEMENT_SET", achievementIds |-> ids, minRequired |-> min]
COMBINATION(operator, rules) == [type |-> "COMBINATION", operator |-> operator, rules |-> rules]

\* The gateway's check: an object with a type.
IsRuleShape(rule) == rule.type # ""

\* The loyalty service's check of a rule an administrator sends; valid are the results
\* of the checks of its parts.
IsValidRule(rule, valid) ==
    CASE rule.type \in {"COUNT", "SUM"} ->
           /\ rule.field = IF rule.type = "COUNT" THEN "purchase_count" ELSE "total_spend_kobo"
           /\ rule.operator = "GTE" /\ Has(rule, "value") /\ rule.value >= 0
      [] rule.type = "COMBINATION" ->
           rule.operator = "AND" /\ Has(rule, "rules") /\ valid # <<>> /\ \A i \in DOMAIN valid : valid[i]
      [] rule.type = "ACHIEVEMENT_SET" -> Has(rule, "achievementIds") /\ rule.achievementIds # <<>>
      [] OTHER -> FALSE

IsValidAchievementRuleShape[rule \in Rules] == IsValidRule(rule, OfParts(IsValidAchievementRuleShape, rule))

Truth(b) == IF b THEN "true" ELSE "false"

\* compare; nothing is >= undefined.
Compare(actual, rule) == Truth(rule.operator = "GTE" /\ Has(rule, "value") /\ actual >= rule.value)

\* rule.minRequired ?? rule.achievementIds.length
MinRequired(rule) == IF Has(rule, "minRequired") THEN rule.minRequired ELSE Len(rule.achievementIds)

\* Mutant of Every: a COMBINATION holds if one of its rules does.
Every_Some(outcomes) == Truth(\E i \in DOMAIN outcomes : outcomes[i] = "true")

\* Array.every: the first child that is not true decides, also by throwing.
Every(outcomes) ==
    LET others == {i \in DOMAIN outcomes : outcomes[i] # "true"} IN
    IF others = {} THEN "true" ELSE outcomes[CHOOSE i \in others : \A j \in others : i <= j]

\* RuleEngineService.evaluate, given the outcomes of the parts; ids that occur twice
\* count twice.  Besides an unknown type, a missing array throws.
EvaluateRule(rule, outcomes, s, have) ==
    CASE rule.type = "COUNT" -> Compare(s.count, rule)
      [] rule.type = "SUM" -> Compare(s.spend, rule)
      [] rule.type = "ACHIEVEMENT_SET" /\ Has(rule, "achievementIds") ->
           Truth(Cardinality({i \in DOMAIN rule.achievementIds : rule.achievementIds[i] \in have}) >= MinRequired(rule))
      [] rule.type = "COMBINATION" /\ Has(rule, "rules") -> Every(outcomes)
      [] OTHER -> "throws"

EvaluateTree(s, have) ==
    LET evaluate[rule \in Rules] == EvaluateRule(rule, OfParts(evaluate, rule), s, have) IN evaluate

\* The leaves of a rule, in the form that Loyalty evaluates, given those of its parts.
LeavesOfRule(rule, leaves) ==
    CASE rule.type \in {"COUNT", "SUM"} /\ rule.operator = "GTE" /\ Has(rule, "value") ->
           {[type |-> rule.type, value |-> rule.value]}
      [] rule.type = "ACHIEVEMENT_SET" /\ Has(rule, "achievementIds") ->
           {[type |-> "ACHIEVEMENT_SET", ids |-> rule.achievementIds, min |-> MinRequired(rule)]}
      [] rule.type = "COMBINATION" /\ Has(rule, "rules") -> UNION {leaves[i] : i \in DOMAIN leaves}
      [] OTHER -> {[type |-> "NEVER"]}

Leaves[rule \in Rules] == LeavesOfRule(rule, OfParts(Leaves, rule))
=============================================================================
