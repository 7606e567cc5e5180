---------------------------- MODULE LoyaltyRules ----------------------------
(***************************************************************************)
(* The handler of Loyalty, which works with the leaves of its rules, next to*)
(* the rule trees they come from.                                           *)
(***************************************************************************)
EXTENDS Loyalty, RuleTrees

\* In every context a handler of a purchase reaches, a rule holds exactly when all its
\* leaves do, however deep it nests, and a rule that both validators let through never
\* makes evaluate throw.
RulesAreTheirLeaves ==
    \A d \in Deliveries : handler[d].pc = "unlock" /\ handler[d].next = 1 =>
        LET s == handler[d].stats
            have == handler[d].before \cup handler[d].gained
            outcome == EvaluateTree(s, have)
        IN  \A rule \in Rules :
              /\ outcome[rule] = "true" <=> \A leaf \in Leaves[rule] : LeafHolds(leaf, s, have)
              /\ IsRuleShape(rule) /\ IsValidAchievementRuleShape[rule] => outcome[rule] # "throws"
=============================================================================
