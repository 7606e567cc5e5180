------------------------------ MODULE MCLoyalty ------------------------------
(* Instances of Loyalty for TLC. *)
EXTENDS LoyaltyRules, TLC

CONSTANTS u1, u2, e1, e2, e3, d1, d2, d3, d4, first, spender, both, loopA, loopB, bronze, gold

\* Two purchases of one user, the first delivered twice, and one of another user
\* that its total cannot hold.
MCUserOf == e1 :> u1 @@ e2 :> u1 @@ e3 :> u2
MCAmountOf == e1 :> 1 @@ e2 :> 2 @@ e3 :> 4
MCEventOf == d1 :> e1 @@ d2 :> e1 @@ d3 :> e2 @@ d4 :> e3

Count(n) == COUNT("purchase_count", "GTE", n)
Sum(n) == SUM("total_spend_kobo", "GTE", n)
And(rules) == COMBINATION("AND", rules)

\* both needs the two that come after it; loopA and loopB need each other.
MCOrder == <<both, loopA, loopB, spender, first>>
Spender == And(<<Count(1), And(<<Sum(2)>>)>>)
Both == ACHIEVEMENT_SET_MIN(<<first, spender>>, 2)
LoopA == ACHIEVEMENT_SET(<<loopB>>)
LoopB == ACHIEVEMENT_SET_MIN(<<loopA>>, 1)
MCRuleOf ==
    first :> Leaves[Count(1)] @@ spender :> Leaves[Spender] @@ both :> Leaves[Both]
    @@ loopA :> Leaves[LoopA] @@ loopB :> Leaves[LoopB]

\* Well and badly formed rules, all pairs of them, and two more levels.
SimpleRules ==
    {Count(0), Count(2), Sum(2), SUM("total_spend_kobo", "LTE", 2), COUNT("total_spend_kobo", "GTE", 1),
     ACHIEVEMENT_SET_MIN(<<first, first>>, 2), ACHIEVEMENT_SET(<<first, spender>>), ACHIEVEMENT_SET(<<>>),
     [type |-> "COUNT", field |-> "purchase_count", operator |-> "GTE"],
     [type |-> "COMBINATION", operator |-> "AND"], [type |-> "ACHIEVEMENT_SET", minRequired |-> 0],
     [type |-> "STREAK"], [type |-> ""]}
Pairs(rules) == {And(<<p, q>>) : p, q \in rules}
DeepRules ==
    {And(<<>>), And(<<Count(1), And(<<Sum(1), And(<<>>)>>)>>)}
    \cup {And(<<And(<<p>>), Count(2), And(<<q, Sum(2)>>)>>) : p, q \in {Count(1), Sum(2), [type |-> "STREAK"]}}

RECURSIVE Subtrees(_)
Subtrees(rule) == {rule} \cup UNION {Subtrees(Parts(rule)[i]) : i \in DOMAIN Parts(rule)}
RECURSIVE Height(_)
Height(rule) == Max({0} \cup {1 + Height(Parts(rule)[i]) : i \in DOMAIN Parts(rule)})

MCRules ==
    LET roots == Pairs(SimpleRules) \cup DeepRules \cup {Spender, Both, LoopA, LoopB}
    IN  {rule \in UNION {Subtrees(root) : root \in roots} : TRUE}
MCDepth == [rule \in MCRules |-> Height(rule)]

MCNeedCount == bronze :> 1 @@ gold :> 2
MCNeedIds == bronze :> {} @@ gold :> {both}
=============================================================================
