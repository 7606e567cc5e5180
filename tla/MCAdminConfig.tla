---------------------------- MODULE MCAdminConfig ----------------------------
(* The instance of AdminConfig for TLC. *)
EXTENDS AdminConfig, TLC

CONSTANTS g1, g2, a1, a2, a3, b1, newGroup, first, again, cross, badge

\* One default row per table and a second achievement.
MCDefault ==
    g1 :> [group |-> None, sort |-> 1, refs |-> {}]
    @@ a1 :> [group |-> g1, sort |-> 1, refs |-> {}]
    @@ a2 :> [group |-> g1, sort |-> 2, refs |-> {}]
    @@ b1 :> [group |-> None, sort |-> 1, refs |-> {a1}]

Post(i, g, s, refs) == [method |-> "POST", item |-> i, group |-> g, sort |-> s, refs |-> refs]
Patch(i, g, s, refs) == [method |-> "PATCH", item |-> i, group |-> g, sort |-> s, refs |-> refs]

\* A group is appended; an achievement is created twice, at the front of the old group
\* and in the new one; the second old one moves to the front; a badge needs the new achievement.
MCBody ==
    newGroup :> Post(g2, None, None, {})
    @@ first :> Post(a3, g1, 1, {})
    @@ again :> Post(a3, g2, 1, {})
    @@ cross :> Patch(a2, None, 1, {None})
    @@ badge :> Patch(b1, None, None, {a3})
=============================================================================
