---------------------------- MODULE LoyaltyConfig ----------------------------
(***************************************************************************)
(* The configured achievements and badges, RuleEngineService.evaluate and   *)
(* meetsBadgeRequirement.                                                   *)
(*                                                                         *)
(* A rule is the set of its leaves: COMBINATION means AND, at any depth, and*)
(* a leaf on which evaluate throws never holds, as a throw unlocks nothing. *)
(***************************************************************************)
EXTENDS Integers, Sequences, FiniteSets, Functions

CONSTANTS
    Order,          \* achievement configs by (groupKey, sortOrder)
    RuleOf,         \* the leaves of each achievement's rule
    Badges,         \* badge configs
    NeedCount,      \* requiredAchievementCount of each badge
    NeedIds         \* requiredAchievementIds of each badge

Achievements == Range(Order)
Prizes == Achievements \cup Badges

ASSUME PrizeAssumption ==
    /\ Order \in Seq(Achievements) /\ IsInjective(Order)
    /\ Achievements \cap Badges = {}
    /\ \A b \in Badges : NeedCount[b] \in Int
\* assertAchievementsExist lets no rule name anything but achievements.
ASSUME RuleAssumption ==
    \A a \in Achievements : \A leaf \in RuleOf[a] :
        /\ leaf.type \in {"COUNT", "SUM"} => leaf.value \in Int
        /\ leaf.type = "ACHIEVEMENT_SET" =>
             /\ IsFiniteSet(DOMAIN leaf.ids) /\ \A i \in DOMAIN leaf.ids : leaf.ids[i] \in Achievements
             /\ leaf.min \in Int

\* evaluate on a rule that is not a COMBINATION; min is minRequired, or else the
\* length of achievementIds, and an id that is listed twice counts twice.
LeafHolds(leaf, s, have) ==
    CASE leaf.type = "COUNT" -> s.count >= leaf.value
      [] leaf.type = "SUM" -> s.spend >= leaf.value
      [] leaf.type = "ACHIEVEMENT_SET" -> Cardinality({i \in DOMAIN leaf.ids : leaf.ids[i] \in have}) >= leaf.min
      [] OTHER -> FALSE

Evaluate(a, s, have) == \A leaf \in RuleOf[a] : LeafHolds(leaf, s, have)

\* Mutant of MeetsBadgeRequirement: the count alone decides.
MeetsBadgeRequirement_CountOnly(b, have) == Cardinality(have \cap Achievements) >= NeedCount[b]

MeetsBadgeRequirement(b, have) ==
    /\ Cardinality(have \cap Achievements) >= NeedCount[b]
    /\ NeedIds[b] \subseteq have

\* S contains every achievement whose rule holds in it.
Closed(S, configs, s) == \A a \in configs : Evaluate(a, s, S) => a \in S
=============================================================================
