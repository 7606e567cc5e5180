---------------------------- MODULE LoyaltyLedger ----------------------------
(***************************************************************************)
(* What the loyalty service makes of the purchases it is told of: each is   *)
(* applied in one step, which adds it to its user's totals, gives the user  *)
(* what the rules then grant, and announces exactly that.  Handlers, locks, *)
(* redeliveries and failures do not show; of an administrator no more does  *)
(* than that a config somebody switches counts or does not.                 *)
(*                                                                         *)
(* Loyalty implements this specification (Loyalty!ActsAsLedger).            *)
(***************************************************************************)
EXTENDS LoyaltyConfig

CONSTANTS
    Users,
    Events,         \* purchases
    UserOf,         \* the user of each purchase
    AmountOf,       \* what it costs
    Int4Max,        \* largest total
    Switchable,     \* configs somebody switches on and off
    Overlap         \* may a purchase be applied again?

VARIABLES
    stats,      \* count and spend of each user
    unlocked,   \* prizes of each user
    processed,  \* purchases that were applied
    announced   \* how often each prize was announced to each user

ledgerVars == <<stats, unlocked, processed, announced>>

Init ==
    /\ stats = [u \in Users |-> [count |-> 0, spend |-> 0]]
    /\ unlocked = [u \in Users |-> {}]
    /\ processed = {}
    /\ announced = [u \in Users |-> [p \in Prizes |-> 0]]

\* The rules of configs grant won to somebody with these totals and prizes: the least
\* set that leaves no rule to apply.
Grant(won, configs, s, have) ==
    /\ Closed(have \cup won, configs, s)
    /\ \A S \in SUBSET won : Closed(have \cup S, configs, s) => S = won

\* The configs that count: all but some of those that are switched.
Counting(configs) == {c \in SUBSET configs : configs \ Switchable \subseteq c}

\* A user with the totals s gets what the rules grant and the badges for it, and is told.
Reward(u, s) ==
    \E configs \in Counting(Achievements), badges \in Counting(Badges) :
    \E won \in SUBSET (configs \ unlocked[u]) :
        LET have == unlocked[u] \cup won
            gained == won \cup {b \in badges \ have : MeetsBadgeRequirement(b, have)}
        IN  /\ unlocked' = [unlocked EXCEPT ![u] = @ \cup gained]
            /\ announced' = [announced EXCEPT ![u] = [p \in Prizes |-> IF p \in gained THEN @[p] + 1 ELSE @[p]]]
            /\ Grant(won, configs, s, unlocked[u])

\* A purchase is added to its user's totals, if they can hold it.
Apply(e) ==
    LET u == UserOf[e]
        s == [count |-> stats[u].count + 1, spend |-> stats[u].spend + AmountOf[e]]
    IN
    /\ Overlap \/ e \notin processed
    /\ s.spend <= Int4Max
    /\ stats' = [stats EXCEPT ![u] = s]
    /\ processed' = processed \cup {e}
    /\ Reward(u, s)

Next == \E e \in Events : Apply(e)

Spec == Init /\ [][Next]_ledgerVars
=============================================================================
