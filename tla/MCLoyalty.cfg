\* Two users, a redelivery, a failure and an administrator.
CONSTANTS
    u1 = u1
    u2 = u2
    e1 = e1
    e2 = e2
    e3 = e3
    d1 = d1
    d2 = d2
    d3 = d3
    d4 = d4
    first = first
    spender = spender
    both = both
    loopA = loopA
    loopB = loopB
    bronze = bronze
    gold = gold
    Order <- MCOrder
    RuleOf <- MCRuleOf
    Rules <- MCRules
    Depth <- MCDepth
    Badges = {bronze, gold}
    NeedCount <- MCNeedCount
    NeedIds <- MCNeedIds
    Users = {u1, u2}
    Events = {e1, e2, e3}
    UserOf <- MCUserOf
    AmountOf <- MCAmountOf
    Deliveries = {d1, d2, d3, d4}
    EventOf <- MCEventOf
    Int4Max = 3
    Overlap = FALSE
    Switchable = {both, gold}
    MaxFaults = 1
\* Every event is handled in the end, and then nothing happens.
CHECK_DEADLOCK FALSE
SPECIFICATION FairSpec
INVARIANTS RulesAreTheirLeaves StatsCountEvents NoUnlockRace UnlocksAreForced BadgesAreEarned
PROPERTIES ActsAsLedger EveryPurchaseCounts
