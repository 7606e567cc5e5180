\* Two replicas boot, then five requests in any order, overlapping or not.
CONSTANTS
    g1 = g1
    g2 = g2
    a1 = a1
    a2 = a2
    a3 = a3
    b1 = b1
    newGroup = newGroup
    first = first
    again = again
    cross = cross
    badge = badge
    None = None
    Groups = {g1, g2}
    Achievements = {a1, a2, a3}
    Badges = {b1}
    Default <- MCDefault
    Requests = {newGroup, first, again, cross, badge}
    Body <- MCBody
    Replicas = {r1, r2}
\* Every request is answered in the end, and then nothing happens.
CHECK_DEADLOCK FALSE
SPECIFICATION FairSpec
INVARIANTS PositionsAreDistinct NoDanglingReference
PROPERTIES OthersKeepTheirOrder OnlyRequestsChangeRows EveryRequestEnds
