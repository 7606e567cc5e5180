\* Three requests with one key, one without, failing queries and crashes.
CONSTANTS
    a = a
    b = b
    c = c
    d = d
    k1 = k1
    u1 = u1
    u2 = u2
    None = None
    Keys = {k1}
    Users = {u1, u2}
    MaxAmountKobo = 3
    Int4Max = 2
    Requests = {a, b, c, d}
    KeyOf <- SharedKey
    UserOf <- SharedUser
    AmountOf <- LargeAmount
    MaxFaults = 2
\* Every request is answered in the end, and then nothing happens.
CHECK_DEADLOCK FALSE
SPECIFICATION FairSpec
INVARIANTS OnePurchasePerKey LostKeyRaceIsNoError
PROPERTIES ActsAsStore EveryRequestAnswered
