CONSTANTS
    c1 = c1
    c2 = c2
    c3 = c3
    k = k
    x10 = x10
    x11 = x11
    x20 = x20
    x21 = x21
    x30 = x30
    x31 = x31
    None = None
    EmptyHeader = EmptyHeader
    Calls = {c1, c2, c3}
    Requests = {x10, x11, x20, x21, x30, x31}
    MayCall <- MCMayCall
    Authorized = {}
    HeaderOf <- MCHeaderOf
    RequestOf <- MCRequestOf
    ReadRetries = 1
    Statuses = {200, 201, 202, 404, 500}
    MaxExpiries = 1
SPECIFICATION FairSpec
INVARIANTS
    OnePurchasePerIntent
    RepeatGetsTheOriginal
    ReadsFailLate
PROPERTIES
    PaystackListIsKept
    EveryCallAnswered
CHECK_DEADLOCK FALSE
