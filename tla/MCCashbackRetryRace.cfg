\* The scanner and a retry request race on one failed transaction.
CONSTANTS
    t1 = t1
    t2 = t2
    u2 = u2
    e2 = e2
    d3 = d3
    u1 = u1
    e1 = e1
    d1 = d1
    d2 = d2
    old = old
    new = new
    None = None
    Txs = {t1}
    UserOf <- OneUser
    Events = {e1}
    TxOf <- OneTx
    DetailsOf <- WithBankDetails
    Deliveries = {d1}
    EventOf <- OnlyDelivery
    Hooks = {h1}
    Scanners = {s1}
    Admins = {a1}
    NewDetails = {}
    Providers = {"paystack"}
    MaxAutoRetries = 2
    JobAttempts = 2
    Hazards = {}
    MaxJobs = 3
    MaxFaults = 0
\* All work may be done: the queue is empty and nothing is left to retry.
CHECK_DEADLOCK FALSE
SPECIFICATION Spec
INVARIANTS PaidAtMostOnce
