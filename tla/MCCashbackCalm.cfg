\* Nothing fails, deliveries and webhooks come once and in order; payments may be refused, and one user has no bank details.
CONSTANTS
    t1 = t1
    t2 = t2
    u2 = u2
    e2 = e2
    d3 = d3
    u1 = u1
    e1 = e1
    d1 = d1
    d2 = d2
    old = old
    new = new
    None = None
    Txs = {t1, t2}
    UserOf <- TwoUsers
    Events = {e1, e2}
    TxOf <- TwoTxs
    DetailsOf <- FirstHasBankDetails
    Deliveries = {d1, d2, d3}
    EventOf <- TwoEvents
    Hooks = {h1}
    Scanners = {s1}
    Admins = {}
    NewDetails = {}
    Providers = {"paystack"}
    MaxAutoRetries = 2
    JobAttempts = 2
    Hazards = {}
    MaxJobs = 4
    MaxFaults = 0
\* All work may be done: the queue is empty and nothing is left to retry.
CHECK_DEADLOCK FALSE
SPECIFICATION FairSpec
INVARIANTS LiveTransferIsFindable
PROPERTIES EveryPaymentEnds SuccessIsKept
