\* Two payments of one user: jobs run before the commit, webhooks overtake the response, transfers
\* are reversed, and manual retries correct bank details.
CONSTANTS
    t1 = t1
    t2 = t2
    u2 = u2
    e2 = e2
    d3 = d3
    u1 = u1
    e1 = e1
    d1 = d1
    d2 = d2
    old = old
    new = new
    None = None
    Txs = {t1, t2}
    UserOf <- TwoBadges
    Events = {e1, e2}
    TxOf <- TwoTxs
    DetailsOf <- SecondHasBankDetails
    Deliveries = {d1, d2}
    EventOf <- EachOnce
    Hooks = {h1}
    Scanners = {}
    Admins = {a1}
    NewDetails = {new}
    Providers = {"paystack"}
    MaxAutoRetries = 1
    JobAttempts = 1
    Hazards = {"slowCommit", "earlyWebhook", "reversal"}
    MaxJobs = 3
    MaxFaults = 0
\* All work may be done: the queue is empty and nothing is left to retry.
CHECK_DEADLOCK FALSE
SPECIFICATION Spec
INVARIANTS PaidAtMostOnce AnnouncedOnce MoneyFollowsDetails
