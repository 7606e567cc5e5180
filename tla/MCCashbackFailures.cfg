\* Concurrent deliveries, database errors, crashes, lost responses, repeated webhooks; both providers.
CONSTANTS
    t1 = t1
    t2 = t2
    u2 = u2
    e2 = e2
    d3 = d3
    u1 = u1
    e1 = e1
    d1 = d1
    d2 = d2
    old = old
    new = new
    None = None
    Txs = {t1}
    UserOf <- OneUser
    Events = {e1}
    TxOf <- OneTx
    DetailsOf <- WithBankDetails
    Deliveries = {d1, d2}
    EventOf <- SameEvent
    Hooks = {h1}
    Scanners = {s1}
    Admins = {}
    NewDetails = {}
    Providers = {"paystack", "mock"}
    MaxAutoRetries = 1
    JobAttempts = 2
    Hazards = {"dupDelivery", "dbError", "crash", "lostResponse", "dupWebhook"}
    MaxJobs = 2
    MaxFaults = 1
\* All work may be done: the queue is empty and nothing is left to retry.
CHECK_DEADLOCK FALSE
SPECIFICATION Spec
INVARIANTS SuccessWasPaid ProcessedMeansQueued PaymentsAreAccountedFor
