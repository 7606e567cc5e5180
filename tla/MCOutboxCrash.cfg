\* Liveness with one crash.
CONSTANTS
    r1 = r1
    r2 = r2
    s1 = s1
    s2 = s2
    c1 = c1
    p1 = p1
    p2 = p2
    None = None
    Callers = {c1}
    Rows <- OneRow
    CreatedAt <- OneRowCreatedAt
    Scanners <- OneScanner
    PodOf <- OnePod
    MaxAttempts = 2
    BatchSize = 1
    MaxFaults = 0
    MaxCrashes = 1
SPECIFICATION FairSpec
PROPERTIES EveryRowSettles
