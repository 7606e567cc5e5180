\* Safety: two scanners and an immediate publisher, lock expiry, lost answers, a crash.
CONSTANTS
    r1 = r1
    r2 = r2
    s1 = s1
    s2 = s2
    c1 = c1
    p1 = p1
    p2 = p2
    None = None
    Callers = {c1}
    Rows <- TwoRows
    CreatedAt <- TwoRowsCreatedAt
    Scanners <- TwoScanners
    PodOf <- TwoPods
    MaxAttempts = 2
    BatchSize = 1
    MaxFaults = 1
    MaxCrashes = 1
SYMMETRY RowSymmetry
SPECIFICATION Spec
INVARIANTS OneOwnerPerRow NeverGivesUpEarly DuplicatesNeedFaults OnlyExpiryLosesTheLock

