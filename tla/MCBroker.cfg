\* Two messages, one of them not JSON; a reconnect with a handler still running.
CONSTANTS
    None = None
    Messages = {m1, m2}
    Malformed = {m2}
    MaxRetryAttempts = 1
    Prefetch = 1
    MaxChannels = 3
    MaxFaults = 2
\* Once every message is settled nothing more happens.
CHECK_DEADLOCK FALSE
SPECIFICATION FairSpec
INVARIANTS LostOnlyByCrossedAnswer DeadLettersHadTheirRuns ConsumptionIsRestored
PROPERTIES EveryMessageSettles
