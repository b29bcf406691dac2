SPECIFICATION Spec
CONSTANTS
    w1 = w1
    w2 = w2
    Workers = {w1, w2}
    Intents = 2
    RetryLimits = {0, 1, 3}
    MaxAttempts = 3
    Backoff1 = 1
    Backoff2 = 2
    Backoff3 = 4
    Leases = {1, 3, 4}
    Timeout = 1
    Poll = 1
    MaxFaults = 2
SYMMETRY Interchangeable
INVARIANTS
    TypeOK
    BackoffCovered
    RetriesMissed
    LeaseCoversRun
    SettledByDeadline
