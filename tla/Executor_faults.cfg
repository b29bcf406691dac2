SPECIFICATION FairExecSpec
CONSTANTS
    MaxRows = 1
    Deliveries = {d1}
    Workers = {w1, w2}
    RetryLimits = {2}
    None = None
    Intents = {i1}
    MaxAttempts = 2
    Faults = {"crash", "slow", "lost", "db"}
INVARIANTS
    CallsWithinClaims
PROPERTIES
    Settles
