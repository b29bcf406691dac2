SPECIFICATION ExecSpec
CONSTANTS
    MaxRows = 1
    Deliveries = {d1}
    Workers = {w1, w2}
    RetryLimits = {3}
    None = None
    Intents = {i1}
    MaxAttempts = 2
    Faults = {"slow"}
PROPERTIES
    ProcessedAfterActions
