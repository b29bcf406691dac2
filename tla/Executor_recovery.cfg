SPECIFICATION FairExecSpec
CONSTANTS
    MaxRows = 1
    Deliveries = {d1}
    Workers = {w1, w2}
    RetryLimits = {3}
    None = None
    Intents = {i1, i2}
    MaxAttempts = 2
    Faults = {"crash", "db"}
INVARIANTS
    ExecTypeOK
    RepeatsOnlyThroughWindow
PROPERTIES
    ProcessedAfterActions
    CompletedIsFinal
    NoActionForgotten
