SPECIFICATION Spec
CONSTANTS
    MaxRows = 2
    Deliveries = {d1, d2}
    Workers = {w1, w2, w3}
    RetryLimits = {0, 1, 2, 3}
    None = None
SYMMETRY Interchangeable
INVARIANTS
    TypeOK
    ClaimBudget
    OverlapOnlyAfterLapse
PROPERTIES
    ExhaustedStaysFailed
    ImplementsContract
