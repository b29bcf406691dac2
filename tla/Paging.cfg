SPECIFICATION Spec
CONSTANTS
    Limits = {0, 2, 3}
    DefaultLimit = 1
    Cap = 2
    MaxPages = 2
    MaxRows = 5
CHECK_DEADLOCK FALSE
INVARIANTS
    TypeOK
    NothingSkipped
