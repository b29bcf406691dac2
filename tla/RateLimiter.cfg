SPECIFICATION Spec
CONSTANTS
    Addresses = {a1}
    Requests = {r1, r2, r3}
    Rate = 2
    Burst = 2
    IdleTime = 6
    MaxDelay = 1
    MaxTime = 9
SYMMETRY Interchangeable
INVARIANTS
    TypeOK
    BurstPlusRefill
PROPERTIES
    RefusedOnlyWhenSpent
