SPECIFICATION Spec
CONSTANTS
    Accounts = {a1, a2}
    States = {s1, s2}
    Tokens = {t1, t2}
    Requests = {r1, r2}
    StateTTL = 1
    SessionTTL = 2
    MaxTime = 4
    None = None
SYMMETRY Interchangeable
INVARIANTS
    TypeOK
    OneLoginPerState
    StateUsedInTime
    NothingAfterLogout
    SessionUsedInTime
