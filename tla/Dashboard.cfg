SPECIFICATION Spec
CONSTANTS
    any = any
    issues = issues
    t1 = t1
    t2 = t2
    Lists = {"rules", "actions"}
    Filters = {any, issues}
    AnyType = any
    Texts = {t1, t2}
    MaxClicks = 5
    MaxInFlight = 2
    MaxFailures = 1
CHECK_DEADLOCK FALSE
INVARIANTS
    TypeOK
    ShowsWhatItSays
    RulesCurrent
PROPERTIES
    SpinnersEnd
