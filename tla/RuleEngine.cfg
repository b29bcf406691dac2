SPECIFICATION Spec
CONSTANTS
    RuleIds = {"r1"}
    Words = {"w1", "w2", "ai", "bug"}
    AllowedLabels = {"bug"}
    Inputs <- MCInputs
    Payloads <- MCPayloads
    Outputs <- MCOutputs
    MaxAttempts = 2
    MaxSaves = 2
    MaxRuns = 2
CHECK_DEADLOCK FALSE
INVARIANTS
    TypeOK
    MatchesAsWritten
    
    FailsAsDocumented
