SPECIFICATION MCSpec
CONSTANTS
    Operator = {p1, p2}
    Statement = {"s", "t"}
    Wish = {"DERIVED", "OPEN", "COMPLETED", "COMPLETED_LIMITED"}
    Verdict = {"PASS", "BLOCKED"}
    MaxMaterial = 1
    MaxStops = 2
    Regimes = {"one by one", "at once"}
INVARIANTS
    QualificationIsEarned
    OneChainPerStop
    SuccessIsAsAsked
PROPERTIES
    RepeatedCallsComplete
