SPECIFICATION MCSpec
CONSTANTS
    Operator = {p1}
    Statement = {"s"}
    Wish = {"DERIVED"}
    Verdict = {"PASS", "BLOCKED"}
    MaxMaterial = 0
    MaxStops = 2
    Regimes = {"one by one"}
INVARIANTS
    ConcludedOnce
