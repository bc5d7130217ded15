SPECIFICATION MCSpec
CONSTANTS
    Operator = {p1}
    Campaign = {"c"}
    Slot = {"a"}
    Body = {"x"}
    Thing = {"x"}
    Asked <- MCAsked
    Beginning <- Beginnings
    Regimes = {"gate"}
    MaxNew = 1
    MaxRecords = 1
    MaxStops = 1
INVARIANT EvaluationsAreAccepted
CHECK_DEADLOCK FALSE
