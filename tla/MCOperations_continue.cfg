SPECIFICATION MCFairSpec
CONSTANTS
    Operator = {p1, p2}
    Campaign = {"c", "d"}
    Slot = {"a"}
    Body = {"x", "y"}
    Thing = {"x"}
    Asked <- MCAsked
    Beginning <- Beginnings
    Regimes = {"race", "gate", "follow"}
    MaxNew = 2
    MaxRecords = 2
    MaxStops = 1
INVARIANTS
    BaselineInOrder
    ReportsAreTrue
    AdviceIsPossible
    PassIsEarned
PROPERTY FollowedAdviceEnds
CHECK_DEADLOCK FALSE
