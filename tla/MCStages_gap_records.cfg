SPECIFICATION MCSpec
CONSTANTS
  Operator = {p1}
  Lanes <- OneLane
  Says <- MixedSays
  Begins = {2}
  Direct = {}
  MaxMaterial = 0
  MaxTurns = 0
  MaxCopies = 1
  Regimes = {"alone"}
CHECK_DEADLOCK FALSE
PROPERTY FinalizationCompletesE3
