SPECIFICATION MCSpec
CONSTANTS
  Operator = {p1}
  Lanes <- TwoBlindLanes
  Says <- MixedSays
  Begins = {1}
  Direct = {}
  MaxMaterial = 0
  MaxTurns = 1
  MaxCopies = 1
  Regimes = {"alone"}
CHECK_DEADLOCK FALSE
INVARIANT ResumeSucceeds
