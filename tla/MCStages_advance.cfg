SPECIFICATION MCSpec
CONSTANTS
  Operator = {p1, p2}
  Lanes <- OneLane
  Says <- MixedSays
  Begins = {1, 2, 3}
  Direct = {"E2-REVEAL", "E3-HOLDOUT", "E4-DEEPEN", "E5A-ATTACK"}
  MaxMaterial = 1
  MaxTurns = 1
  MaxCopies = 1
  Regimes = {"alone", "race"}
SYMMETRY Alike
CHECK_DEADLOCK FALSE
INVARIANTS OncePerPhase GrantsFollowSeals StageOrder ResultsUnderTheirGrant CompletionsAreEarned ChallengedWasNewest
