SPECIFICATION SurvivorSpec
CONSTANTS
  w1 = w1
  w2 = w2
  Workers <- TwoWorkers
  Partitions = {0}
  Score <- Scores
  Mode = "registry"
  ConfigMembers <- Disagreeing
  LeaseTTL = 3
  StaleAfter = 1
  Slow = 1
  None = None
INVARIANTS TypeOK HoldsItsClaims ClaimsOutlastVerdicts
PROPERTIES PartitionsAreOwned SurvivorTakesOver
