SPECIFICATION Spec
CONSTANTS
  Paths <- FourPaths
  Above <- MCAbove
  Rank <- MCRank
  NoPath = "-"
  Plans <- MCPlans
  Recovery = "best_effort"
INVARIANTS
  TypeOK
  SafeOrder
  CompleteOrder
  CanonicalOrder
  CycleOnlyIfMalformed
  TreeAtEveryStep
  SourcesReady
  ResultReached
CHECK_DEADLOCK FALSE
