SPECIFICATION FairSpec
CONSTANTS
  PlanOrder <- AThenB
  CaptureOrder <- Nothing
  PayloadOrder <- Nothing
  RejectedOrder <- Nothing
  ActiveOrder <- AThenB
  Conditional = {}
  AbsentBefore = {"a", "b"}
  Durability = "visibility_only"
  Recoveries = {"best_effort"}
  NoPath = "-"
  MaxCrashes = 1
  MaxProjections = 1
PROPERTIES
  EffectRecoveryEnds
CHECK_DEADLOCK FALSE
