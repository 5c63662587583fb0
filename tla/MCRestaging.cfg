SPECIFICATION FairSpec
CONSTANTS
  PlanOrder <- AThenB
  CaptureOrder <- Nothing
  PayloadOrder <- AThenB
  RejectedOrder <- Nothing
  ActiveOrder <- AThenB
  Conditional = {}
  AbsentBefore = {"a", "b"}
  Durability = "visibility_only"
  Recoveries = {"none"}
  NoPath = "-"
  MaxCrashes = 2
  MaxProjections = 1
PROPERTIES
  PreparationEnds
CHECK_DEADLOCK FALSE
