SPECIFICATION FairSpec
CONSTANTS
  PlanOrder <- OnlyA
  CaptureOrder <- Nothing
  PayloadOrder <- Nothing
  RejectedOrder <- Nothing
  ActiveOrder <- Nothing
  Conditional = {}
  AbsentBefore = {}
  Durability = "visibility_only"
  Recoveries = {"none"}
  NoPath = "-"
  MaxCrashes = 1
  MaxProjections = 1
PROPERTIES
  AttemptResolved
CHECK_DEADLOCK FALSE
