SPECIFICATION FairSpec
CONSTANTS
  PlanOrder <- OnlyA
  CaptureOrder <- Nothing
  PayloadOrder <- Nothing
  RejectedOrder <- Nothing
  ActiveOrder <- OnlyA
  Conditional = {"a"}
  AbsentBefore = {}
  Durability = "all_application_domains"
  Recoveries = {"none"}
  NoPath = "-"
  MaxCrashes = 0
  MaxProjections = 1
PROPERTIES
  AttemptResolved
CHECK_DEADLOCK FALSE
