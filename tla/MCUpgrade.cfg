SPECIFICATION FairSpec
CONSTANTS
  PlanOrder <- AThenB
  CaptureOrder <- OnlyA
  PayloadOrder <- OnlyB
  RejectedOrder <- OnlyA
  ActiveOrder <- AThenB
  Conditional = {"a"}
  AbsentBefore = {"b"}
  Durability = "all_application_domains"
  Recoveries = {"none", "best_effort", "exact_prior_state"}
  NoPath = "-"
  MaxCrashes = 2
  MaxProjections = 2
INVARIANTS
  TypeOK
  NeverIssuedTwice
  ReceiptTruthful
  DeterminateReceipts
  OrderedEffects
  MutationPrepared
  SealedEvidenceDurable
PROPERTIES
  JournalAccepts
  ReceiptFinal
  EventuallyResolved
CHECK_DEADLOCK FALSE
