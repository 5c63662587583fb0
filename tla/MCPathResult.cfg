SPECIFICATION Spec
CONSTANTS
  Values = {"expected", "other"}
INVARIANTS
  TypeOK
  RetainedSatisfiesPlan
  MatchedSealable
  MatchExact
CHECK_DEADLOCK FALSE
