SPECIFICATION Spec
CONSTANTS
  PathCount = 1
  Budget = 3
INVARIANTS
  ConfirmedEstablished
CHECK_DEADLOCK FALSE
