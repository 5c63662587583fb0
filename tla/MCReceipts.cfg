SPECIFICATION Spec
CONSTANTS
  PathCount = 2
  Budget = 5
INVARIANTS
  TypeOK
  KnownRefusals
  RestartRebuildsProfile
  PathsAccounted
  DurabilityEstablished
CHECK_DEADLOCK FALSE
