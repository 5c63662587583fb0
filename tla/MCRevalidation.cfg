SPECIFICATION Spec
CONSTANTS
  Target <- MCTarget
  Plan <- MCPlan
  Submitted <- MCSubmitted
  NotGiven = NotGiven
  Controllers = {c1, c2}
  Backends <- MCBackends
  Archives <- MCArchives
  Acquisitions <- MCAcquisitions
  State <- MCState
  Initial <- MCInitial
  MaxLeases = 3
  MaxAttempts = 2
  MaxLapses = 0
INVARIANTS
  RevalidatedBeforeMutation
CHECK_DEADLOCK FALSE
