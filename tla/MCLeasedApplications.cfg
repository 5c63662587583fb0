SPECIFICATION Spec
CONSTANTS
  Target <- MCTarget
  Plan <- MCPlan
  Submitted <- MCSubmitted
  NotGiven = NotGiven
  Controllers = {c1, c2}
  Backends <- MCBackends
  Archives <- MCArchives
  Acquisitions <- MCAcquisitions
  State <- MCState
  Initial <- MCInitial
  MaxLeases = 3
  MaxAttempts = 2
  MaxLapses = 1
SYMMETRY Symmetry
INVARIANTS
  TypeOK
  PlanCurrent
  IssuedOnce
  AdmittedFactsHold
  CaptureAccepted
  DeclaredPlanExecuted
CHECK_DEADLOCK FALSE
