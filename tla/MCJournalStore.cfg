SPECIFICATION Spec
CONSTANTS
  None = None
  Effects = {"active", "recover", "seal"}
  KindOf <- MCKindOf
  Receipts = {"r1", "r2"}
  Evidences = {"ev"}
  Sessions = {s1, s2}
  Bodies <- MCBodies
  MaxSteps = 6
INVARIANTS
  TypeOK
  SpineIntact
  SessionsHoldPrefixes
  CommittedSnapshotValid
  RehydrationFindsExactHistory
PROPERTIES
  ImplementsAppendOnlyJournal
  AuthorityRetained
