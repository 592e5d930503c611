CONSTANTS
  Keys = {k1}
  Fingerprints = {f1}
  Anchoring = TRUE
  MaxAttempts = 2
  MaxRevision = 1
  MaxClaims = 3
  MaxLosses = 0
  OutboxRevision = 1
  OutboxLosses = 0
SPECIFICATION MC_Spec
SYMMETRY Symmetry
CHECK_DEADLOCK FALSE
INVARIANTS
  AttemptsBounded
