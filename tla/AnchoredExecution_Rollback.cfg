CONSTANTS
  Keys = {k1}
  Fingerprints = {f1}
  Servers = {s1, s2}
  MaxAttempts = 1
  MaxRevision = 2
  MaxClaims = 1
  MaxFaults = 0
  MaxRestores = 0
SPECIFICATION Spec
SYMMETRY Symmetry
CHECK_DEADLOCK FALSE
INVARIANTS
  RollbackSignalIsTrue
