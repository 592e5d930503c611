\* Two processes on one file, lease takeovers and retries, or one lost row.
SPECIFICATION Spec
CONSTANTS
  p1 = p1
  p2 = p2
  t1 = t1
  k1 = k1
  f1 = f1
  Processes = {p1, p2}
  Tenants = {t1}
  Keys = {k1}
  Fingerprints = {f1}
  MaxAttempts = 2
  MaxChanges = 2
  MaxClaims = 2
  MaxLosses = 1
SYMMETRY MC_Symmetry
INVARIANTS
  IInv
  UnchangedMeansVerified
  AcknowledgedIsConfirmed
PROPERTIES
  ImplementsLedger
