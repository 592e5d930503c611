\* The bootstrap command runs beside an anchored server; nothing is lost.
SPECIFICATION Spec
CONSTANTS
  p1 = p1
  t1 = t1
  t2 = t2
  k1 = k1
  f1 = f1
  Processes = {p1}
  Tenants = {t1, t2}
  Keys = {k1}
  Fingerprints = {f1}
  MaxAttempts = 1
  MaxChanges = 1
  MaxClaims = 1
  MaxLosses = 0
INVARIANTS
  RefusedOnlyAfterLoss
