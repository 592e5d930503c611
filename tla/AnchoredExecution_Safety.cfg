CONSTANTS
  Keys = {k1}
  Fingerprints = {f1}
  Servers = {s1, s2}
  MaxAttempts = 1
  MaxRevision = 2
  MaxClaims = 2
  MaxFaults = 1
  MaxRestores = 1
SPECIFICATION Spec
SYMMETRY Symmetry
CHECK_DEADLOCK FALSE
INVARIANTS
  IInv
  AllowedOnce
  ReceiverRemembers
  AllowedIsHeld
