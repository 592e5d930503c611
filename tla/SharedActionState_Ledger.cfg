\* The two scenarios of SharedActionState_MC.
CONSTANTS
  Keys = {k1, k2}
  Fingerprints = {f1, f2}
  Anchoring = TRUE
  MaxAttempts = 2
  MaxRevision = 5
  MaxClaims = 3
  MaxLosses = 2
  OutboxRevision = 2
  OutboxLosses = 1
SPECIFICATION MC_Spec
SYMMETRY Symmetry
CHECK_DEADLOCK FALSE
INVARIANTS
  IInv
  KeyHeldOnce
  ReconciliationIsFinal
  AnchoredHistoryIsLegal
  NeverLocksItselfOut
PROPERTIES
  ImplementsLedger
  DeliveredIsFinal
