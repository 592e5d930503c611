CONSTANTS
  Tenants = {t1, t2}
  EventIds = {e1, e2, e3}
  Hashes = {h1, h2}
  Revisions = {0, 1, 2}
  MaxLosses = 2
SPECIFICATION Spec
SYMMETRY Symmetry
CHECK_DEADLOCK FALSE
INVARIANTS
  IInv
  NeverLocksItselfOut
  OneLossIsNoticed
  HistoryIsLinear
PROPERTIES
  LatestNeverMovesBack
