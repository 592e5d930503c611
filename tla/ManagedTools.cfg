\* Classification of every change, releases to two environments, calls and lists.
SPECIFICATION Spec
CONSTANTS
  none = none
  anywhere = anywhere
  prod = prod
  dev = dev
  c1 = c1
  c2 = c2
  c3 = c3
  Versions = {1, 2, 3}
  Environments = {prod, dev}
  Schemas <- MC_Schemas
  Callers = {c1, c2, c3}
  Anywhere = anywhere
  Arguments <- MC_Arguments
  Scenarios <- MC_Scenarios
SYMMETRY MC_Symmetry
CHECK_DEADLOCK FALSE
INVARIANTS
  IInv
  AdmittedWasReleased
  RefusedDriftIsNotUsed
  LostReleaseIsNoticed
  UnreviewedReleaseKeepsCalls
