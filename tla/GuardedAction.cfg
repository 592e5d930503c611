\* One key, two attempts; the two scenarios of GuardedAction_MC.
SPECIFICATION MC_Spec
CONSTANTS
  c1 = c1
  c2 = c2
  k1 = k1
  a1 = a1
  a2 = a2
  p1 = p1
  p2 = p2
  Callers = {c1, c2}
  Keys = {k1}
  Args = {a1, a2}
  Approvers = {p1, p2}
  Actions <- MC_Actions
  LocalPolicy <- DefaultPolicy
  MaxChallenges = 1
  MaxReclassifications = 2
  MaxAttempts = 2
  FirstCaller = c1
  FirstApprover = p1
  FirstArg = a1
CHECK_DEADLOCK FALSE
INVARIANTS
  IInv
  EffectAtMostOnce
  AllowedWithinAuthority
PROPERTIES
  EvidenceLastsUntilRevoked
  ImplementsLedger
  ReservationsAreSettled
