\* Two validations under quota, months and purges; one with a webhook; the rate.
SPECIFICATION Spec
CONSTANTS
  v1 = v1
  v2 = v2
  v3 = v3
  k1 = k1
  k2 = k2
  trial = trial
  team = team
  w1 = w1
  res = res
  s1 = s1
  s2 = s2
  AuditIds = {v1, v2, v3}
  ApiKeys = {k1, k2}
  Plans = {trial, team}
  PlanLimit <- MC_PlanLimit
  Servers = {s1, s2}
  RateLimit = 2
  Window = 2
  Sources = {v1, v2, v3, res}
  Webhooks = {w1}
  MaxAttempts = 2
  Reservation = res
  Scenarios <- MC_Scenarios
CHECK_DEADLOCK FALSE
INVARIANTS
  IInv
  LossIsNoticed
  MeteredIsRecorded
  AnswersAreRecorded
  AdmittedWithinRate
  DisabledIsSilent
PROPERTIES
  DeliveriesAreSettled
