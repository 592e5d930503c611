CONSTANTS
  Keys = {k1}
  Fingerprints = {f1}
  Servers = {s1, s2}
  MaxAttempts = 1
  MaxRevision = 2
  MaxClaims = 8
  MaxFaults = 1
  MaxRestores = 0
SPECIFICATION FairSpec
CHECK_DEADLOCK FALSE
PROPERTIES
  EveryRevisionIsAcknowledged
  HandlersReturn
