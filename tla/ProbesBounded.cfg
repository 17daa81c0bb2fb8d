SPECIFICATION Spec
CONSTANTS
  FailureThreshold = 50
  RecoveryTimeout = 2
  MinRequests = 2
  HalfOpenMaxCalls = 1
  Callers = {c1, c2}
  MaxRequests = 6
  ClockSkew = 1
  MaxSkews = 1
INVARIANT ProbesBounded
CHECK_DEADLOCK FALSE
