SPECIFICATION Spec
CONSTANTS
  FailureThreshold = 50
  RecoveryTimeout = 2
  MinRequests = 2
  HalfOpenMaxCalls = 2
  Callers = {c1, c2}
  MaxRequests = 6
  ClockSkew = 1
  MaxSkews = 1
PROPERTY ClosesOnCapOfProbes
CHECK_DEADLOCK FALSE
