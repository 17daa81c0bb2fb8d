SPECIFICATION Spec
CONSTANTS
  FailureThreshold = 50
  RecoveryTimeout = 2
  MinRequests = 2
  HalfOpenMaxCalls = 2
  Callers = {c1, c2, c3}
  MaxRequests = 6
  ClockSkew = 1
  MaxSkews = 1
INVARIANTS
  TypeOK
  HalfOpenHasRoom
  OutcomesAccountedFor
PROPERTIES
  KeepsPromise
  NeverWedged
  RecoversWhenHealthy
CHECK_DEADLOCK FALSE
