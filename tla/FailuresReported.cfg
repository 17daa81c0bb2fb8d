SPECIFICATION Spec
CONSTANTS
  FailureThreshold = 50
  RecoveryTimeout = 2
  MinRequests = 2
  HalfOpenMaxCalls = 1
  Tasks = {t1, t2, t3}
  MaxRetries = 2
  Errors = {"TRANSIENT", "PERMANENT"}
INVARIANT FailuresReported
CHECK_DEADLOCK FALSE
