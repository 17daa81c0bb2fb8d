SPECIFICATION Spec
CONSTANTS
  FailureThreshold = 50
  RecoveryTimeout = 2
  MinRequests = 2
  HalfOpenMaxCalls = 1
  Tasks = {t1, t2, t3}
  MaxRetries = 2
  Errors = {"TRANSIENT", "PERMANENT"}
INVARIANTS
  TypeOK
  AttemptsBalance
  RaisesForCause
  GroupAccountsForTasks
PROPERTIES
  KeepsPromise
  AlwaysEnds
CHECK_DEADLOCK FALSE
