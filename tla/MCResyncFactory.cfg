SPECIFICATION MCSpec
CONSTANTS
  FailureThreshold = 50
  RecoveryTimeout = 1
  MinRequests = 1
  HalfOpenMaxCalls = 3
  MaxEdits = 3
  MaxManual = 1
  MaxConcurrent = 2
  NoRef = NoRef
  Nesting <- MCNesting
  MaxNesting = 2
  RecursionLimit = 10
  StepConfigs <- MCStepConfigs
  Configs <- MCConfigs
INVARIANTS
  TypeOK
  ServesValidatedConfig
  PermitsBalance
  FactoryTypeOK
  TreeFollowsConfig
  ResilienceEverywhere
  EndsUnlessCyclic
PROPERTIES
  NeverRollsBack
  SettlesOnLatest
CHECK_DEADLOCK FALSE
