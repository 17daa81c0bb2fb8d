SPECIFICATION FactorySpec
CONSTANTS
  NoRef = NoRef
  Nesting <- MCNesting
  MaxNesting = 2
  RecursionLimit = 10
  StepConfigs <- MCStepConfigs
  Configs <- MCConfigs
INVARIANT ConfigurationIsBuilt
CHECK_DEADLOCK FALSE
