SPECIFICATION RuntimeSpec
CONSTANTS
  MaxEdits = 2
  MaxLoops = 2
  MaxDirect = 1
  Components = {mcp, scheduler, tracing}
  Startups = {init_logging}
  Shutdowns = {flush_metrics, close_db}
  NoError = NoError
INVARIANTS
  ReloadTypeOK
  SingleLoop
  StopMeansStopped
  LifespanTypeOK
  TeardownOrder
  EveryStopRuns
  TeardownErrorSurfaces
PROPERTIES
  Converges
CHECK_DEADLOCK FALSE
