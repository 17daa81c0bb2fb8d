SPECIFICATION LifespanSpec
CONSTANTS
  Components = {mcp, scheduler}
  Startups = {init_logging}
  Shutdowns = {flush_metrics}
  NoError = NoError
INVARIANT FirstExceptionReraised
CHECK_DEADLOCK FALSE
