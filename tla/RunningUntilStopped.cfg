SPECIFICATION ReloadSpec
CONSTANTS
  MaxEdits = 1
  MaxLoops = 1
  MaxDirect = 0
INVARIANT
  RunningUntilStopped
CHECK_DEADLOCK FALSE
