SPECIFICATION Spec
CONSTANTS
  MaxId = 1
  MakeMax = 2
  U16 = 5
  MaxPairs = 8
  MaxTime = 1
  MaxCmds = 1
  MaxSpent = 0
  MaxRefusals = 0
  MaxFaults = 1
  MaxCrashes = 0
CHECK_DEADLOCK FALSE
INVARIANT FailedWriteUndone
