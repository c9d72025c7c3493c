SPECIFICATION Spec
CONSTANTS
  MaxId = 2
  MakeMax = 2
  U16 = 5
  MaxPairs = 8
  MaxTime = 2
  MaxCmds = 4
  MaxSpent = 1
  MaxRefusals = 1
  MaxFaults = 1
  MaxCrashes = 1
CHECK_DEADLOCK FALSE
INVARIANTS
  TypeOK
  PairsReleasedOnce
  IdIssuedOnce
  InStep
PROPERTIES
  CounterPerSecret
