SPECIFICATION Spec
CONSTANTS
  Uuids = {u1, u2}
  SpcKeys = {1, 2}
  MaxRuns = 5
  MaxCrashes = 0
  MaxFaults = 0
SYMMETRY SymUuids
INVARIANTS
  HalvesFit
  DeployDrained
CHECK_DEADLOCK FALSE
