SPECIFICATION Spec
CONSTANTS
  Uuids = {u1}
  SpcKeys = {1, 2}
  MaxRuns = 4
  MaxCrashes = 1
  MaxFaults = 1
INVARIANTS
  TypeOK
  KeysMatch
  ExchangeAgreed
  SecondHalfEarned
CHECK_DEADLOCK FALSE
