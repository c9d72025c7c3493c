SPECIFICATION Spec
CONSTANTS
  f1 = f1
  f2 = f2
  NoFile = NoFile
  Files <- MCFiles
  Time <- MCTime
  Servers = {1}
  Contents <- MCContents
  Window = 2
  TxsNumMax = 3
  U32 = 8
  Misread = {0, 9}
  MaxUploads = 2
  MaxCrashes = 1
  MaxFaults = 0
CHECK_DEADLOCK FALSE
INVARIANTS
  TypeOK
  SpentBelowCounter
  UnspentMeansFailed
  CountsCovered
PROPERTIES
  NoReplay
  CounterMonotone
