SPECIFICATION FairSpec
CONSTANTS
  f1 = f1
  f2 = f2
  NoFile = NoFile
  Files <- MCFiles
  Time <- MCTime
  Servers = {1}
  Contents <- MCContents
  Window = 2
  TxsNumMax = 3
  U32 = 8
  Misread = {0, 9}
  MaxUploads = 1
  MaxCrashes = 0
  MaxFaults = 1
CHECK_DEADLOCK FALSE
INVARIANTS
  ResultExact
PROPERTIES
  DeliveredStays
  NoFileDropped
  EveryRunEnds
