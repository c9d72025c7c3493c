SPECIFICATION FairSpec
CONSTANTS
  t1 = t1
  c1 = c1
  c2 = c2
  Bad = Bad
  NoName = NoName
  TxFiles <- MCTxFiles
  CmdFiles <- MCCmdFiles
  Uploads <- MCUploads
  MaxSent = 3
  MaxCrashes = 1
  MaxFaults = 1
CHECK_DEADLOCK FALSE
INVARIANTS
  TypeOK
  OnlyVouched
PROPERTIES
  KeepHonoured
  Pruned
  CommandOnce
  UploadFate
  RunEnds
