SPECIFICATION FairSpec
CONSTANTS
  Ids = {1}
  Indexes = {0, 1}
  NoTx = NoTx
  Txs = {1}
  IndexModulus = 8
  MaxReq = 4
  MaxDeaths = 0
  MaxCrashes = 1
  MaxFaults = 1
CHECK_DEADLOCK FALSE
PROPERTIES
  ImplementsVault
  RequestEnds
