SPECIFICATION Spec
CONSTANTS
  Ids = {1}
  Indexes = {0, 1}
  NoTx = NoTx
  Txs = {1}
  IndexModulus = 2
  MaxReq = 4
  MaxDeaths = 1
  MaxCrashes = 1
  MaxFaults = 1
CHECK_DEADLOCK FALSE
INVARIANTS
  TypeOK
  PairKept
  SignedAsAsked
  ServerNotStranded
  ClientNotStranded
