CONSTANTS
  WifiEnabled = TRUE
  BtEnabled = TRUE
  TxBlks = 512
  FwChunks = 3
  MaxAnnounce = 2
  MaxFaults = 2
SPECIFICATION FairSpec
INVARIANTS
  ReadyWhenUp
  GiveFindsSemaphore
  
PROPERTIES
  StateGoesForward
  HandshakeCompletes
  InitReturns
CHECK_DEADLOCK FALSE
