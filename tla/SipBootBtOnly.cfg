CONSTANTS
  WifiEnabled = FALSE
  BtEnabled = TRUE
  TxBlks = 512
  FwChunks = 3
  MaxAnnounce = 1
  MaxFaults = 0
SPECIFICATION Spec
INVARIANT BtAfterChipOn
CHECK_DEADLOCK FALSE
