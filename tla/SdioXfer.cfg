SPECIFICATION XferSpec
CONSTANTS
  Frames <- MCFrames
  TxBlks <- MCTxBlks
  Commands <- MCCommands
  Messages <- MCMessages
  Available <- MCAvailable
INVARIANTS TargetAgrees WithinBuffer CountsAgree
CHECK_DEADLOCK FALSE
