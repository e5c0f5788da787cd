CONSTANTS
  HdrLen = 2
  Sizes = {2, 3}
  RxByteMax = 7
  Word = 14
  RecvBuf = 5
  MaxPending = 6
  MaxPackets = 5
  MaxFaults = 2
SPECIFICATION FairSpec
INVARIANTS
  AccountInStep
  NoPacketForgotten
  AllReadIsHandled
PROPERTIES
  HandledInSequence
  EveryPacketHandled
CHECK_DEADLOCK FALSE
