CONSTANTS
  data = data
  cmd = cmd
  down = down
  test = test
  NoBuf = NoBuf
  Bufs <- MCBufs
  Kind <- MCKindOf
  FrameLen <- MCFrameLenOf
  TxBlks = 512
  TxBufferMax = 4
  DevBufs = 3
  SeqMod = 2
  MaxFaults = 1
SPECIFICATION FairSpec
INVARIANTS
  CreditsExact
  NeverOverrun
PROPERTIES
  NumberedInSequence
  EveryFrameReturns
