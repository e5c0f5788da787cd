CONSTANTS
  data = data
  mgmt = mgmt
  cmd = cmd
  down = down
  test = test
  c1 = c1
  c2 = c2
  NoBuf = NoBuf
  NoTask = NoTask
  Bufs <- LiveBufs
  Kind <- LiveKindOf
  Callers = {c1, c2}
SPECIFICATION FairSpec
PROPERTY EveryFrameLeaves
