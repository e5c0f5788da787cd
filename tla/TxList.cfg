CONSTANTS
  data = data
  mgmt = mgmt
  cmd = cmd
  down = down
  test = test
  c1 = c1
  c2 = c2
  NoBuf = NoBuf
  NoTask = NoTask
  Bufs <- MCBufs
  Kind <- MCKindOf
  Callers = {c1, c2}
SPECIFICATION Spec
INVARIANTS
  ListRepresentsQueue
  HeldOnce
  ClearKeepsTheRest
  NoLostWakeup
PROPERTY ImplementsTxQueue
SYMMETRY CallerSymmetry
