CONSTANTS
  m1 = m1
  m2 = m2
  m3 = m3
  m4 = m4
  NoMsg = NoMsg
  Msgs <- MCMsgs
  Empty <- MCEmpty
  QueueLen = 2
  SeqMod = 3
  MaxFaults = 2
SPECIFICATION FairSpec
INVARIANTS
  CreditConserved
PROPERTIES
  NeverOverrun
  NumberedInSequence
  ImplementsChannel
  EveryMessageLeaves
  CallerReturns
CHECK_DEADLOCK FALSE
