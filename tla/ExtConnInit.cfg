SPECIFICATION Spec
CONSTANTS
  MaxCalls = 3
  MaxFaults = 2
INVARIANTS TypeOK OnlyCardAndLdoTwice LinkReady OkMeansComplete
CHECK_DEADLOCK FALSE
