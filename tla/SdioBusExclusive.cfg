CONSTANTS
  wifi = wifi
  bt = bt
  starter = starter
  Receiver = Receiver
  Nobody = Nobody
  Senders <- MCSenders
  FnOf <- MCFnOf
  MaxFaults = 1
SPECIFICATION Spec
INVARIANT FunctionsExclusive
CHECK_DEADLOCK FALSE
