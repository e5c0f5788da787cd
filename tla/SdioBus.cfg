CONSTANTS
  wifi = wifi
  bt = bt
  starter = starter
  Receiver = Receiver
  Nobody = Nobody
  Senders <- MCSenders
  FnOf <- MCFnOf
  MaxFaults = 3
SPECIFICATION Spec
INVARIANTS
  OneAtATime
  SoundWithoutErrors
CHECK_DEADLOCK FALSE
