SPECIFICATION Spec
CONSTANTS
  Message = {m1}
  Drain = {reconnect}
  Boot = boot
  NoMessage = none
  Kinds <- MCUnmarked
  MaxUnits = 1
  MaxRetries = 2
  MaxCrashes = 1
  MaxFaults = 0
INVARIANTS
  NoDoubleSend
CHECK_DEADLOCK FALSE
