SPECIFICATION FairSpec
CONSTANTS
  Message = {m1}
  Drain = {reconnect}
  Boot = boot
  NoMessage = none
  Kinds <- MCKinds
  MaxUnits = 2
  MaxRetries = 2
  MaxCrashes = 1
  MaxFaults = 2
INVARIANTS
  TypeOK
  OneDeliverer
  NoDoubleSend
  RequiredIsNotLost
  ReplaysAreCounted
PROPERTIES
  LedgerIsKept
  EntrySettles
CHECK_DEADLOCK FALSE
