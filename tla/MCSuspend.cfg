SPECIFICATION LiveSpec
CONSTANTS
  Root = {c1, r1, r2, t1}
  Caller = {c1}
  Patient = {t1}
  Host = {h1, h2}
  MaxReferences = 2
  MaxGeneration = 3
INVARIANTS
  TypeOK
  FenceHasEntry
  LeaseHonoured
  PreparedMeansIdle
  PausedHasOwner
PROPERTIES
  DoorIsKept
  IdleStaysIdle
  SuspensionEnds
CHECK_DEADLOCK FALSE
