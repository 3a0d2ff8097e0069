SPECIFICATION LiveSpec
CONSTANTS
  Target = {all, t1}
  Everyone = all
  Asked = {3}
  MaxBatch = 2
  MaxRunner = 2
INVARIANTS
  TypeOK
  WakeHasTimer
  IntervalGoesOn
PROPERTIES
  WakesAreKept
  WakeIsHandled
CHECK_DEADLOCK FALSE
