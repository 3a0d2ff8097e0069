SPECIFICATION Spec
CONSTANTS
  Root = {e1, e2, q1, r1}
  Patient = {e1, e2}
  Emitter = {e1, e2}
  Cancellable = {e1}
  Requester = {q1}
  MaxExternal = 1
  MaxReferences = 1
  MaxGeneration = 4
INVARIANTS
  BodiesNeverInterleave
CHECK_DEADLOCK FALSE
