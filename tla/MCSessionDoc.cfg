SPECIFICATION Spec
CONSTANTS
  a = a
  b = b
  m = m
  n = n
  nobody = nobody
  Turn = {a, b}
  Mutation = {m}
  Rollover = {m}
  LaneSweep = {s1}
  SqliteSweep = {s2}
  RowSweep = {s3}
  Identity = {1, 2}
  IdsOf <- Ids
  Drops <- Dropped
  Initiator <- AskedFrom
  Handed = {}
  Abortable = {}
INVARIANTS
  AdmittedKeepsSession
CHECK_DEADLOCK FALSE
