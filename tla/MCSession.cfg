SPECIFICATION LiveSpec
CONSTANTS
  a = a
  b = b
  m = m
  n = n
  nobody = nobody
  Turn = {a, b}
  Mutation = {m, n}
  Rollover = {m}
  LaneSweep = {s1}
  SqliteSweep = {}
  RowSweep = {s3}
  Identity = {1, 2}
  IdsOf <- Ids
  Drops <- Dropped
  Initiator <- AskedFrom
  Handed = {b}
  Abortable = {b, n}
INVARIANTS
  TypeOK
  LossIsEviction
  InterruptReachesOwner
PROPERTIES
  SessionsAreExclusive
  EverythingSettles
CHECK_DEADLOCK FALSE
