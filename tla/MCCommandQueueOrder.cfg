SPECIFICATION LiveSpec
CONSTANTS
  sess = sess
  glob = glob
  e1 = e1
  e2 = e2
  e3 = e3
  w1 = w1
  Entry = {e1, e2, e3}
  Lane = {glob}
  SessionLane = {}
  ProbeLane = {}
  Waiter = {}
  LaneOf <- MCOneLaneOf
  PriorityOf <- MCOnePriorityOf
  HasTimeout = {e1, e2, e3}
  MaxConcurrency = 2
  MaxGeneration = 1
INVARIANTS
  TypeOK
  WorkConserving
  NoOvertaking
PROPERTIES
  NeverWedged
CHECK_DEADLOCK FALSE
