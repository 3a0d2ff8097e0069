SPECIFICATION Spec
CONSTANTS
  sess = sess
  glob = glob
  e1 = e1
  e2 = e2
  e3 = e3
  w1 = w1
  Entry = {e1, e2}
  Lane = {sess}
  SessionLane = {sess}
  ProbeLane = {}
  Waiter = {}
  LaneOf <- MCTwoLaneOf
  PriorityOf <- MCTwoPriorityOf
  HasTimeout = {e1, e2}
  MaxConcurrency = 1
  MaxGeneration = 0
INVARIANTS
  OneRunPerSession
CHECK_DEADLOCK FALSE
