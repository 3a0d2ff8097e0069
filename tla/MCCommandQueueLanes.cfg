SPECIFICATION Spec
CONSTANTS
  sess = sess
  glob = glob
  e1 = e1
  e2 = e2
  e3 = e3
  w1 = w1
  Entry = {e1, e2, e3}
  Lane = {sess, glob}
  SessionLane = {sess}
  ProbeLane = {glob}
  Waiter = {w1}
  LaneOf <- MCTwoLaneOf
  PriorityOf <- MCTwoPriorityOf
  HasTimeout = {e1, e3}
  MaxConcurrency = 2
  MaxGeneration = 1
INVARIANTS
  SlotAccounting
  PromiseHasOwner
  WaiterHasActiveTask
  OneOwnedRunPerSession
PROPERTIES
  LanesAreExecutors
CHECK_DEADLOCK FALSE
