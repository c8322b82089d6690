SPECIFICATION LiveSpec
CONSTANTS
  p1 = p1
  p2 = p2
  s1 = s1
  s2 = s2
  Producers = {p1, p2}
  Subscribers = {s1, s2}
  MaxCalls = 3
  Scenes <- MCScenes
INVARIANTS
  DeliveredOnce
  InOrder
PROPERTIES
  WaiterReturns
CHECK_DEADLOCK FALSE
