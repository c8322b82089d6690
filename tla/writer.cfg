SPECIFICATION LiveSpec
CONSTANTS
  c1 = c1
  c2 = c2
  c3 = c3
  Callers <- MCCallers
  MaxSaves = 4
  Backends = {"file", "remote"}
INVARIANTS
  AckedIsDurable
  OneFlushAtATime
  BurstCost
PROPERTIES
  NeverOvertaken
  EverySaveAnswered
  ImplementsDurableStore
CHECK_DEADLOCK FALSE
