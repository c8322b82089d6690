SPECIFICATION MCSpec
CONSTANTS
  r1 = r1
  r2 = r2
  Records = {r1, r2}
  MaxInstances = 4
  Scenes <- MCScenes
  Handlers = {"a", "b", "c"}
  OnceHandlers = {"a", "b"}
  Emissions = {1, 2}
  Usages = {"single", "waits"}
INVARIANTS
  NotStartedAfterStop
  SyncWritesLand
  OwnedIsWired
  PairedLifecycle
  ListenersKept
PROPERTIES
  NeverMissed
  EveryBindEnds
CHECK_DEADLOCK FALSE
