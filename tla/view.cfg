SPECIFICATION LiveSpec
CONSTANTS
  s1 = s1
  s2 = s2
  c1 = c1
  v0 = v0
  v1 = v1
  None = None
  Sensors = {s1, s2}
  Foreign = {s1}
  Values = {v0, v1}
  Cameras = {c1}
  Scenes <- MCScenes
INVARIANTS
  OneSubscription
  ViewConverges
PROPERTIES
  ReleaseReported
CHECK_DEADLOCK FALSE
