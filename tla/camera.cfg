SPECIFICATION MCSpec
CONSTANTS
  cam1 = cam1
  cam2 = cam2
  g1 = g1
  g2 = g2
  s1 = s1
  s2 = s2
  on = on
  off = off
  c1 = c1
  c2 = c2
  Parts = {"devices", "sensors", "mirrors", "feed"}
  Cameras = {cam1, cam2}
  Callers = {g1, g2}
  MaxDevices = 8
  ManagerScenes <- MCManagerScenes
  Sensors = {s1, s2}
  MaxCalls = 4
  Scenes <- MCScenes
  States = {on, off}
  Start = off
  Callbacks = {c1, c2}
  MaxChanges = 2
  MaxDrops = 2
  Watchers = {c1, c2}
  CameraValues <- MCCameraValues
  FirstCamera <- MCFirst
  Flag = "room"
  FeedKinds <- MCFeedKinds
  MaxFeeds = 2
INVARIANTS
  MapHoldsLiveDevices
  StorageServed
  WireHasOwner
  ReleasedIsQuiet
  WireServesCallbacks
  FollowsState
  OneUpstream
PROPERTIES
  CameraSettles
CHECK_DEADLOCK FALSE
