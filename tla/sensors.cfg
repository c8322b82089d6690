SPECIFICATION MCSpec
CONSTANTS
  t1 = t1
  t2 = t2
  half = half
  MaxInt32 = 300000
  MaxInt64 = 600000
  Truncated <- MCTruncated
  NaN = NaN
  Inf = Inf
  Threads = {t1, t2}
  Scenes <- MCScenes
  Ringers = {t1, t2}
  MaxTriggers = 3
  MaxRemovals = 2
  Detectors <- MCDetectors
  Reporters = {t1, t2}
  Lists <- MCLists
  MaxDetectionReports = 3
  MaxBlocks = 1
INVARIANTS
  Converges
  ReadsTrue
  OneReset
  PropertiesAgree
PROPERTIES
  SensorsSettle
CHECK_DEADLOCK FALSE
