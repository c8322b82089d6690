SPECIFICATION MCSpec
CONSTANTS
  Parts = {"file", "document", "values"}
  MaxGen = 4
  MaxCrashes = 3
  MaxRot = 2
  MaxWipes = 1
  Places <- MCPlaces
  MaxData = 2
  Backings = {"file", "remote"}
  Origins = {"fresh", "got"}
  MaxEdits = 1
  MaxSets = 3
  MaxOpens = 2
  MaxSafeStoreInt = 2
  MaxInt64 = 4
  MaxStoreValueDepth = 3
  Samples <- MCSamples
  SampleSchemas <- MCSchemas
INVARIANTS
  NeverFallsBehind
  AlwaysRecoverable
  AckedSurvives
  FlushedAsSaved
  ValuesFaithful
CHECK_DEADLOCK FALSE
