SPECIFICATION MCSpec
CONSTANTS
  Parts = {"document"}
  MaxGen = 4
  MaxCrashes = 3
  MaxRot = 1
  MaxWipes = 1
  Places <- MCPlaces
  MaxData = 2
  Backings = {"file", "remote"}
  Origins = {"got", "typed"}
  MaxEdits = 1
  MaxSets = 3
  MaxOpens = 2
  MaxSafeStoreInt = 2
  MaxInt64 = 4
  MaxStoreValueDepth = 3
  Samples <- MCSamples
  SampleSchemas <- MCSchemas
INVARIANT
  SetIsStored
CHECK_DEADLOCK FALSE
