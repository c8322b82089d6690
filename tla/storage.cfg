SPECIFICATION StorageLiveSpec
CONSTANTS
  t1 = t1
  t2 = t2
  k1 = k1
  a = a
  b = b
  Nil = Nil
  Absent = Absent
  NoSchema = NoSchema
  Callers = {t1, t2}
  Keys = {k1}
  Data = {a, b}
  Zero = a
  Schemas <- MCSchemas
  Configs <- MCConfigs
  Layouts <- MCLayouts
  Uses <- MCUses
  MaxSaves = 3
  Backends = {"file", "remote"}
INVARIANTS
  SavedIsDurable
  CleanMeansDurable
PROPERTIES
  EveryCallReturns
CHECK_DEADLOCK FALSE
