SPECIFICATION StorageSpec
CONSTANTS
  t1 = t1
  t2 = t2
  k1 = k1
  a = a
  b = b
  Nil = Nil
  Absent = Absent
  NoSchema = NoSchema
  Callers = {t1, t2}
  Keys = {k1}
  Data = {a, b}
  Zero = b
  Schemas <- MCSchemas
  Configs <- MCConfigs
  Layouts <- MCLayouts
  Uses <- SetInternalOnly
  MaxSaves = 3
  Backends = {"file"}
INVARIANT
  ReturnedIsDurable
CHECK_DEADLOCK FALSE
