SPECIFICATION Spec
CONSTANTS
  Names = {"plugin"}
  NoName = ""
  SensorTypes = {"motion"}
INVARIANT DeclaredIsValid
