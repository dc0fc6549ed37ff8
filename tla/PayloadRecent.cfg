SPECIFICATION Spec
CONSTANTS
  PRIMITIVE_TYPES = {"char", "int", "void"}
  Nothing = Nothing
  Patterns <- MCPatterns
  Capitals = {"TICK"}
  MsgConstants = {}
  ChosenStructs = {}
  StructNames <- MCStructNames
  Payload = Payload
  Apps = {"nav"}
  Names = {"Application 1"}
  Programs <- MCNested
  MaxFiles = 1
  NoAnalysis = NoAnalysis
INVARIANTS MostRecent
CHECK_DEADLOCK FALSE
