SPECIFICATION Spec
CONSTANTS
  PRIMITIVE_TYPES = {"char", "int", "void"}
  Nothing = Nothing
  Patterns <- MCPatterns
  Capitals = {"REQ", "RSP", "TICK", "LIMIT"}
  MsgConstants = {"REQ", "RSP"}
  ChosenStructs = {"Log"}
  StructNames <- MCStructNames
  Payload = Payload
  Apps = {"nav", "hub", "ui"}
  Names = {"Application 1", "Application 2", "Application 3"}
  Programs <- MCPrograms
  MaxFiles = 3
  NoAnalysis = NoAnalysis
INVARIANTS TypeOK PayloadHonest OrderIndependent EdgesBacked CertainMeansEvidence FlowsDrawn ToolsAgree MarksSound
CHECK_DEADLOCK FALSE
