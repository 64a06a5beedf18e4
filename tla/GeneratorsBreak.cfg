SPECIFICATION Spec
CONSTANTS
  MaxGens = 2
  MaxDepth = 2
  Constructs = {"loop"}
PROPERTY BreakFrees
CHECK_DEADLOCK FALSE
