SPECIFICATION Spec
CONSTANTS
  MaxLeft = 1
  MaxObjects = 1
  MaxGlobals = 1
  MaxEdges = 0
  MaxFns = 0
  MaxActs = 1
  Acts = {}
INVARIANT EscapesReported
