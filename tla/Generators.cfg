SPECIFICATION Spec
CONSTANTS
  MaxGens = 2
  MaxDepth = 1
  Constructs = {"try", "loop", "methods", "exits"}
INVARIANTS FramesOnce NothingInjectedLater OverMeansOver ShutdownReachesAll RewindLosesNothing
CHECK_DEADLOCK FALSE
