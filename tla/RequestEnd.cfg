SPECIFICATION Spec
CONSTANTS
  MaxLeft = 2
  MaxObjects = 2
  MaxGlobals = 2
  MaxEdges = 2
  MaxFns = 2
  MaxActs = 2
  Acts = {"new", "store"}
INVARIANTS
  DestructedOnce FreesOnlyGarbage SweepReachesAll NoDestructorAfterFatal LastExitWins
PROPERTY RequestEnds
