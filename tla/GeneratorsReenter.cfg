\* What throw() on a generator that is already running leaves stored in it.
SPECIFICATION Spec
CONSTANTS
  MaxGens = 1
  MaxDepth = 1
  Constructs = {"try", "methods", "reenter"}
INVARIANT NothingInjectedLater
CHECK_DEADLOCK FALSE
