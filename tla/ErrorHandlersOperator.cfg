SPECIFICATION Spec
CONSTANTS
  MaxRaised = 2
  MaxHandlers = 1
  Masks = {{"warning", "deprecated", "error"}}
  Batch = 1
INVARIANT NothingOutlivesAThrow
