SPECIFICATION Spec
CONSTANTS
  MaxTexts = 1
  MaxStarts = 1
  MaxDiagnostics = 0
  ChunkSizes = {0}
  Abilities = {{"clean", "flush", "remove"}}
  Throws = TRUE
  LockSurvived = FALSE
  LateChunks = FALSE
INVARIANT FailureHandsDown
