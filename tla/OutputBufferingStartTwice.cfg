SPECIFICATION Spec
CONSTANTS
  MaxTexts = 1
  MaxStarts = 2
  MaxDiagnostics = 1
  ChunkSizes = {1, 2}
  Abilities = {{"clean", "flush", "remove"}}
  Throws = FALSE
  LockSurvived = FALSE
  LateChunks = TRUE
INVARIANT StartsOnce
