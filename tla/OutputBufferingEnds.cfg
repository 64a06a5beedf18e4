SPECIFICATION Spec
CONSTANTS
  MaxTexts = 1
  MaxStarts = 2
  MaxDiagnostics = 1
  ChunkSizes = {0}
  Abilities = {{"clean"}, {"clean", "flush", "remove"}}
  Throws = TRUE
  LockSurvived = TRUE
  LateChunks = FALSE
PROPERTY EndAllEnds
