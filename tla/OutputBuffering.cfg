SPECIFICATION Spec
CONSTANTS
  MaxTexts = 2
  MaxStarts = 3
  MaxDiagnostics = 1
  ChunkSizes = {0, 1}
  Abilities = {{"clean", "flush", "remove"}}
  Throws = TRUE
  LockSurvived = FALSE
  LateChunks = FALSE
INVARIANTS EveryTextSomewhere HandlerOutlivesItsRun NotReentered DeactivatedForGood
PROPERTY ImplementsStream
