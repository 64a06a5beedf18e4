SPECIFICATION Spec
CONSTANTS
  MaxFrames = 4
  MaxLoops = 2
  MaxSilence = 1
  BreakFromLoop = FALSE
  BreakUnderFinally = FALSE
  ExitUnderCatch = FALSE
INVARIANTS
  TypeOK
  ExitStopsProgram
  RunsClean
  OneReason
  SilenceHolds
PROPERTIES
  ImplementsLanguage
  ExitEndsRequest
