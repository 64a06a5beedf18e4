SPECIFICATION Spec
CONSTANTS
  MaxFrames = 3
  MaxLoops = 1
  MaxSilence = 0
  BreakFromLoop = FALSE
  BreakUnderFinally = FALSE
  ExitUnderCatch = TRUE
INVARIANT
  ExitStopsProgram
