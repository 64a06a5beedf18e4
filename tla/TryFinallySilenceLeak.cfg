SPECIFICATION Spec
CONSTANTS
  MaxFrames = 3
  MaxLoops = 0
  MaxSilence = 1
  BreakFromLoop = FALSE
  BreakUnderFinally = FALSE
  ExitUnderCatch = FALSE
INVARIANT
  SilenceEnds
