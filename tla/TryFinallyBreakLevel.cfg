SPECIFICATION Spec
CONSTANTS
  MaxFrames = 3
  MaxLoops = 2
  MaxSilence = 0
  BreakFromLoop = TRUE
  BreakUnderFinally = FALSE
  ExitUnderCatch = FALSE
INVARIANT
  SignalNamesALoop
