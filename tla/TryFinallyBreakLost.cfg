SPECIFICATION Spec
CONSTANTS
  MaxFrames = 4
  MaxLoops = 2
  MaxSilence = 0
  BreakFromLoop = FALSE
  BreakUnderFinally = TRUE
  ExitUnderCatch = FALSE
INVARIANT
  DispatchReadsOwnLevel
