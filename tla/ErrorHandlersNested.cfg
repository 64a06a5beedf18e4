SPECIFICATION Spec
CONSTANTS
  MaxRaised = 3
  MaxHandlers = 2
  Masks = {{"warning", "deprecated", "error"}, {"deprecated"}}
  Batch = 2
INVARIANT OwnDiagnosticsDefault
