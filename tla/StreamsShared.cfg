SPECIFICATION Spec
CONSTANTS
  Handles = {"h1", "h2"}
  Paths = {"file"}
  Characters = {2, 3}
  MaxData = 1
  MaxLen = 2
  Exclusive = FALSE
PROPERTY AppendsLand
CHECK_DEADLOCK FALSE
