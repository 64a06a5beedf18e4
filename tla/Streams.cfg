SPECIFICATION Spec
CONSTANTS
  Handles = {"h"}
  Paths = {"file"}
  Characters = {1, 2}
  MaxData = 2
  MaxLen = 3
  Exclusive = TRUE
INVARIANTS TypeOK DiskIsBuffer
PROPERTIES ImplementsFiles EofMeansAllRead
CHECK_DEADLOCK FALSE
