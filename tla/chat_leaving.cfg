SPECIFICATION Spec
CONSTANTS
  Conn = {c1, c2}
  FdLimit = 7
  BufSegments = 2
  SendRoom = 3
  MaxMessages = 2
  MaxLeavers = 2
  Paced = FALSE
INVARIANTS
  LeavingIsHarmless
CHECK_DEADLOCK FALSE
