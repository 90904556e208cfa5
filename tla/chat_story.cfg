SPECIFICATION Spec
CONSTANTS
  Conn = {c1, c2, c3}
  FdLimit = 8
  BufSegments = 2
  SendRoom = 2
  MaxMessages = 2
  MaxLeavers = 2
  Paced = FALSE
SYMMETRY Symmetry
INVARIANTS
  ListMatchesSockets
  BatchIsLive
  SameStory
PROPERTIES
  RefinesChatRoom
CHECK_DEADLOCK FALSE
