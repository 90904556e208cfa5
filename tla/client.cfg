SPECIFICATION FairSpec
CONSTANTS
  BufSegments = 2
  SendRoom = 1
  MaxTyped = 3
  MaxLines = 3
INVARIANTS
  BatchIsLive
  SentInOrder
  ShownInOrder
PROPERTIES
  EndNoticed
  LineShown
CHECK_DEADLOCK FALSE
