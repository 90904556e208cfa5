SPECIFICATION FairSpec
CONSTANTS
  Conn = {c1, c2, c3}
  FdLimit = 7
  BufSegments = 2
  SendRoom = 2
  MaxMessages = 1
  MaxLeavers = 3
  Paced = TRUE
INVARIANTS
  ExitHasCause
PROPERTIES
  EveryoneWelcomed
  MessageAnswered
  LeaversRemoved
CHECK_DEADLOCK FALSE
