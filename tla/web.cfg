SPECIFICATION FairSpec
CONSTANTS
  Conn = {c1, c2}
  Requests <- MCRequests
  NumThreads = 2
  SizeMax = 16
  MaxRequests = 2
INVARIANTS
  OneOperation
  DeathHasCause
PROPERTIES
  RefinesConversation
  Answered
CHECK_DEADLOCK FALSE
