SPECIFICATION FairSpec
CONSTANTS
  Word = {"POST", "example.com", "www", "abc", "Referer", "Origin", "Cookie", "X-Forwarded-", "else.where"}
  Number = {"8080"}
  Requests <- MCRequests
  SendRoom = 2
  MaxChunks = 3
INVARIANTS
  InOrder
  Complete
  TargetRight
  HeaderRewritten
PROPERTIES
  Ends
CHECK_DEADLOCK FALSE
