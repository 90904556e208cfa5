SPECIFICATION FairSpec
CONSTANTS
  Number = {"1", "2"}
  Expressions <- MCExpressions
INVARIANTS
  ResultRight
PROPERTIES
  Printed
CHECK_DEADLOCK FALSE
