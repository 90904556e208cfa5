SPECIFICATION Spec
CONSTANTS
  n = 2
  MaxRematch = 8
INVARIANTS
  ScoreAccounts
  GameOverRight
PROPERTIES
  SumGrows
CHECK_DEADLOCK FALSE
