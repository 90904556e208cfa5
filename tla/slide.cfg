SPECIFICATION RunFairSpec
CONSTANTS
  n = 5
  Tile = {2, 4, 8}
INVARIANTS
  NeverMeets
  GapEmpty
  FollowsRule
PROPERTIES
  Terminates
CHECK_DEADLOCK FALSE
