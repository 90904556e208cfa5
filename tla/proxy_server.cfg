SPECIFICATION FairServerSpec
CONSTANTS
  Client = {c1, c2, c3}
  Stray = {f1}
  NoClient = none
INVARIANTS
  NoForgottenZombie
  OwnedByHandler
PROPERTIES
  Served
CHECK_DEADLOCK FALSE
