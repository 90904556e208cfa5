SPECIFICATION Spec
CONSTANTS
  none = none
  short = short
  long = long
  Line = {none, short, long}
  Blank = none
  Cut <- MCCut
  MaxContacts = 2
INVARIANTS
  ReadsBack
  CutShort
  Settled
PROPERTIES
  DeletesAll
CHECK_DEADLOCK FALSE
