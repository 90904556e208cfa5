SPECIFICATION CalendarSpec
CONSTANTS
  FirstYear = 1900
  LastYear = 2299
INVARIANTS
  Follows
  WholeYear
CHECK_DEADLOCK FALSE
