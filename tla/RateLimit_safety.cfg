SPECIFICATION Spec
CONSTANTS
  a1 = a1
  a2 = a2
  a3 = a3
  Addr <- MCAddr
  GlobalLimit = 4
  IPLimit = 2
  MapCap = 1
  Minute = 2
  MaxTime = 5
  MaxCalls = 9
  NoWindow = NoWindow
SYMMETRY Symmetry
INVARIANTS
  SlidingLimit
  MapBounded
  QuietMinuteHeals
CHECK_DEADLOCK FALSE
