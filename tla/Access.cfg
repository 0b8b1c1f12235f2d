SPECIFICATION Spec
CONSTANTS
  s1 = s1
  s2 = s2
  b1 = b1
  b2 = b2
  o1 = o1
  o2 = o2
  None = None
  Session <- TwoSessions
  MaxReg = 3
  Browser <- TwoBrowsers
  Operator <- TwoOperators
SYMMETRY Same
INVARIANTS LinkLetsOneIn RevokedShut PauseKept
PROPERTIES CookieFitsRow
CHECK_DEADLOCK FALSE
