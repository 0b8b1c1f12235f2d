SPECIFICATION FairSpec
CONSTANTS
  k1 = k1
  c1 = c1
  c2 = c2
  c3 = c3
  s1 = s1
  s2 = s2
  v1 = v1
  None = None
  Client <- OneClient
  Conn <- ThreeConns
  Session <- TwoSessions
  Visitor <- OneVisitor
  Slots = 2
  WireCap = 2
INVARIANTS TokenHeld FramesWhole
PROPERTIES ReplacesOnlyLeft ClientServed
