SPECIFICATION FairSpec
CONSTANTS
  c1 = c1
  c2 = c2
  c3 = c3
  x1 = x1
  x2 = x2
  Conn = {c1, c2}
  Sub <- MCSub
  SourceIP <- MCOneIP
  MaxTunnels = 2
  MaxPerIP = 2
  Lifetime = 2
  Grace = 1
  Retention = 1
  MaxTime = 2
  DBFaults = TRUE
  None = None
  NoToken = NoToken
  NoRow = NoRow
  Never = Never
PROPERTIES
  RevokedGoes
  ExpiredGoes
