SPECIFICATION Spec
CONSTANTS
  c1 = c1
  c2 = c2
  c3 = c3
  x1 = x1
  x2 = x2
  Conn <- MCConn
  Sub <- MCSub
  SourceIP <- MCSourceIP
  MaxTunnels = 2
  MaxPerIP = 2
  Lifetime = 3
  Grace = 1
  Retention = 1
  MaxTime = 3
  DBFaults = FALSE
  None = None
  NoToken = NoToken
  NoRow = NoRow
  Never = Never
PROPERTY PruneOnlyDisconnected
