SPECIFICATION FairSpec
CONSTANTS
  p1 = p1
  p2 = p2
  r1 = r1
  r2 = r2
  t1 = t1
  t2 = t2
  Request <- MCRequest
  Replay <- OneReplay
  Tunnel <- MCTunnel
  CaptureLimit = 1
  ReplayLimit = 1
  QueueCap = 1
  None = None
INVARIANTS
  SessionCaptureLimit
  NoOrphans
  KeptUntilShutdown
PROPERTIES
  QueueDrains
  OldSessionGoes
CHECK_DEADLOCK FALSE
