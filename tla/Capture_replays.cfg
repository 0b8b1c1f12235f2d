SPECIFICATION Spec
CONSTANTS
  p1 = p1
  p2 = p2
  r1 = r1
  r2 = r2
  t1 = t1
  t2 = t2
  Request <- MCRequest
  Replay <- MCReplay
  Tunnel <- MCTunnel
  CaptureLimit = 1
  ReplayLimit = 1
  QueueCap = 2
  None = None
INVARIANTS
  SessionReplayLimit
CHECK_DEADLOCK FALSE
