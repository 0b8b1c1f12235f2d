SPECIFICATION Spec
CONSTANTS
  c1 = c1
  c2 = c2
  c3 = c3
  s1 = s1
  s2 = s2
  Client <- TwoClients
  Session <- MCSession
  SessionOf <- TwoSessions
  MaxEvents = 2
  WebsocketCap = 2
  RegisterCap = 1
  UnregisterCap = 1
  BroadcastCap = 2
  SendCap = 1
INVARIANTS
  NeverSentOnClosed
CHECK_DEADLOCK FALSE
