SPECIFICATION FairSpec
CONSTANTS
  c1 = c1
  c2 = c2
  c3 = c3
  s1 = s1
  s2 = s2
  Client <- MCClient
  Session <- MCSession
  SessionOf <- MCSessionOf
  MaxEvents = 2
  WebsocketCap = 2
  RegisterCap = 1
  UnregisterCap = 1
  BroadcastCap = 1
  SendCap = 1
INVARIANTS
  InOrder
  OpenWhileServed
  NeverClosedTwice
PROPERTIES
  BroadcastDrains
  LeaverGoes
CHECK_DEADLOCK FALSE
