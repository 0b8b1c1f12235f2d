SPECIFICATION FairSpec
CONSTANTS
  h1 = h1
  h2 = h2
  h3 = h3
  t1 = t1
  Handler <- MCHandler
  Replay <- MCReplay
  Tunnel = {t1}
  PerTunnel = 2
  MaxInFlight = 2
  WireCap = 1
  None = None
INVARIANTS
  SlotAccounting
  InFlightBounded
  ReaderNeverBlocks
  AnswerNotLost
PROPERTIES
  SentFinishes
  ClosedFinishes
CHECK_DEADLOCK FALSE
