SPECIFICATION FairSpec
CONSTANTS
  NONE = NONE
  p1 = p1
  p2 = p2
  Peers = {p1, p2}
  Handles = {h1, h2}
  MaxBatches = 1
  MaxInbound = 1
  Limits <- MCLimits
INVARIANTS NothingStaysHeld WrittenToPeer 
PROPERTIES PresenceReturns
CHECK_DEADLOCK FALSE
