SPECIFICATION FairSpec
CONSTANTS
  Workers = {w1, w2}
  Clients = {c1}
  Closer = closer
  Packets = {p1, p2}
  Slots = {s1, s2}
  None = None
  Overlap = FALSE
INVARIANTS TypeOK QueuedSlotsAreOwned InflightCounts NoLostWakeup
PROPERTIES IdleMeansHandled AcceptedIsHandled WaitersReturn
CHECK_DEADLOCK FALSE
