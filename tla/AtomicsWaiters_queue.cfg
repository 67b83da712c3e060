SPECIFICATION WaitersSpec
CONSTANTS
  None = None
  a1 = a1 a2 = a2
  Agents = {a1, a2}
  SyncAgents = {a1, a2}
  AsyncAgents = {a1, a2}
  MaxSessions = 2
  Handles = {1, 2}
  Limits = {0, 1, 9}
INVARIANTS ListedIsTended
PROPERTIES ServesInOrder NotifiedReturns
CHECK_DEADLOCK FALSE
