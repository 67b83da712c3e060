SPECIFICATION WaitersSpec
CONSTANTS
  None = None
  a1 = a1 a2 = a2
  Agents = {a1, a2}
  SyncAgents = {a1, a2}
  AsyncAgents = {a1}
  MaxSessions = 1
  Handles = {1}
  Limits = {1}
INVARIANTS NotifiedIsAnswered
CHECK_DEADLOCK FALSE
