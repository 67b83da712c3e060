SPECIFICATION Spec
CONSTANTS
  None = None
  main = main w1 = w1
  Main = main
  Workers = {w1}
  Agents = {main, w1}
  SyncAgents = {w1}
  AsyncAgents = {main}
  TimerAgents = {w1}
  MaxMessages = 1
  MaxSessions = 1
  Handles = {1}
  Limits = {1}
INVARIANTS HearsThemOut
PROPERTIES TerminatedEnds MainEnds ExpiryIsPolled
CHECK_DEADLOCK FALSE
