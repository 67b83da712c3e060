SPECIFICATION FairSpec
CONSTANTS
  MaxPromises = 5
  MaxCalls = 5
  MaxLateness = 1
  Resources = {r1, r2}
  Workloads = {{"new", "resolve", "reject", "then", "finally"}, {"new", "reject", "then", "async", "load", "tick"}, {"timer", "immediate", "clear", "tick", "microtask", "external", "exit"}, {"next", "return", "throw", "new", "resolve"}, {"new", "fulfil", "reject", "combine", "microtask"}}
  Value = value Throw = throw Thenable = thenable NoRequest = none
INVARIANTS HeardIsNotReported NothingLeftBehind BodyIsAtOnePlace CombinatorsAnswer
PROPERTIES ReactionsRunInOrder ReportsAreFinal RequestsInOrder LoopServesAll
CHECK_DEADLOCK FALSE
