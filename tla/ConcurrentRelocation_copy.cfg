SPECIFICATION FairSpec
CONSTANTS
  None = None Mutator = mutator
  w1 = w1 w2 = w2
  Workers = {w1, w2}
  Size = 2
  MaxAddress = 3
  MaxOps = 2
INVARIANTS StoresSurvive NoPartialObject NobodySleeps QuarantinedIsAbandoned
PROPERTIES RelocationEnds
CHECK_DEADLOCK FALSE
