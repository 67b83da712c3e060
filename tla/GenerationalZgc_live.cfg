SPECIFICATION FairSpec
CONSTANTS
  h1 = h1 h2 = h2
  l1 = l1 w1 = w1
  Page = page Mutator = mutator Null = null
  Handles = {h1, h2}
  Locals = {l1}
  Workers = {w1}
  Pages = {page}
  PageOf <- OnePage
  RingCapacity = 1
  PacketCapacity = 8
  OldBudget = 1
  MaxMoves = 0
  MaxFlushes = 1
  MaxOps = 1
  InitialHeaps <- Chains
  Cycles = {"young", "old", "full"}
  Excluded = {"youngPaths"}
PROPERTIES FullReturns OldMarkEnds
CHECK_DEADLOCK FALSE
