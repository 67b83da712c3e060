SPECIFICATION Spec
CONSTANTS
  h1 = h1 h2 = h2
  l1 = l1 l2 = l2 w1 = w1
  Page = page Mutator = mutator Null = null
  Handles = {h1, h2}
  Locals = {l1, l2}
  Workers = {w1}
  Pages = {page}
  PageOf <- OnePage
  RingCapacity = 1
  PacketCapacity = 8
  OldBudget = 1
  MaxMoves = 1
  MaxFlushes = 1
  MaxOps = 2
  InitialHeaps <- Chains
  Cycles = {"young", "old", "full"}
  Excluded = {"arrayGrowth", "objectGrowth", "youngPaths"}
INVARIANTS MarkComplete PhasesDoNotOverlap
PROPERTIES ImplementsHeap
SYMMETRY Interchangeable
CHECK_DEADLOCK FALSE
