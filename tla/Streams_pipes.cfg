SPECIFICATION StreamsSpec
CONSTANTS
  MaxPromises = 11
  MaxCalls = 5
  MaxReaders = 2
  Value = Value
  Throw = Throw
  Thenable = Thenable
  Nothing = Nothing
  Programs <- Workloads
INVARIANTS ChunksInOrder WaitersAreServed PipeIsFaithful
PROPERTY PipeEnds
CHECK_DEADLOCK FALSE
