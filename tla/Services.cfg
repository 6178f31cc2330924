SPECIFICATION ServicesSpec
CONSTANTS
  Capacity = 2
  BufSize = 2
  Input <- FiveChunks
  Noise = 3
  MaxInterrupts = 1
INVARIANTS
  WaitedTruthfully
  CommunicateComplete
PROPERTIES
  BusProgress
  CacheProgress
  ChecksReturn
  CallsReturn
  CommunicateReturns
CHECK_DEADLOCK FALSE
