SPECIFICATION MessagesSpec
CONSTANTS
  Loggers = {l1, l2}
  Sizes = {0, 1, 2}
  Limit = 3
  PipeCapacity = 2
  MaxMessages = 4
  kHeaderLength = 2
  kMaxFDs = 2
  maxDataLength = 2
  maxFiles = 3
  SizeModulus = 4
  WireCapacity = 3
  MaxSends = 2
  MaxReceives = 3
  MaxConnections = 2
  Kinds <- ModelKinds
INVARIANTS
  MessagesKept
  DeliveredAsSent
  AnsweredInOrder
PROPERTIES
  LoggerProgress
  ReceiveProgress
