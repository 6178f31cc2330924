SPECIFICATION FairSpec
CONSTANTS
  MaxAtOnce = 2
  MaxSends = 3
INVARIANTS
  SendsAnsweredOnce
  QuietWhenDone
PROPERTIES
  SocketProgress
