SPECIFICATION Spec
CONSTANTS
  MaxAtOnce = 1
  MaxSends = 1
INVARIANTS
  SuccessIsConnected
