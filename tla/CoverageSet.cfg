SPECIFICATION Spec
CONSTANTS
  MaxEnd = 5
INVARIANTS
  CoversAllCovered
CHECK_DEADLOCK FALSE
