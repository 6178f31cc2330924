SPECIFICATION Spec
CONSTANTS
  Threads = {t1, t2}
  MaxInits = 2
PROPERTIES
  InitOnlyWhenNeeded
CHECK_DEADLOCK FALSE
