SPECIFICATION CacheFairSpec
CONSTANTS
  Threads = {t1}
  Pids = {p1}
  Nodes = {n1}
  None = None
  Expiry = 1
  MaxTime = 0
PROPERTIES
  GetReturnsOrThrows
