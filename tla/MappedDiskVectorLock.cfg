SPECIFICATION Spec
CONSTANTS
  Processes = {p1, p2}
  Inodes = {i1, i2, i3}
  Values = {v1}
  None = None
  UnitRecords = 1
  MaxUnits = 1
  Contended = TRUE
INVARIANTS
  ExclusiveOwner
