SPECIFICATION LibrarySpec
CONSTANTS
  Threads = {"t1", "t2", "t3"}
  MaxInits = 2
  kRangeSize = 4
  Ranges = 4
  Pointers = {"a", "b", "c"}
  MaxWaits = 4
  Getters = {"t1", "t2"}
  Keys = {"k1", "k2"}
  MaxSize = 1
  MaxPromises = 3
  MaxEnd = 4
  Size = 2
  MaxTime = 3
  Checkers = {"c1", "c2"}
  Testers = {"u1", "u2"}
  Regexes = {{"k1"}, {"k1", "k2"}}
  MaxFaults = 2
  Counts = {0, 2}
  Tracers = {"t1", "t2"}
  kBufferPoints = 2
  MaxPoints = 4
  MaxFd = 12
  Elsewhere = {3, 5}
  Targets = {0, 1, 4}
  MaxOptions = 3
  Objects = {"pipe.write", "other"}
  Capacity = 2
  IovMax = 2
  SendEnds <- SomeSendEnds
  RecvEnds <- SomeRecvEnds
  MaxInterrupts = 1
  Count = 2
  MaxThens = 2
  Processes = {p1, p2}
  Inodes = {i1, i2}
  Values = {v1, v2}
  None = None
  UnitRecords = 1
  MaxUnits = 2
  Contended = FALSE
INVARIANTS
  IDsUniqueNonzero
  LateCallersReuse
  FileSound
  ResultIndependentOfTiming
  PathsSound
  PathMapSound
  SpawnedAsConfigured
  DescriptorsSound
  LeasesSettle
  CoversOnlyCovered
  BucketsAreWindow
  DeletedByLastOwner
  TracepointsOnce
  InjectorSound
  WaitsSettle
PROPERTIES
  VectorPersists
CHECK_DEADLOCK FALSE
