SPECIFICATION SharedSpec
CONSTANTS
  Publishers = {t1, t2}
  Subs = {o1, o2}
  Capacity = 1
  MaxEvents = 4
  Threads = {t1, t2}
  Pids = {p1, p2}
  Nodes = {o1, o2}
  None = None
  Expiry = 1
  MaxTime = 1
SYMMETRY Symmetry
INVARIANTS
  NoEventLost
  NoUseAfterFree
  NoLostWakeup
  SubscriptionsSound
  EventsInOrder
  NoStrandedRequest
  EveryReadPendingOnce
  OneReadPerPid
  GetAllMissesNothing
