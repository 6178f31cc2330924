SPECIFICATION Spec
CONSTANTS
  Publishers = {t1}
  Subs = {o1}
  Capacity = 1
  MaxEvents = 2
INVARIANTS
  UnsubscribeIsFinal
