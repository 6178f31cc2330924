SPECIFICATION Spec
CONSTANTS
  Scopes = {s1, s2, s3}
  NoWatch = NoWatch
  MaxWatches = 4
INVARIANTS
  FrontIsLongest
CHECK_DEADLOCK FALSE
