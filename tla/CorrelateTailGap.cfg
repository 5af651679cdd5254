\* Does the tail begin where the dump ended?  No two events share a timestamp.
SPECIFICATION Spec
CONSTANTS
  temporal = temporal
  k8s = k8s
  Order <- MCOrder
  Dialing = {temporal}
  FirstN = 1
  LastN = 1
  Cap = 1
  Ties = 1
  MaxEvents = 2
  MaxTime = 2
PROPERTY TailStartsWhereDumpEnded
CHECK_DEADLOCK FALSE
