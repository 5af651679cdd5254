\* A round against the global limit of ADR-0006.  A unit is 5 seconds: each layer
\* has the default timeout of one unit, the whole run six, a slow call takes two.
SPECIFICATION Spec
CONSTANTS
  cluster = cluster
  dpu = dpu
  workflows = workflows
  Order <- MCOrder
  Pods = {pod1, pod2, pod3}
  MayPanic = FALSE
  Timeout = 1
  CallTime = 2
  MaxElapsed = 8
  GlobalTimeout = 6
  NoLayer = NoLayer
  Pending = Pending
INVARIANT WithinGlobalTimeout
CHECK_DEADLOCK FALSE
