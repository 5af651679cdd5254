\* Three layers that may answer, hang or panic, after at most two pod-log calls.
SPECIFICATION FairSpec
CONSTANTS
  cluster = cluster
  dpu = dpu
  workflows = workflows
  Order <- MCOrder
  Pods = {pod1, pod2}
  MayPanic = TRUE
  Timeout = 2
  CallTime = 1
  MaxElapsed = 8
  GlobalTimeout = 4
  NoLayer = NoLayer
  Pending = Pending
INVARIANTS ResultsConserved CacheTellsPodsApart SnapshotsInLayerOrder FanOutWithinOneTimeout
PROPERTY CollectReturns
CHECK_DEADLOCK FALSE
