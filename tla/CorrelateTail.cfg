\* Two sources, three events, timelines longer than FirstN + LastN, a channel of one.
SPECIFICATION FairSpec
CONSTANTS
  temporal = temporal
  k8s = k8s
  Order <- MCOrder
  Dialing = {temporal}
  FirstN = 1
  LastN = 1
  Cap = 1
  Ties = 2
  MaxEvents = 3
  MaxTime = 2
CONSTRAINT PlainUnlessAnswered
INVARIANTS TypeOK PrintedOnce EachSourceInOrder TroubleIsDumped ExitCodeMatchesDump
PROPERTY TailCatchesUp
CHECK_DEADLOCK FALSE
