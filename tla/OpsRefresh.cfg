\* Four rounds, a deadline of two time units, a channel of two messages and
\* a ring of two entries: rounds overlap logs tasks, the ring evicts.
SPECIFICATION FairSpec
CONSTANTS
  Interval = 2
  MaxLag = 1
  MaxRounds = 4
  ChanCap = 2
  RingCap = 2
  HasLogSource = TRUE
  Unarmed = Unarmed
INVARIANTS TypeOK SingleFlight HistoryIsWindow
PROPERTIES RoundsInOrder PauseHoldsTimer RefreshCompletes AutoRefreshFires
CHECK_DEADLOCK FALSE
