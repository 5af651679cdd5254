SPECIFICATION FairSpec
CONSTANTS
  Interval = 2
  MaxLag = 1
  MaxRounds = 2
  ChanCap = 2
  RingCap = 2
  HasLogSource = FALSE
  Unarmed = Unarmed
PROPERTY AutoRefreshRecurs
CHECK_DEADLOCK FALSE
