\* Two popups, of the same or of different entities, over two Sources; every
\* channel is one update long, so each sender waits.
SPECIFICATION FairSpec
CONSTANTS
  dpu = dpu
  host = host
  Entities = {dpu, host}
  Sources = {temporal, loki}
  Panels = {}
  LogLines <- MCLogLines
  MaxRuns = 2
  ChanCap = 1
  StreamCap = 1
  StderrTty = TRUE
  Config = config
  NoEntity = NoEntity
  NoRun = NoRun
  NoPopup = NoPopup
  NoChooser = NoChooser
CONSTRAINT FirstOnDpu
INVARIANTS TypeOK OverlayOwnsState NoOrphanRun PopupOnlyItsEntity DoneIsComplete
PROPERTIES DotsSettle PopupFinishes CancelledRunsStop
CHECK_DEADLOCK FALSE
