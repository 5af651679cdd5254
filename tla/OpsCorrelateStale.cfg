SPECIFICATION Spec
CONSTANTS
  dpu = dpu
  host = host
  Entities = {dpu, host}
  Sources = {temporal, loki}
  Panels = {"Detail"}
  LogLines <- MCLogLines
  MaxRuns = 2
  ChanCap = 2
  StreamCap = 1
  StderrTty = TRUE
  Config = config
  NoEntity = NoEntity
  NoRun = NoRun
  NoPopup = NoPopup
  NoChooser = NoChooser
INVARIANT PopupShowsItsOwnRun
CHECK_DEADLOCK FALSE
