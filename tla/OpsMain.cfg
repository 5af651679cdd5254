SPECIFICATION Spec
CONSTANTS
  Stem <- MCStem
  LayerNames <- MCLayerNames
  Baseline <- MCBaseline
  PulseTicks = 1
  ToastTicks = 1
  Frames = 2
  RingCap = 1
  ScrollMax = 2
  DrillRows = 2
  Crumbs = 1
  SparkMax = 2
  Height = 40
  Sessions <- MCSessions
  Widths = {50, 120}
  HbnAnswers <- MCHbnAnswers
  HbnKeys = {"r", "s", "q", "ctrl-c"}
  MaxFetches = 4
INVARIANTS
  IndicesInRange
  ScreenIsCurrent
  EscUnwinds
  TerminalRestored
  RowsSorted
PROPERTIES
  DrillTargetsHighlight
  PanelImplementsRounds
CHECK_DEADLOCK FALSE
