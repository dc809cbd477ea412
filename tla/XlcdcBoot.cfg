SPECIFICATION FairSpec
CONSTANTS
  CoreMin = 600
  CoreMax = 1200
  Xtal = 24
  FracUnit = 16
  MaxDiv = 16
  Layers = {"base", "heo", "ovr2"}
  Chosen = "base"
  NoAlloc = {"heo"}
  DisplayPriority = 85
  BridgePriorities = {79, 85}
  LayerPriorities = {80, 85, 86}
  PixelClocks = {5, 6, 25, 85, 86, 150, 171, 172}
  HeapSizes = {0, 1, 4}
  Boards = {{"touch", "loader_clock", "answers"},
            {"port", "double_buffer", "touch", "answers"},
            {"port", "ovr2", "double_buffer", "touch", "answers"},
            {"port", "ovr2", "answers"},
            {"port", "touch"}}
INVARIANT TypeOK
INVARIANT PllIsExact
INVARIANT PipelineStartsLast
INVARIANT UiHasScreen
PROPERTY BootSucceeds
CHECK_DEADLOCK FALSE
