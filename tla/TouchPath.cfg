SPECIFICATION PathSpec
CONSTANTS
  QueueCap = 2
  MaxTries = 2
  MaxPasses = 2
  MaxBatch = 2
  DrainLimit = 2
  MaxTouches = 2
  TouchIds = {0,1}
  Up = Up
  Other = Other
  NoEvent = NoEvent
  Positions = {p1}
  Builds = {{"interrupt", "irq_gpio", "pull_up", "latch"},
            {"interrupt", "irq_gpio", "latch"},
            {"pm", "pull_up"}}
INVARIANT PathTypeOK
INVARIANT PendingExplainsPanel
INVARIANT NoGhostWithoutPm
PROPERTY ImplementsFeed
CHECK_DEADLOCK FALSE
