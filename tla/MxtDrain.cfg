SPECIFICATION FairSpec
CONSTANTS
  QueueCap = 4
  MaxTries = 3
  MaxPasses = 3
  MaxBatch = 3
  DrainLimit = 3
  Builds = {{"interrupt", "irq_gpio", "pull_up", "latch"},
            {"interrupt", "irq_gpio", "pull_up", "latch", "pm"},
            {"interrupt", "irq_gpio", "pull_up", "pm"},
            {"interrupt", "irq_gpio", "latch", "pm"},
            {"interrupt", "pull_up"},
            {"pm", "pull_up"},
            {"pull_up"}}
INVARIANT TypeOK
INVARIANT CountedMessagesArePresent
INVARIANT NoMessageStranded
INVARIANT OneShot
PROPERTY DrainReturns
PROPERTY MessagesServed
CHECK_DEADLOCK FALSE
