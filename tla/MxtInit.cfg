SPECIFICATION FairSpec
CONSTANTS
  MaxObjects = 7
  MaxTouches = 10
  CfgTouches = 5
  Tables <- MCTables
  Standard <- MCStandard
  PollLimit = 2
  MaxMsgCount = 2
  DrainLimit = 2
  QueueCap = 2
  Addresses = {74, 75}
  DtAddr = 74
  Flips <- MCFlips
  Boards = {{"interrupt"},
            {"interrupt", "any_table"},
            {"interrupt", "warm_start", "other_addr", "faulty_bus"},
            {"reset_gpio", "warm_start", "faulty_bus"},
            {"slow_bus", "other_addr"},
            {"slow_bus", "frame_reused"},
            {"interrupt", "noise"},
            {"interrupt", "slow_reset"}}
INVARIANT TypeOK
INVARIANT CorruptBlockRejected
INVARIANT IdsMatchTable
INVARIANT ProbeIsSafeInTime
INVARIANT ConfigTakes
INVARIANT SavedPowerIsAwake
PROPERTY InitReturns
CHECK_DEADLOCK FALSE
