SPECIFICATION Spec
CONSTANTS
  Clients = {c1, c2, c3, c4}
  MaxCbs = 3
  Usages = {{}, {"concurrent"}, {"lifo"}, {"concurrent", "one_shot"}}
  None = None
  Isr = Isr
INVARIANT TypeOK
INVARIANT SofSeesWholeTable
INVARIANT SlotsMatchHandles
INVARIANT SerialTableRefuses
PROPERTY FrameCallsHolders
CHECK_DEADLOCK FALSE
SYMMETRY ClientSymmetry
