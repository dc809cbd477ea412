SPECIFICATION FairSpec
CONSTANTS
  Callers = {t1, t2}
  Layers = {"base", "ovr1"}
  NoAlloc = {"base"}
  AppBufs = {}
  Alphas = {opaque}
  Sizes = {full}
  Origins = {corner}
  InitOrigin = corner
  GlobalAlpha = opaque
  InitSize = full
  Null = Null
  Nobody = Nobody
  Isr = Isr
  Setups = {{"threads"},
            {"threads", "timeouts", "keeps_pending"},
            {"vsync_swaps", "double_buffer", "timeouts", "keeps_pending"}}
INVARIANT NothingUncommitted
PROPERTY CallsReturn
