SPECIFICATION Spec
CONSTANTS
  Callers = {t1}
  Layers = {"ovr1", "heo"}
  NoAlloc = {}
  AppBufs = {b1}
  Alphas = {opaque, half}
  Sizes = {full}
  Origins = {corner}
  InitOrigin = corner
  GlobalAlpha = opaque
  InitSize = full
  Null = Null
  Nobody = Nobody
  Isr = Isr
  Setups = {{"threads", "double_buffer", "vsync_swaps", "sip_covers_latch"}}
INVARIANT IsrNeverWaits
