SPECIFICATION Spec
CONSTANTS
  Callers = {t1}
  Layers = {"heo"}
  NoAlloc = {}
  AppBufs = {b1}
  Alphas = {opaque, half}
  Sizes = {full}
  Origins = {corner}
  InitOrigin = corner
  GlobalAlpha = opaque
  InitSize = full
  Null = Null
  Nobody = Nobody
  Isr = Isr
  Setups = {{"threads", "heo_display", "sip_covers_latch"}}
INVARIANT ActiveBufIsInDma
