SPECIFICATION Spec
CONSTANTS
  Callers = {t1}
  Layers = {"heo"}
  NoAlloc = {}
  AppBufs = {b1, b2}
  Alphas = {opaque, half}
  Sizes = {full, small}
  Origins = {corner, middle}
  InitOrigin = corner
  GlobalAlpha = opaque
  InitSize = full
  Null = Null
  Nobody = Nobody
  Isr = Isr
  Setups = {{"threads", "double_buffer", "writes_own", "timeouts", "keeps_pending"},
            {"threads", "double_buffer", "heo_display", "sip_covers_latch"}}
INVARIANT TypeOK
INVARIANT ActiveBufIsInDmaWithoutHeo
INVARIANT NoNullFetch
INVARIANT BackBufferIsHidden
PROPERTY LatchIsWhole
