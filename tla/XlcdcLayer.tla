----------------------------- MODULE XlcdcLayer -----------------------------
(***************************************************************************)
(* The display layers of the XLCDC and the registers they share: what each *)
(* call of the layer driver writes, what it remembers, and how             *)
(* xlcdc_parent_commit_attrs hands the written registers to the hardware   *)
(* (microchip_sam_xlcdc.c:100-143, microchip_sam_xlcdc_layer.c:291-1186).  *)
(*                                                                         *)
(* A call is the list of its effects in program order, one step each.  The *)
(* display API leaves it to its users not to call a layer from two places  *)
(* at once; calls on different layers interleave.  Of a layer's registers  *)
(* the model keeps the frame buffer address, the DMA switch, the global    *)
(* alpha and the window's size and position; scaler, color mode and cache  *)
(* maintenance are left out.                                               *)
(***************************************************************************)
EXTENDS Naturals, Sequences, FiniteSets, TLC

CONSTANTS
  Layers,          \* of "base", "ovr1", "heo", "ovr2"
  Callers,         \* threads that use the layers
  NoAlloc,         \* layers with no_alloc_fb
  AppBufs,         \* frame buffers of the application (LVGL's)
  Alphas, GlobalAlpha,  \* alpha values, cfg->global_alpha
  Sizes, InitSize,      \* window sizes, that of the devicetree
  Origins, InitOrigin,  \* window positions, that of the devicetree
  Null,            \* address 0 / no buffer
  Nobody, Isr,     \* no caller; the interrupt handler as a caller
  Setups           \* the builds, users and hardware to consider

\* What a setup can have; the operators below name each.
Options == {"threads", "double_buffer", "writes_own", "heo_display",
            "vsync_swaps", "timeouts", "keeps_pending", "sip_covers_latch"}

ASSUME LayerAssumption ==
  /\ Layers \subseteq {"base", "ovr1", "heo", "ovr2"}
  /\ NoAlloc \subseteq Layers
  /\ Null \notin AppBufs \cup Layers
  /\ \A l \in Layers, i \in 0..1 : <<l, i>> \notin AppBufs \cup {Null}
  /\ GlobalAlpha \in Alphas
  /\ InitSize \in Sizes
  /\ InitOrigin \in Origins
  /\ Isr \notin Callers
  /\ Nobody \notin Callers \cup {Isr}
  /\ Setups \subseteq SUBSET Options

VARIABLES
  setup,       \* the options of this system; never changes
  drv,         \* struct xlcdc_layer_data of every layer
  reg,         \* the layer registers as last written
  live,        \* what the layer scans out: the registers it last took over
  attre,       \* LCDC_ATTRE: layers whose registers wait to be taken over
  attre_lock,  \* the caller that owns data->attre_lock, or Nobody
  backlight,   \* PWMSTS
  job,         \* per caller: the layer and the rest of its call
  stage,       \* per caller: where it is in xlcdc_parent_commit_attrs
  committed    \* history: a layer's registers when it was last committed

hwVars  == <<reg, live, attre, backlight>>
jobVars == <<job, stage>>
vars == <<setup, drv, hwVars, attre_lock, jobVars, committed>>

ThreadsCall    == "threads" \in setup        \* threads use the layers
DoubleBuffer   == "double_buffer" \in setup  \* CONFIG_..._DOUBLE_BUFFER
WritesOwn      == "writes_own" \in setup     \* .. the driver's back buffer
HeoDisplays    == "heo_display" \in setup    \* .. the HEO surface calls
VsyncSwaps     == "vsync_swaps" \in setup    \* a VSYNC callback swaps buffers
Timeouts       == "timeouts" \in setup       \* the hardware may be slow
KeepsPending   == "keeps_pending" \in setup  \* ATTRE: writing 0 clears nothing
SipCoversLatch == "sip_covers_latch" \in setup  \* SIP is set until the latch

Everyone == Callers \cup {Isr}
NoJob == [layer |-> Null, todo |-> <<>>]

Idle(l) == \A c \in Everyone : job[c].layer # l

\* data->fb[i].
Fb(l, i) == IF l \in NoAlloc \/ (i = 1 /\ ~DoubleBuffer) THEN Null
                                                         ELSE <<l, i>>
Front(l) == Fb(l, drv[l].front_idx)

\* xlcdc_layer_get_framebuffer, which changes nothing.
GetFramebuffer(l) ==
  IF Fb(l, 0) = Null /\ drv[l].active_buf # Null
    THEN drv[l].active_buf
    ELSE IF DoubleBuffer THEN Fb(l, 1 - drv[l].front_idx) ELSE Fb(l, 0)

Writable(l) == AppBufs \cup IF WritesOwn THEN {GetFramebuffer(l)} \ {Null}
                                         ELSE {}

\* What xlcdc_layer_setup_base, _ovr1, _heo and _ovr2 leave in the registers.
SetupRegisters == [fba |-> Null, dma |-> FALSE, alpha |-> GlobalAlpha,
                   win |-> InitSize, origin |-> InitOrigin]

\* After the init functions; unless their commits waited for it, the last ones
\* may not have been taken over.
Init ==
  /\ setup \in Setups
  /\ drv = [l \in Layers |-> [front_idx |-> 0, active_buf |-> Null,
                              dma_enabled |-> FALSE, alpha |-> GlobalAlpha,
                              win |-> InitSize]]
  /\ reg = [l \in Layers |-> SetupRegisters]
  /\ live = reg
  /\ committed = reg
  /\ attre \in IF SipCoversLatch THEN {{}} ELSE SUBSET Layers
  /\ attre_lock = Nobody
  /\ backlight = FALSE
  /\ job = [c \in Everyone |-> NoJob]
  /\ stage = [c \in Everyone |-> "outside"]

(***************************************************************************)
(* The effects a call is made of.                                          *)
(***************************************************************************)
Reg(fields)  == [op |-> "reg", set |-> fields]    \* a register write
Data(fields) == [op |-> "data", set |-> fields]   \* an update of drv
Draw(buf)    == [op |-> "draw", buf |-> buf]      \* memcpy into buf
Pwm(on)      == [op |-> "pwm", on |-> on]         \* backlight_enable/..
Commit       == [op |-> "commit"]

\* The record after an effect; the other fields keep their values.
Updated(record, fields) ==
  [f \in DOMAIN record |-> IF f \in DOMAIN fields THEN fields[f] ELSE record[f]]

\* xlcdc_layer_set_dma writes the configured alpha along with the DMA bit; the
\* base layer's register has no alpha.
SetDma(l, on) ==
  Reg(IF l = "base" THEN [dma |-> on] ELSE [dma |-> on, alpha |-> GlobalAlpha])

(***************************************************************************)
(* The calls.                                                              *)
(***************************************************************************)
Call(c, l, effects) ==
  /\ Idle(l) /\ job[c] = NoJob
  /\ job' = [job EXCEPT ![c] = [layer |-> l, todo |-> effects]]
  /\ UNCHANGED <<setup, drv, hwVars, attre_lock, stage, committed>>

\* Broken on purpose: the DMA is switched on before it has an address.
ShowDmaFirst(l) ==
  <<SetDma(l, TRUE), Commit, Data([dma_enabled |-> TRUE])>>
  \o IF Front(l) # Null
       THEN <<Reg([fba |-> Front(l)]), Data([active_buf |-> Front(l)]), Commit>>
       ELSE <<>>

\* xlcdc_layer_enable(dev, true) and the part blanking_off shares with it.
Show(l) == (IF Front(l) # Null
              THEN <<Reg([fba |-> Front(l)]), Data([active_buf |-> Front(l)])>>
              ELSE <<>>)
           \o <<SetDma(l, TRUE), Commit, Data([dma_enabled |-> TRUE])>>

Hide(l) == <<SetDma(l, FALSE), Commit, Data([dma_enabled |-> FALSE])>>

\* The backlight goes with the base layer.
AndLight(l, effects, on) ==
  IF l = "base" THEN Append(effects, Pwm(on)) ELSE effects

BlankingOff(c, l) == Call(c, l, AndLight(l, Show(l), TRUE))
BlankingOn(c, l)  == Call(c, l, AndLight(l, Hide(l), FALSE))
Enable(c, l, on)  == Call(c, l, IF on THEN Show(l) ELSE Hide(l))

\* xlcdc_layer_write of the whole window: a pointer swap, if buf is another one.
WriteFull(c, l, buf) ==
  /\ buf # drv[l].active_buf
  /\ Call(c, l, <<Reg([fba |-> buf]), Commit, Data([active_buf |-> buf])>>)

\* xlcdc_layer_write of a part of it.
WritePartial(c, l, frame_incomplete) ==
  /\ l \notin NoAlloc                       \* else -ENOTSUP
  /\ Call(c, l,
       IF Front(l) # drv[l].active_buf /\ ~frame_incomplete
         THEN <<Draw(Front(l)), Reg([fba |-> Front(l)]), Commit,
                Data([active_buf |-> Front(l)])>>
         ELSE <<Draw(Front(l))>>)

\* What xlcdc_layer_swap_buffers does once it has chosen the index.
Flip(l, index, buf) ==
  <<Data([front_idx |-> index]), Reg([fba |-> buf]), Commit,
    Data([active_buf |-> buf])>>

\* Broken on purpose: active_buf is kept; the old front buffer is programmed;
\* the index does not wrap.
SwapUntracked(c, l) ==
  /\ DoubleBuffer
  /\ LET next == 1 - drv[l].front_idx
     IN Call(c, l, SubSeq(Flip(l, next, Fb(l, next)), 1, 3))
SwapShowsOld(c, l) ==
  /\ DoubleBuffer
  /\ Call(c, l, Flip(l, 1 - drv[l].front_idx, Front(l)))
SwapNoWrap(c, l) ==
  /\ DoubleBuffer
  /\ LET next == drv[l].front_idx + 1 IN Call(c, l, Flip(l, next, Fb(l, next)))

SwapBuffers(c, l) ==
  /\ DoubleBuffer                           \* else -ENOTSUP
  /\ LET next == 1 - drv[l].front_idx IN Call(c, l, Flip(l, next, Fb(l, next)))

SetAlpha(c, l, alpha) ==
  /\ l # "base"                             \* else -ENOTSUP
  /\ Call(c, l, <<Data([alpha |-> alpha]),
                  Reg([dma |-> drv[l].dma_enabled, alpha |-> alpha]), Commit>>)

SetWindowSize(c, l, size) ==
  /\ l # "base"                             \* else -ENOTSUP
  /\ Call(c, l, <<Reg([win |-> size]), Data([win |-> size]), Commit>>)

\* The driver does not remember where it put the window.
SetPosition(c, l, origin) ==
  /\ l # "base"                             \* else -ENOTSUP
  /\ Call(c, l, <<Reg([origin |-> origin]), Commit>>)

\* xlcdc_layer_heo_display_rgb and _yuv, as far as this model sees them.
HeoDisplay(c, l, buf, size) ==
  /\ HeoDisplays
  /\ l = "heo"                              \* else -ENOTSUP
  /\ Call(c, l, <<Reg([win |-> size]), Reg([fba |-> buf]),
                  Reg([dma |-> TRUE, alpha |-> drv[l].alpha]),
                  Data([win |-> size, dma_enabled |-> TRUE]), Commit>>)

\* A start-of-frame interrupt whose callback swaps the layer's buffers.
VsyncCallback(l) == VsyncSwaps /\ SwapBuffers(Isr, l)

(***************************************************************************)
(* Running a call.  A thread does not run while the interrupt handler does.*)
(***************************************************************************)
Running(c) == c = Isr \/ job[Isr] = NoJob

Next1(c) == Head(job[c].todo)
Doing(c, op) == Running(c) /\ job[c].todo # <<>> /\ Next1(c).op = op

\* The call goes on with its next effect, or returns.
Done(c) ==
  job' = [job EXCEPT ![c] =
            IF Len(@.todo) = 1 THEN NoJob
                               ELSE [layer |-> @.layer, todo |-> Tail(@.todo)]]

RegStep(c) ==
  /\ Doing(c, "reg")
  /\ reg' = [reg EXCEPT ![job[c].layer] = Updated(@, Next1(c).set)]
  /\ Done(c)
  /\ UNCHANGED <<setup, drv, live, attre, backlight, attre_lock, stage,
                 committed>>

DataStep(c) ==
  /\ Doing(c, "data")
  /\ drv' = [drv EXCEPT ![job[c].layer] = Updated(@, Next1(c).set)]
  /\ Done(c)
  /\ UNCHANGED <<setup, hwVars, attre_lock, stage, committed>>

DrawStep(c) ==
  /\ Doing(c, "draw")
  /\ Done(c)
  /\ UNCHANGED <<setup, drv, hwVars, attre_lock, stage, committed>>

\* backlight_enable/_disable wait without bound for the PWM status to follow.
PwmStep(c) ==
  /\ Doing(c, "pwm")
  /\ backlight' = Next1(c).on
  /\ Done(c)
  /\ UNCHANGED <<setup, drv, reg, live, attre, attre_lock, stage, committed>>

\* xlcdc_parent_commit_attrs: lock, wait for ATTRE to be clear, write it, wait
\* for SIP, unlock.
\* Broken on purpose: the mutex is not taken.
CommitNoLock(c) ==
  /\ Doing(c, "commit") /\ stage[c] = "outside"
  /\ stage' = [stage EXCEPT ![c] = "busy"]
  /\ UNCHANGED <<setup, drv, hwVars, attre_lock, job, committed>>

CommitLock(c) ==
  /\ Doing(c, "commit") /\ stage[c] = "outside"
  /\ attre_lock = Nobody
  /\ attre_lock' = c
  /\ stage' = [stage EXCEPT ![c] = "busy"]
  /\ UNCHANGED <<setup, drv, hwVars, job, committed>>

\* Broken on purpose: the wait for ATTRE has no timeout.
CommitWaitNoTimeout(c) ==
  /\ Doing(c, "commit") /\ stage[c] = "busy"
  /\ attre = {}
  /\ stage' = [stage EXCEPT ![c] = "clear"]
  /\ UNCHANGED <<setup, drv, hwVars, attre_lock, job, committed>>

CommitWait(c) ==
  /\ Doing(c, "commit") /\ stage[c] = "busy"
  /\ attre = {} \/ Timeouts
  /\ stage' = [stage EXCEPT ![c] = "clear"]
  /\ UNCHANGED <<setup, drv, hwVars, attre_lock, job, committed>>

CommitWrite(c) ==
  /\ Doing(c, "commit") /\ stage[c] = "clear"
  /\ LET l == job[c].layer
     IN /\ attre' = {l} \cup IF KeepsPending THEN attre ELSE {}
        /\ committed' = [committed EXCEPT ![l] = reg[l]]
  /\ stage' = [stage EXCEPT ![c] = "sip"]
  /\ UNCHANGED <<setup, drv, reg, live, backlight, attre_lock, job>>

\* Broken on purpose: SIP is not waited for.
CommitNoSip(c) ==
  /\ Doing(c, "commit") /\ stage[c] = "sip"
  /\ attre_lock' = Nobody
  /\ stage' = [stage EXCEPT ![c] = "outside"]
  /\ Done(c)
  /\ UNCHANGED <<setup, drv, hwVars, committed>>

CommitUnlock(c) ==
  /\ Doing(c, "commit") /\ stage[c] = "sip"
  /\ SipCoversLatch => job[c].layer \notin attre \/ Timeouts
  /\ attre_lock' = Nobody
  /\ stage' = [stage EXCEPT ![c] = "outside"]
  /\ Done(c)
  /\ UNCHANGED <<setup, drv, hwVars, committed>>

Step(c) ==
  \/ RegStep(c) \/ DataStep(c) \/ DrawStep(c) \/ PwmStep(c)
  \/ CommitLock(c) \/ CommitWait(c) \/ CommitWrite(c) \/ CommitUnlock(c)

\* The hardware takes over the registers of a committed layer.
Latch(l) ==
  /\ l \in attre
  /\ live' = [live EXCEPT ![l] = reg[l]]
  /\ attre' = attre \ {l}
  /\ UNCHANGED <<setup, drv, reg, backlight, attre_lock, jobVars, committed>>

Start(c, l) ==
  /\ ThreadsCall /\ Running(c)
  /\ \/ BlankingOff(c, l) \/ BlankingOn(c, l)
     \/ \E on \in BOOLEAN : Enable(c, l, on)
     \/ \E buf \in Writable(l) : WriteFull(c, l, buf)
     \/ \E incomplete \in BOOLEAN : WritePartial(c, l, incomplete)
     \/ SwapBuffers(c, l)
     \/ \E alpha \in Alphas : SetAlpha(c, l, alpha)
     \/ \E size \in Sizes : SetWindowSize(c, l, size)
     \/ \E origin \in Origins : SetPosition(c, l, origin)
     \/ \E buf \in AppBufs, size \in Sizes : HeoDisplay(c, l, buf, size)

Next ==
  \/ \E c \in Callers, l \in Layers : Start(c, l)
  \/ \E l \in Layers : VsyncCallback(l)
  \/ \E c \in Everyone : Step(c)
  \/ \E l \in Layers : Latch(l)

Spec == Init /\ [][Next]_vars

\* A started call goes on; k_mutex hands the lock to a waiting caller in time.
\* Nothing obliges the hardware to take an update over.
FairSpec ==
  Spec /\ \A c \in Everyone : WF_vars(Step(c)) /\ SF_vars(CommitLock(c))

-----------------------------------------------------------------------------

Buffers == AppBufs \cup {Null} \cup {Fb(l, i) : l \in Layers, i \in 0..1}
Registers == [fba : Buffers, dma : BOOLEAN, alpha : Alphas, win : Sizes,
              origin : Origins]

\* Driver state, registers and lock stay in their ranges.
TypeOK ==
  /\ setup \in Setups
  /\ drv \in [Layers -> [front_idx : 0..1, active_buf : Buffers,
                         dma_enabled : BOOLEAN, alpha : Alphas, win : Sizes]]
  /\ reg \in [Layers -> Registers]
  /\ live \in [Layers -> Registers]
  /\ committed \in [Layers -> Registers]
  /\ attre \subseteq Layers
  /\ attre_lock \in Everyone \cup {Nobody}
  /\ backlight \in BOOLEAN
  /\ stage \in [Everyone -> {"outside", "busy", "clear", "sip"}]

\* active_buf is the "buffer address currently in DMA registers" (:54) whenever
\* no call on the layer is running: the test that skips a full-screen write of
\* the same buffer (:472) relies on it.
ActiveBufIsInDma == \A l \in Layers : Idle(l) => drv[l].active_buf = reg[l].fba

\* So it is without the HEO surface calls, which do not record what they show.
ActiveBufIsInDmaWithoutHeo == ~HeoDisplays => ActiveBufIsInDma

\* When a call has returned, all it wrote has been committed, and what was
\* committed is shown or still waits in ATTRE: the lock and the wait for ATTRE
\* keep one layer's commit from erasing another's, on hardware that answers in
\* time or on which ATTRE is not a plain register.
NothingUncommitted ==
  ~Timeouts \/ KeepsPending =>
    \A l \in Layers :
      Idle(l) => /\ reg[l] = committed[l]
                 /\ l \in attre \/ live[l] = committed[l]

\* "Commit all changes atomically" (:946): on hardware that answers in time and
\* sets SIP until the latch, it never takes over the registers of a half-made
\* call.
LatchIsWhole ==
  [][SipCoversLatch /\ ~Timeouts =>
       \A l \in Layers :
         l \in attre /\ l \notin attre' => live'[l] = committed[l]]_vars

\* A layer that owns its frame buffers never fetches from address 0: the
\* address is programmed before the DMA is switched on.
NoNullFetch ==
  \A l \in Layers \ NoAlloc : live[l].dma => live[l].fba # Null

\* get_framebuffer returns "the one not currently displayed" (:435), as long as
\* that buffer is not handed to display_write and the hardware answers in time.
BackBufferIsHidden ==
  DoubleBuffer /\ ~WritesOwn /\ SipCoversLatch /\ ~Timeouts =>
    \A l \in Layers \ NoAlloc :
      Idle(l) /\ live[l].dma => GetFramebuffer(l) # live[l].fba

\* swap_buffers is "typically called from a VSYNC callback"
\* (microchip_sam_xlcdc_layer.h:72): an interrupt handler must not find the
\* commit mutex taken by the thread it interrupted.
IsrNeverWaits ==
  Doing(Isr, "commit") /\ stage[Isr] = "outside" => attre_lock = Nobody

\* The callers are interchangeable.
CallerSymmetry == Permutations(Callers)

\* Every call returns, even when the hardware stops taking updates over: the
\* waits of a commit time out, and the mutex goes round.
CallsReturn ==
  \A c \in Everyone : Timeouts /\ job[c] # NoJob ~> job[c] = NoJob
=============================================================================
