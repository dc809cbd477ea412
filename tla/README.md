# A verification project for the MGS Zephyr/LVGL board support

The repository is a Zephyr port of an LVGL demonstration to the SAMA7D65
Curiosity kit with an AC69T88A display: a maXTouch touch driver, a driver for
the XLCDC display controller with its LVDS serializer, and an application that
shows every touch on the screen. This directory holds TLA+ models of the parts
whose correctness depends on order, concurrency or hardware timing, the TLC
configurations that check them on small instances, and proofs for every value of
their parameters.

Paths below are relative to `sama7d65_curiosity_ac69t88a/`. Short names:
MT = `drivers/input/microchip_maxtouch.c`, XC = `microchip_sam_xlcdc.c` and
XL = `microchip_sam_xlcdc_layer.c` in `drivers/display/microchip_sam_xlcdc/`,
LV = `microchip_sam_lvdsc.c` there, APP = `app/src/main.c`.

## 1. Inventory

### Touch (MT, APP)

| Part | State | Operations | Talks to |
|---|---|---|---|
| Message drain (MT 655-775) | `drain_sem`, `i2c_lock`, the controller's FIFO and CHG line, try and pass counters | `mxt_thread_fn`, `mxt_drain_once`, `mxt_read_messages` | GPIO interrupt or poll timer give the semaphore; I2C reads take messages from the controller; batches go to the touch table |
| Interrupt and timer (MT 779-797) | pin masked or not, latched edge, `poll_timer` | `mxt_irq_handler`, `mxt_timer_handler` | signal the drain thread |
| Power management (MT 902-955) | T7 asleep or not | `mxt_pm_action` suspend and resume | masks and unmasks the pin, stops and starts the timer, drains the FIFO beside the thread |
| Tail of `mxt_init` (MT 1041-1100) | – | unmask, drain, create the thread | as above |
| Touch table (MT 507-649) | `prev_touches`, the local `touches[]` | `mxt_process_messages` | `input_report_*`, which run the application's callback synchronously |
| Probe (MT 143-182, 1002-1034) | a context on the stack of each probe, work items of the system work queue | `mxt_probe_address`, `mxt_probe_work_fn` | the work queue, I2C |
| Information block (MT 184-369) | object addresses, report-id ranges, `num_touchids` | `mxt_read_info_block`, `mxt_crc24` | I2C; the message handling depends on every field |
| Reset and configuration (MT 371-472, 801-898, 1036-1049) | `t7_cfg`, the controller's settings | hardware and soft reset, T7, T100, T18 | I2C; power management writes `t7_cfg` back |
| Application view (APP 84-138, 238-250, 359-400) | `touch_state`, `indicators`, `hold_mode`, `max_touches` | `touch_input_cb` in the drain thread; `update_touch_indicators` and `hold_btn_cb` in the main thread | no lock between the two |

What makes them correct: a reported message is read without anybody having to
touch the panel again; the thread always comes back to its semaphore; a bulk read
never interprets filler as a touch; every finger's reports arrive in order, once;
the table never has an id twice nor overflows; a frame is synchronised by its last
event; the application's touches are the driver's; no new touch is drawn at half a
position; the screen settles on what the panel says; initialisation ends whatever
the bus does, never parses a corrupt block, gives every report id the controller's
meaning, and its settings survive the reset it asked for.

### Display (XC, XL)

| Part | State | Operations | Talks to |
|---|---|---|---|
| VSYNC callbacks (XC 165-238, XL 556-597) | `vsync_cbs`, `vsync_cb_count`, each layer's `vsync_handle` | register, unregister, start-of-frame interrupt | callbacks run in the interrupt and may swap buffers |
| Layers (XL 291-1186) | `front_idx`, `active_buf`, `dma_enabled`, `alpha`, `win_w/h` and the layer's registers | blanking, enable, write, swap, alpha, window, HEO surface | commit through the parent |
| Attribute commit (XC 100-121) | `attre_lock`, ATTRE, ATTRS.SIP | `xlcdc_parent_commit_attrs` | takes over the registers of a layer, shared by all layers and contexts |
| Backlight (XC 123-163) | PWM switch, brightness | enable, disable, set | base layer's blanking |
| Serializer bridge (LV 35-82) | the serializer | `microchip_sam_lvdsc_init` | checked by the controller's init |
| Start-up (XC 330-599) | clocks, PLL, timing, four stages of the pipeline | `microchip_sam_xlcdc_init` and its helpers | bridge; hardware status bits, waited for without timeout |
| Layer init (XL 1085-1186) | frame buffers on the heap | `xlcdc_layer_init` | the controller's readiness, the commit |
| Start of `main` (APP 402-437) | – | device checks, `display_blanking_off` | the chosen layer, the touch driver |
| HEO scaler (XL 811-872) | – | fixed-point scale factors | HEO surface calls |

What makes them correct: the interrupt never walks a half-changed table; handles
keep naming what they were given for; the table never overflows; what the driver
remembers of a layer is what its registers hold; a commit is never erased by
another layer's; the hardware never takes over half a call; a layer does not fetch
from address 0; the buffer handed out for drawing is not on the screen; every call
returns even if the hardware stalls; the pipeline starts on a locked clock, a
running bridge and enabled layers; a failed device fails all that stand on it, main
included; a well configured board reaches the main loop.

### Hard behaviours

Threads against interrupts (drain thread and edge interrupt, table changes and
frame interrupt), two threads on one lock or register, a main thread that preempts
an input callback between its stores, suspend and resume beside a running drain,
reports discarded by init and resume, failing I2C reads, a probe that gives up
while its work item runs, hardware waits with and without timeouts, devices that
fail in an order priorities decide, eight-bit sums and fixed-point fractions, limits of loops and tables. `PROJECT.json` lists the hazards at their
lines with the properties aimed at each, or the reason why there is none yet.

## 2. Modules

| Module | Models | Notes |
|---|---|---|
| `MxtDrain` | MT 655-796, 868-954, 1041-1098 | messages are counted; `build` is a frozen variable naming the options of code and board |
| `MxtTouch` | MT 507-649 | one step per message, per `input_report_*` call, per saved touch |
| `TouchApp` | APP with MT | extends `MxtTouch` with the callback's stores and the main loop |
| `TouchFeed` | – | abstract specification: reports learned in order, exactly once, or discarded during a drain of init or resume |
| `TouchPath` | composition | `MxtTouch` fed by `MxtDrain`; `pending <- Len(queue)`; implements `TouchFeed` |
| `MxtInfo` | MT 184-228, 285-357, 518-543; `microchip_maxtouch.h` 11-94 | the object table, its bytes, its CRC and the report ids, as operators |
| `MxtInit`, `MxtInitMC` | MT 91-177, 195-283, 298-471, 801-1049 | `mxt_init` until `MxtDrain` takes over at MT 1049, with the arming of the CHG pin and its failures; the MC module has the object tables |
| `XlcdcVsync` | XC 165-238, XL 556-597 | one step per access to the table; `usage` is frozen |
| `XlcdcLayer` | XL 291-1079, XC 100-143 | a call is the list of its effects, one step each; `setup` is frozen |
| `XlcdcPll` | XC 330-354 | divider search and fixed-point setting, as operators |
| `XlcdcBoot` | LV 46-82, XC 330-599, XL 1092-1185, APP 402-437 | extends `XlcdcPll`; `board` is frozen |
| `XlcdcScaler` | XL 812-817 | the scale factor |
| `MxtDrainProofs`, `MxtTouchProofs`, `MxtInitProofs`, `XlcdcVsyncProofs`, `XlcdcLayerProofs` | – | theorems about the module of that name |
| `TouchAppProofs`, `TouchPathProofs` | – | theorems about the compositions; both extend `MxtTouchProofs`, the second has an instance of `MxtDrainProofs` |
| `XlcdcBootProofs` | – | theorems about `XlcdcPll`, `XlcdcScaler` and `XlcdcBoot` |

How state and actions correspond to the code:

* **MxtDrain.** `pc` is the drain thread's place: `wait` (`k_sem_take`), `lock`,
  `t44`, `t5` (the two I2C reads under `i2c_lock`), `process`, `pass` (end of one
  `for` loop over `mxt_read_messages`), `check` (the `do … while` test of CHG),
  `arm` (re-enable the interrupt). `ctl` is the place of init or of the PM
  handler, which the kernel never runs at the same time; it stays `failed` when
  arming the CHG pin fails (`BootFails` is the four error returns MT 1052-1078: no
  second drain, no thread, and a device that is not ready, which power management
  passes over; a pin whose interrupt could not be configured is taken to stay
  masked). A locked transfer is one
  step that needs the lock to be free. A read that fails leaves the FIFO as it
  is. CHG is level and edge at once: `ChgAsserted` is what
  `gpio_pin_get_dt` returns, `edge` is what the port has latched.
  `abandoned` is a history variable: the last drain stopped at a limit with
  messages queued.
* **MxtTouch.** A message reports a finger's place or its release, or is
  something the function ignores. x and y are reported in two events but a finger
  has one place: what matters is which of the two a reader has seen. `at` counts
  the entries of the table that the running loop is past; while the table is
  saved, `prev_touches` is what has been written of it so far.
* **TouchApp.** `todo` is what the running callback has still to store. The main
  thread has the higher priority, so it may run between any two stores and is not
  interrupted by the callback; `update_touch_indicators` is one step.
* **TouchPath.** `fingers` is what the controller last reported of each finger,
  `queue` its FIFO; fingers that rest on the panel when init begins are reported
  in any order. `Waiting` is what the driver has not looked at, the batch
  followed by the FIFO. `lost` (history) are the fingers of which a report was
  discarded by `mxt_drain_messages` with no later one queued behind it. The
  refinement maps `learned` to the table the driver is working on, `backlog` to
  `Waiting`: one sequence for all fingers, so that the order between them is
  part of the promise.
* **XlcdcVsync.** Each client is a layer whose event callback one caller
  watches. The checks before `irq_lock()` are steps of their own; while a thread
  holds that lock nothing else runs. The interrupt calls one callback per step, and
  a callback may unregister itself there. A write behind the table overwrites
  `vsync_cb_count`; the model stops there (`Overrun`).
* **XlcdcLayer.** `reg` is what was written, `live` what the hardware has taken
  over, `attre` which layers wait for that. `committed` (history) is a layer's
  registers at its last commit. The driver's `front_idx`, `active_buf`,
  `dma_enabled`, `alpha` and window are the record `drv`. `Latch` may happen
  at any time a layer is in `attre`.

* **MxtInit.** `pc` names the place in `mxt_init` and its callees. A probe is a
  frame on the stack (`frames`) and an item of the work queue (`worker`); when the
  worker writes to a frame whose probe has returned and whose stack is in use
  again, the model goes to `undefined`. The CRC loop is one step per pair of
  bytes, the parser one per object. `chip` is the controller: its reset, its
  queue and the three settings the driver touches. A noisy transfer inverts one
  bit of one byte of what is read.
* **XlcdcBoot.** One thread: `pc` is its place, `turn` the layer it pre-enables
  or the stage it starts. The kernel calls the init functions by priority
  (`Call`), equal priorities in any order. Waits for `LCDSR.SIP` time out and
  their result is not looked at, so they are no steps; every other wait blocks.
  Contents of registers nothing waits for have no state. Layers committed while
  others still wait are taken over with them, which only concerns enable bits
  that are set already.

Most modules keep some operators marked "Broken on purpose" beside the operator
they vary: each run's properties are known to fail when the definition is replaced
by such a variant, which shows that the property can be broken by a plausible bug.

## 3. Runs

Passing:

| Run | Shows | Bounds |
|---|---|---|
| `MxtDrain` | `TypeOK`, `CountedMessagesArePresent`, `NoMessageStranded`, `OneShot`, `DrainReturns`, `MessagesServed` in seven configurations: the board's, the same with power management, with a port that does not latch masked edges, with a CHG line that never deasserts, an interrupt build without the pin, polling with and without power management | FIFO of 4, 3 tries, 3 passes, batches of 3, 3 reads in `mxt_drain_messages` |
| `MxtInit` | `CorruptBlockRejected`, `IdsMatchTable`, `ProbeIsSafeInTime`, `ConfigTakes`, `SavedPowerIsAwake`, `InitReturns` on eight boards: the usual one; any of 185 object tables; a controller at the other address on a faulty bus, put to sleep by an earlier run; one with a reset pin; a bus stuck in a probe, with the stack reused or not; single-bit noise; a controller slow to reset | tables of up to 8 objects (7 fit `MXT_MAX_OBJECTS` here), up to 256 instances and 250 ids each; 2 turns of the reset loop, 2 messages a turn, 2 reads of the drain, a queue of 2; every bit of the header, two objects and the checksum |
| `TouchApp` | `TablesAreSound`, `SyncEndsFrame` of the driver; `AppAgreesWithDriver`, `PressIsWhole`, `ScreenSettles` of the two together | 2 slots, 3 ids, 2 places, batches of 2 |
| `TouchPath` | `PendingExplainsPanel`, `NoGhostWithoutPm`, `ImplementsFeed` | 2 fingers, FIFO of 2, 2 tries, 2 passes; the board's build, one without the pull-up, and a polling build with power management |
| `XlcdcVsync` | `SofSeesWholeTable`, `SlotsMatchHandles`, `SerialTableRefuses`, `FrameCallsHolders` | 4 clients, 3 slots; one call at a time, stack order, several threads, several threads with callbacks that unregister themselves; clients are symmetric |
| `XlcdcLayer_one` | `ActiveBufIsInDmaWithoutHeo`, `NoNullFetch`, `BackBufferIsHidden`, `LatchIsWhole` | the HEO layer, one caller, 2 application buffers, 2 alphas, 2 sizes, 2 positions; slow hardware without, prompt hardware with the HEO surface calls |
| `XlcdcLayer_two` | `NothingUncommitted`, `CallsReturn` | 2 threads on base and overlay, prompt with a plain ATTRE, slow with a set-only ATTRE; and swaps from the interrupt alone |
| `XlcdcBoot` | `PllIsExact`, `PipelineStartsLast`, `UiHasScreen`, `BootSucceeds` on five boards: parallel panel on a boot loader's clock; LVDS; LVDS with OVR2; the same without touch; hardware that never answers | base, HEO without own buffers and OVR2; priorities below, at and above each other; pixel clocks at, just beside and beyond the ends of the core range; heaps for 0, 1 and 4 buffers |

The real limits are larger (10 tries, 50 passes, batches of up to 20, 10 slots,
4 callbacks), but each loop only distinguishes "below", "at" and "past" its limit,
and each table "empty", "with a gap to close" and "full": the bounds reach all of
them, and full FIFO, full table, one finger more than slots, and a batch smaller
than the FIFO all occur. Where section 5 has a theorem, the bounds are gone.

`TouchPath` has 1,348,310 distinct states. Larger instances (3 fingers, 2 places, one
slot; up to 18.6 million states) were checked while the proof was prepared and
show nothing else.

`XlcdcBoot` computes clocks in MHz, with fractions of a sixteenth and 16 dividers
instead of Hz, 22 bits and 256: the ends of the core range (600 and 1200 MHz) fall
on the same pixel clocks, and remainders of all kinds occur. `XlcdcBootProofs`
has the code's own numbers among its instances.

Violations, each a statement of the repository that the code does not keep:

| Run | Statement | What happens |
|---|---|---|
| `TouchPath_ghost` | touches carried forward are "previously active touches (stationary fingers)" (MT 514) | resume discards a queued release; the finger stays in `prev_touches` and is reported pressed with every later batch, until its id touches and lifts again |
| `XlcdcVsync_handles` | "-EINVAL if handle is invalid" (`microchip_sam_xlcdc.h` 192-193) | unregistering shifts the table, so the handles above name another client's callback |
| `XlcdcLayer_heo_buf` | `active_buf` is the "buffer address currently in DMA registers" (XL 54) | the HEO surface calls program an address and do not record it; a later full-screen write of the old buffer is skipped |
| `XlcdcLayer_isr_lock` | swap is "typically called from a VSYNC callback" (`microchip_sam_xlcdc_layer.h` 72) | the commit's mutex, waited for without limit in an interrupt, is held by the interrupted thread |

Seen while modelling, and visible in the models without a run of its own:

* the interrupt is re-armed "now that CHG is deasserted" (MT 744), but a message
  may come in after the test of MT 741; the port's latched edge is what saves it
  (`NoMessageStranded` holds because of it, and only under `ReliableWiring`);
* after the pass limit, "the interrupt is re-armed" (MT 728-730) on a line that is
  still asserted: no falling edge follows, and only a suspend and resume, or a
  pin the noise of which looks like an edge, brings the thread back. This is the
  `abandoned` case of `NoMessageStranded` and `MessagesServed`;
* with power management the one-shot pattern (MT 706) is not kept: resume unmasks
  the pin although the thread may be draining since before the suspend. It costs
  a superfluous drain, no message. `OneShot` is therefore stated without it;
* the poll timer is compiled in only when no node has `irq-gpios`, while
  `dts/bindings/input/microchip,maxtouch.yaml` 34-35 says that a node without them
  "operates in polling mode"; `DrainReturns` is all such a build keeps;
* with double buffering ("tear-free", `Kconfig` 36) a partial write still draws
  into the front buffer (XL 498), and a full write of the driver's back buffer
  shows it without moving `front_idx`, after which `get_framebuffer` returns the
  buffer on the screen. `BackBufferIsHidden` excludes the latter;
* a full table (`microchip_sam_xlcdc.h` 181, "-ENOSPC if all slots are full") is
  tested before interrupts are locked: two threads can pass the test for the last
  slot, and the second writes behind the table. `SerialTableRefuses` therefore
  speaks of one call at a time;
* a callback that unregisters itself moves the next entry to its own place, and
  the interrupt's loop goes on behind it (XC 176-183): the next client misses this
  frame. The table stays whole (`SlotsMatchHandles`, `SofSeesWholeTable`);
* every call that switches the DMA writes the devicetree's alpha back (XL 337),
  so that `xlcdc_layer_set_alpha` lasts until the next blanking or enable call;
* a probe that times out returns while its work item is queued or running with a
  pointer to its stack frame (MT 162-177). `ProbeIsSafeInTime` holds while no
  probe times out (also proved); with a stuck bus `pc` reaches `undefined`;
* T7 is read before the soft reset (MT 1036-1042): a controller that an earlier
  run put to sleep, on a board without a reset pin, gives its sleep setting, which
  every resume will write back. `SavedPowerIsAwake` excludes that board;
* the limit on touches comes from `CONFIG_INPUT_MICROCHIP_MAXTOUCH_MAX_TOUCHES`
  and the node's property (MT 351-357), while the binding says that without the
  property the controller's own maximum is used;
* main logs a touch device that is not ready and returns (APP 428-431); the
  message of MT 1023, "(touch disabled)", reads as if the display went on;
* when no divider suits the pixel clock, the error is logged and initialisation
  goes on (XC 344-348). Without a clock from a boot loader the wait of XC 484 or
  538 never ends; `BootSucceeds` asks for a clock that can be made or is there;
* a layer whose second buffer cannot be allocated keeps the first (XL 1132-1136);
* the scaler's comment speaks of 1 + 19 bits (XL 803, `microchip_sam_xlcdc.h` 32),
  its constant has 20 fractional bits; `WideSourceWraps` says what a source of 4096
  pixels or more becomes;
* the HEO surface calls switch scaler and YCbCr input on, and no other call
  switches them off: window and pixel format afterwards are those of the surface.

## 4. Assumptions and fairness

Hardware: a port may or may not latch edges of a masked pin (`latch`); a masked
port without latch forgets its edge. Without its pull-up the open-drain CHG line
stays low and may float (`SpuriousEdge`). ATTRE is modelled both as a plain
register and as a set-only one (`keeps_pending`), the hardware both as always in
time and as slow (`timeouts`), SIP both as set until the latch and not
(`sip_covers_latch`). The data sheet is not part of the repository, so no model
relies on one reading where the two give different results: properties name the
setups they need.

* `MxtDrain!Fairness`: weak fairness of the interrupt (an enabled interrupt is
  taken), the timer (it is periodic), the drain thread (a ready thread of priority
  5 runs, since the main thread sleeps in every turn of its loop), and of init and
  of a started PM call. Nothing obliges the controller to report, the system to
  suspend or resume, or a bus read to succeed. Arming the CHG pin at boot may
  fail, and `MessagesServed` says nothing of a driver whose init did.
* `MxtInit!FairSpec`: weak fairness of the init thread (nothing runs above it for
  ever), and of the system work queue; of a transfer in a work item only while the
  bus is not stuck. None for the controller: it need not come back from a reset.
  `ConfigTakes` excludes transfers that fail, resets that take longer than the
  driver polls, and (`slow_reset`) a controller that acts on the reset command only
  after it has answered another transfer.
* `XlcdcBoot!FairSpec`: weak fairness of the boot thread, and of the hardware on
  boards that answer. The lock bit is assumed to drop with a new PLL setting: a
  bit that lagged behind would let the wait of XC 380 pass early.
* `TouchApp!FairSpec`: the callback and `mxt_process_messages` go on, the main
  loop keeps turning. No fairness for batches or the Hold button.
* `XlcdcLayer!FairSpec`: a started call goes on, and strong fairness of taking
  `attre_lock` (`k_mutex` queues its waiters). None for `Latch`: the hardware may
  stop.

`MxtDrain`, `MxtInit`, `TouchPath`, `XlcdcVsync` and `XlcdcBoot` are checked
without the deadlock test: an idle driver with an idle panel in an interrupt build,
an initialisation that is over or has failed, a table written past its end, and a boot that waits
for hardware that does not answer or has reached its loop, have no next step.

## 5. Proofs

Every theorem below is for all values of the constants, under the assumptions the
modules name; TLC evaluates each assumption in every run. What they ask, and why
the code grants it:

| Assumption | Asks |
|---|---|
| `BoundsAssumption`, `BuildsAssumption` (`MxtDrain`) | limits of loops are positive; builds are sets of known options |
| `TouchAssumption`, `NoEventAssumption`, `BatchAssumption` (`MxtTouch`) | at least one slot, ids are numbers, `Up` is no place; "no event" is no event |
| `SlotAssumption` (`TouchApp`) | the application has a slot for every id the driver lets through: the default configuration has 10 of both, a larger `MAX_TOUCHES` is a hazard listed for itself |
| `PathAssumption` (`TouchPath`) | finitely many ids (they are bytes); a message that reports no finger is no report |
| `InfoAssumption`, `InitAssumption` (`MxtInfo`, `MxtInit`) | Kconfig's ranges; limits are positive; two addresses, neither 0; noise inverts one bit; object tables are sequences of at most 255 `struct mxt_object`, as many as `num_objects` can say |
| `TableAssumption` (`XlcdcVsync`) | finitely many clients; at most 254 slots, since the count is a `uint8_t` |
| `LayerAssumption` (`XlcdcLayer`) | the application's buffers are not the driver's; `Null` is neither buffer nor layer; the initial window and alpha are possible values |
| `PllAssumption` (`XlcdcPll`) | the core range is an octave or more, which the search needs and the code's has; the crystal is below it |
| `BootAssumption` (`XlcdcBoot`) | layers are among the four the hardware has; priorities, clocks and heap sizes are numbers |

### MxtDrainProofs

| Theorem | States |
|---|---|
| `TypeCorrect` | `Spec => []TypeOK` |
| `ReadsArePresent` | `Spec => []CountedMessagesArePresent` |
| `NothingStranded` | `Spec => []NoMessageStranded` |
| `OneShotHolds` | `Spec => []OneShot` |

Ranges: labels and flags are inductive alone; the counters need `LoopInv` (the
try and pass loops are entered below their limits), since `tries + 1` must stay
within `MaxTries`.

`ReadsArePresent`: `CountedMessagesArePresent` is not inductive, because a
`DrainRead` of init or resume takes a message. `LockInv` says the thread owns
`i2c_lock` exactly in `t44` and `t5`, so that `DrainRead`, which needs the lock,
cannot run between count and read; `SpawnInv` (the thread exists exactly when init
has created it) is carried with it for the step that creates the thread.

`NothingStranded`: the invariant is `WakeupInv`, with, besides `SpawnInv`,
`BuildInv` (no `check` or `arm` in a polling build), `ArmedInv` (between drains
the pin is unmasked, except before init unmasks it and between suspend's mask and
resume's unmask), `TimerInv` (the same for the timer) and `WakeInv`: in an
interrupt build, once the thread has stopped looking at the FIFO, a queued message
has left a latched edge, a given semaphore or an abandoned drain behind. The last
is the heart of it: the message that comes in after the CHG test finds the FIFO
empty, so the line falls and the port latches the edge. `ArmedInv` and `WakeInv`
together are `NoMessageStranded`.

`OneShotHolds`: `OneShotInv` adds that without power management `ctl` never leaves
init's labels and `active`, that an interrupt build never starts the timer, a
polling build never unmasks the pin, and that in a running drain no one gives the
semaphore.

### MxtTouchProofs

| Theorem | States |
|---|---|
| `TablesStaySound` | `TouchSpec => []TablesAreSound` |
| `FrameEndsWithSync` | `TouchSpec => SyncEndsFrame` (an action property) |

`TouchInv` adds three parts to ranges and soundness. `LoopInv`: each loop stays in
the table and starts at its first entry. `CopyInv`: what has been saved are
exactly the pressed touches among the entries passed; without it the soundness of
`prev_touches`, which is written one entry at a time, is not inductive. `SyncInv`:
when the synchronising event has been reported; the code decides that from what is
still ahead in the loop, and the invariant says what follows from it in each
phase.

### TouchAppProofs

| Theorem | States |
|---|---|
| `AppRunsDriver` | `Spec => TouchSpec`: the driver with the callback inside its calls takes only steps of the driver alone |
| `AppTypeCorrect` | `Spec => []AppTypeOK` |
| `TablesAgree` | `Spec => []AppAgreesWithDriver` |
| `PressesAreWhole` | `Spec => PressIsWhole` (an action property) |

`AppRunsDriver` brings `TouchInv` along. `AppInv` then follows a touch through the
code: `TodoInv` (what is left of a callback belongs to the event it was called
for), `EntryInv` and `StoringInv` (what slot and place the callback knows of the
entry the loop is at, and what it has stored of the one just passed), `FrameInv`
(the points of the entries the loop is past are those of the table), and between
frames `CarriedInv`, which is `AppAgreesWithDriver`. `ScanInv` (no touch of the
last frame disappears from the table while messages are looked at) is what lets
the loop over released touches clear every point that must go.

### TouchPathProofs

| Theorem | States |
|---|---|
| `PathRunsDrain` | `PathSpec => Drain!Spec`, with `pending <- Len(queue)` |
| `PathRunsDriver` | `PathSpec => TouchSpec` |
| `PathTypeCorrect` | `PathSpec => []PathTypeOK` |
| `PanelExplained` | `PathSpec => []PendingExplainsPanel` |
| `NoGhost` | `PathSpec => []NoGhostWithoutPm` |
| `FeedImplemented` | `PathSpec => ImplementsFeed`: the refinement of `TouchFeed` |

The first two are step refinements, by which the invariants of the parts
(`PartsInv`: the drain's ranges, `SpawnInv` and `OneShotInv`, the table's
`TouchInv`) hold of the composition without being proved again. That batches fit
`MaxBatch` and the FIFO its size is `FifoOK`. `PathMoves` then says that every
step does one of four things to the reports on their way: one comes in
(`Arrives`), the oldest is looked at (`Learns`), one of the FIFO is dropped
(`Drops`, only while discarding), or nothing (`Stays`). `PathInv` adds
`PendingExplainsPanel` itself, `ThreadInv` (the function runs only in the thread,
and the table is empty before the thread exists), and `LostInv`: without power
management only init discards, before the driver has learned anything. From it
and the empty FIFO, `NoGhost`. The refinement is `PathMoves` read once more, with
`RemoveAt` for `Drops` and, for the initial states, that a sequence of all resting
reports without repetition is one of `SetToSeqs`.

### MxtInitProofs

| Theorem | States |
|---|---|
| `TypeCorrect` | `Spec => []TypeOK` |
| `CorruptBlock` | `Spec => []((Noise => num_objects = Len(table)) => CorruptBlockRejected)` |
| `IdsMatch` | `Spec => []((Noise => num_objects = Len(table)) => IdsMatchTable)` |
| `ProbeIsSafe` | `Spec => []ProbeIsSafeInTime` |
| `ConfigHolds` | `Spec => []ConfigTakes` |
| `SavedPower` | `Spec => []SavedPowerIsAwake` |

`RangeInv` has one part per group of variables. Those of the block need that it is
as long as the loop over its objects takes it for, and that what is kept of an
object is a byte or an address (`ParseObjectRange`); noise does not matter, since a
byte with a bit inverted is a byte (`OneBit`).

`ProbeInv` says where the work item is: nowhere while no probe waits; while one
waits, queued, running or over, with the probe's own frame and address, and if it
is over and says "found", that address is the controller's. `ConfigInv`: on a bus
that works, and unless the reset was given up, the controller is up from the block
to the soft reset and again from the reset message on, and the address is its own,
even behind a probe that timed out, since the header was read there. `PowerInv`:
a controller that is up has its own power configuration, from start-up without an
earlier run, or from the reset pin on.

`CorruptBlock` is about every object table, and so about blocks of every length. Its
invariant is `TableInv`, and the heart of that is `SumInv`: behind each pair of
bytes, the register holds the CRC of the table's own words so far (`RunningCrc`) if
and only if no inverted bit was among the bytes taken. Three facts keep it.

- The loop is the division: the remainder of the polynomial of `w` words is that of
  `w - 1` words put through one step (`RemainderSteps`, `RunningCrcSteps`). The
  reference in `MxtInfo` knows nothing of registers; it divides the block by the
  polynomial once. Below bit 24 the register of the code, which never clears what
  it shifts out, does the same (`CrcStepped`).
- A wrong word is seen (`StepSeesError`), and a wrong register stays wrong under the
  same words (`StepKeepsError`): a step can be undone, since the polynomial has
  bit 0, so that the bit shifted out can be told from the result.
- A transfer inverts one bit at most (`DeliveredOnce`). So an error in the body
  leaves the stored CRC right, and an error in the stored CRC (`StoredDetermines`)
  leaves the body right; either way they differ (`SumEnd`).

What is parsed is then the table: the block gives each object back
(`ObjectsRead`), and the loop is the fold that `Parsed` is (`ParsedUnfolds`).

The condition is needed. The number of objects is read before the CRC and says
where the CRC is. If its bit is inverted downwards, the first three bytes of a later
object are taken for the CRC, and for a table in which they happen to be that, the
shorter table is accepted: `CorruptBlockRejected` says that this does not happen,
the run finds that so for the standard table and every inverted bit of its header,
and no proof could say it for all. On a bus without noise nothing needs to be assumed.

`IdsMatch` follows the report ids through the table. If they fit in a byte, the
running `reportid` is the controller's next id, although the code multiplies and
adds in eight bits, and even for an object with 256 instances, whose count of them
is 0 (`IdsInByte`: it can have no ids then); what is kept of the T6 and the T100 is
their first id and the T100's last (`IdsKept`, object by object). With one T6 and
one T100, these three numbers decide for each id what it means (`IdsAgree`).

Polynomials, parsed objects and first ids are defined recursively over the block or
the table. `Iterated` shows once that a function with a given first value and given
steps exists, from which each definition's equations follow; what holds of all its
values then goes by `UpTo`, induction in the form of a set of numbers that has 0 and
with each number the next. Words are sets of bits, so that a step is about 24
memberships and no arithmetic.

### XlcdcVsyncProofs

| Theorem | States |
|---|---|
| `TypeCorrect` | `Spec => []TypeOK` |
| `TableIsWhole` | `Spec => []SofSeesWholeTable` |
| `NoSlotLeaks` | `Spec => []SlotsMatchHandles` |
| `SerialIsSafe` | `Spec => []SerialTableRefuses` |
| `FrameIsComplete` | `Spec => FrameCallsHolders` (an action property) |

`LockInv` (a client has interrupts locked exactly between `irq_lock` and
`irq_unlock`) and `CallInv` (what a running call knows of its handle and index)
carry `TableInv`: the filled entries are those below the count, or one more
between a new entry and the increment, and the count is the number of handles
given out. The two halves need each other: without the second the count could go
below zero. `SerialInv` adds, for one call at a time, that a call past its test for
a full table finds a free slot. `StackInv` and `FrameInv` are for handles given
back in reverse order: entry `i` belongs to handle `i + 1`, and the interrupt has
called the first `next` of them.

### XlcdcLayerProofs

| Theorem | States |
|---|---|
| `TypeCorrect` | `Spec => []TypeOK` |
| `NeverFetchesNull` | `Spec => []NoNullFetch` |
| `ActiveBufIsTracked` | `Spec => []ActiveBufIsInDmaWithoutHeo` |
| `BackBufferStaysHidden` | `Spec => []BackBufferIsHidden` |
| `NothingIsUncommitted` | `Spec => []NothingUncommitted` |
| `CommitsAreAtomic` | `Spec => LatchIsWhole` (an action property) |

Each is about a layer at rest and false in the middle of a call. The invariant
`Plan(l, t)` therefore speaks of a layer and of the list `t` of what its running
call has still to do: a DMA that is or will be switched on has an address, or one
comes first (`NullSafe`); a new address is recorded after it is written, once
(`Tracked`); the address follows the index of the front buffer (`Fronted`); every
register write is followed by a commit (`Committing`). Each call is shown to start
with a list that satisfies it, each effect to keep it for the tail, and with an
empty list it is what the theorems say. `OwnInv` keeps calls of one layer apart and
says who has the commit's lock. For the commits, `ClearInv` (ATTRE is clear where
it is written), `CommitInv` (what is not about to be committed has been, and is
latched or waits in ATTRE) and `SipInv` (a layer waits in ATTRE only while its
call waits for SIP, its registers as committed): a plain write of ATTRE erases
nothing because of the first, and a latch finds no half-written registers because
of the last.

### XlcdcBootProofs

| Theorem | States |
|---|---|
| `DividerExists` | a pixel clock whose sevenfold is at most `CoreMax`, and reaches `CoreMin` with the last divider, has a divider |
| `SettingIsExact` | the setting of a clock that has a divider is exact: in its fields, and below the wanted clock by less than one unit of the last bit |
| `FactorIsRatio` | for sources that fit the word, the scale factor is the ratio cut off behind its last bit |
| `WideSourceWraps` | for the others, it is that of the source modulo 4096 pixels (`Wide`) |
| `TypeCorrect` | `Spec => []TypeOK` |
| `PipelineOrder` | `Spec => []PipelineStartsLast` |
| `ScreenBehindUi` | `Spec => []UiHasScreen` |
| `BootPllIsExact` | `Spec => []PllIsExact` |

`DividerExists` takes the least multiple of the PLL output that reaches `CoreMin`:
the one before it is below `CoreMin`, so that it is itself below twice `CoreMin`.
`SettingIsExact` is two divisions with remainder, of the core clock by the crystal
and of the remainder by its fraction.

The invariant has four parts. `PcInv`: the device whose init function runs is
`current`, tried and not yet ready. `OrderInv`: what is prepared stays so; a ready
bridge serialises, nothing behind the lock wait runs on a PLL that has not locked,
and the layers before the one being enabled are enabled. `ReadyInv`: the stages
before the one being started run; a ready controller has all four, a ready layer a
ready controller, and main a ready chosen layer. `RangeInv`: the ranges of the
rest. `PipelineStartsLast` and `UiHasScreen` follow from the second and third. None
is inductive alone: that the bridge is not switched off again under a started
pipeline needs `PcInv`, which says that a device is tried once.

### What stays with TLC

Liveness (`DrainReturns`, `MessagesServed`, `ScreenSettles`, `CallsReturn`,
`InitReturns`, `BootSucceeds`) depends on fairness and ENABLED. Of
`CorruptBlockRejected` and `IdsMatchTable`, the case of a number of objects that was
itself read wrong (see MxtInitProofs).

All other invariants and action properties of the passing runs are proved.

## 6. Not modelled, and the plan

Left out: what I2C transfers look like, coordinates' scaling and orientation
(`swap-xy`, inversion), pressure and size of a touch; brightness (a register field,
and `data->brightness`, which nothing reads), buffer sizes, the switches of color
conversion and scaler, cache maintenance, pixel formats, display timings and the
capabilities calls: none has a second actor or an order to get wrong. The same
holds of LVGL, its widgets and the demo tabs. A callback that registers others from
within the frame interrupt is not modelled. Build files, Kconfig and devicetree are data; the switches that
change behaviour are options of the models.

Order of work:

1. `MxtDrain`, `MxtTouch`, `TouchApp`, `TouchFeed`, `TouchPath`, `XlcdcVsync`,
   `XlcdcLayer` and their runs; `MxtDrainProofs` (done).
2. Start-up of the touch driver: `MxtInfo` and `MxtInit` (done).
3. Start-up of the display: `XlcdcPll`, `XlcdcBoot`, `XlcdcScaler` and their proofs
   (done).
4. Proofs about `MxtTouch`, `TouchApp`, `TouchPath` (with the refinement of
   `TouchFeed`), `XlcdcVsync`, `XlcdcLayer`, and of `MxtInit`, its CRC and report
   ids included (done).
5. Next: the window of the layers related to the size of their buffers.

## 7. Running

    tlc -config MxtDrain.cfg MxtDrain.tla
    tlc -config MxtInit.cfg MxtInitMC.tla
    tlapm MxtDrainProofs.tla

The other runs have the name of their module in the name of their `.cfg`. The
longest (`TouchApp`, `TouchPath`, `XlcdcLayer_two`) take between half a minute and
one and a half minutes with two workers. The eight proof modules are
`MxtDrainProofs`, `MxtTouchProofs`, `MxtInitProofs`, `TouchAppProofs`,
`TouchPathProofs`, `XlcdcVsyncProofs`, `XlcdcLayerProofs` and `XlcdcBootProofs`;
each takes between seconds and two minutes, `MxtInitProofs` about four, mostly
with the provers' default time limits (a leaf that needs more says so).
