------------------------------ MODULE MxtDrain ------------------------------
(***************************************************************************)
(* How the maXTouch driver decides when to read the touch controller:      *)
(* the controller's message FIFO and its CHG line, the GPIO edge           *)
(* interrupt, the poll timer, the binary semaphore, the drain thread, and  *)
(* the tail of mxt_init and the power-management handler that run beside   *)
(* them (drivers/input/microchip_maxtouch.c).                              *)
(*                                                                         *)
(* Messages are only counted here: what they say is MxtTouch's subject,    *)
(* and TouchPath puts the two together.  A single locked transfer          *)
(* (mxt_i2c_{read,write}_reg_locked) is one step that needs the lock free. *)
(***************************************************************************)
EXTENDS Naturals

CONSTANTS
  QueueCap,        \* messages the controller can hold (bounds the model)
  MaxTries,        \* mxt_read_messages calls per pass        (10 in the code)
  MaxPasses,       \* MXT_DRAIN_MAX_PASSES                    (50 in the code)
  MaxBatch,        \* min(MXT_MAX_MSG_COUNT, max_reportid)    (<= 20)
  DrainLimit,      \* T5 reads of mxt_drain_messages          (50 in the code)
  Builds           \* the configurations of code and board considered

ASSUME BoundsAssumption ==
  /\ QueueCap \in Nat
  /\ MaxTries \in Nat \ {0}
  /\ MaxPasses \in Nat \ {0}
  /\ MaxBatch \in Nat \ {0}
  /\ DrainLimit \in Nat \ {0}

\* What a configuration can have; the operators below name each.
Options == {"interrupt", "pm", "irq_gpio", "pull_up", "latch"}

ASSUME BuildsAssumption == Builds \subseteq SUBSET Options

VARIABLES
  build,       \* the options of this build and board; never changes
  pending,     \* messages in the controller's FIFO
  asleep,      \* T7 holds the zero intervals: nothing new is reported
  edge,        \* a falling CHG edge the port has latched and not yet served
  irq_on,      \* GPIO_INT_EDGE_TO_ACTIVE (TRUE) or GPIO_INT_DISABLE (FALSE)
  timer_on,    \* poll_timer is running
  drain_sem,   \* the semaphore, limit 1
  i2c_lock,    \* the drain thread holds data->i2c_lock across two transfers
  pc,          \* where the drain thread is
  tries,       \* mxt_read_messages calls made in this pass
  passes,      \* passes made in this drain
  count,       \* T44's answer, then the messages in msg_buf
  ctl,         \* next step of the init thread / of the PM handler
  drained,     \* reads made by the running mxt_drain_messages
  abandoned    \* history: the last drain stopped with messages still queued

chipVars   == <<build, pending, asleep>>
irqVars    == <<edge, irq_on, timer_on, drain_sem>>
threadVars == <<i2c_lock, pc, tries, passes, count>>
ctlVars    == <<ctl, drained>>
vars == <<chipVars, irqVars, threadVars, ctlVars, abandoned>>

Labels    == {"unborn", "wait", "lock", "t44", "t5", "process",
              "pass", "check", "arm"}
CtlLabels == {"boot_arm", "boot_drain", "boot_spawn", "failed", "active",
              "susp_irq", "suspended", "res_irq", "res_drain"}

InterruptBuild == "interrupt" \in build  \* CONFIG_..._MAXTOUCH_INTERRUPT
PmBuild        == "pm" \in build         \* CONFIG_PM_DEVICE
HasIrqGpio     == "irq_gpio" \in build   \* cfg->irq_gpio.port != NULL
PullUp         == "pull_up" \in build    \* the open-drain line can deassert
LatchesMasked  == "latch" \in build      \* a masked port remembers an edge

(***************************************************************************)
(* The controller and the pin.                                             *)
(***************************************************************************)

\* CHG in mode 1 is asserted while a message waits; without its pull-up the
\* open-drain line never returns to the deasserted level.
ChgAsserted == ~PullUp \/ pending > 0

\* The FIFO goes from empty to non-empty: the line falls, and the port sees it
\* when the pin is unmasked or when it latches masked edges too.
Falls == PullUp /\ pending = 0 /\ (irq_on \/ LatchesMasked)

Arrive ==
  /\ ~asleep
  /\ pending < QueueCap
  /\ pending' = pending + 1
  /\ edge' = (edge \/ Falls)
  /\ UNCHANGED <<build, asleep, irq_on, timer_on, drain_sem, threadVars,
                 ctlVars, abandoned>>

\* A line without its pull-up floats: noise can look like one more falling edge.
SpuriousEdge ==
  /\ ~PullUp
  /\ irq_on \/ LatchesMasked
  /\ edge' = TRUE
  /\ UNCHANGED <<chipVars, irq_on, timer_on, drain_sem, threadVars, ctlVars,
                 abandoned>>

\* Broken on purpose: the handler leaves the pin unmasked.
IrqHandlerNoMask ==
  /\ irq_on /\ edge
  /\ edge' = FALSE
  /\ drain_sem' = 1
  /\ UNCHANGED <<chipVars, irq_on, timer_on, threadVars, ctlVars, abandoned>>

\* mxt_irq_handler: mask the pin, signal the thread.
IrqHandler ==
  /\ irq_on /\ edge
  /\ edge' = FALSE
  /\ irq_on' = FALSE
  /\ drain_sem' = 1
  /\ UNCHANGED <<chipVars, timer_on, threadVars, ctlVars, abandoned>>

\* mxt_timer_handler.
TimerHandler ==
  /\ timer_on
  /\ drain_sem' = 1
  /\ UNCHANGED <<chipVars, edge, irq_on, timer_on, threadVars, ctlVars,
                 abandoned>>

\* A masked port that does not latch has no edge to serve.
Mask   == /\ irq_on' = FALSE
          /\ edge' = (edge /\ LatchesMasked)

Unmask == /\ irq_on' = TRUE
          /\ UNCHANGED edge

(***************************************************************************)
(* The drain thread: mxt_thread_fn, mxt_drain_once, mxt_read_messages.     *)
(***************************************************************************)

\* Broken on purpose: the try count of the last drain is kept.
TakeSemKeepsTries ==
  /\ pc = "wait" /\ drain_sem = 1
  /\ drain_sem' = 0
  /\ pc' = "lock"
  /\ passes' = 0
  /\ abandoned' = FALSE
  /\ UNCHANGED <<chipVars, edge, irq_on, timer_on, i2c_lock, tries, count,
                 ctlVars>>

TakeSem ==
  /\ pc = "wait" /\ drain_sem = 1
  /\ drain_sem' = 0
  /\ pc' = "lock"
  /\ tries' = 0
  /\ passes' = 0
  /\ abandoned' = FALSE
  /\ UNCHANGED <<chipVars, edge, irq_on, timer_on, i2c_lock, count, ctlVars>>

\* Broken on purpose: every transfer takes and releases the lock by itself.
LockPerTransfer ==
  /\ pc = "lock" /\ ~i2c_lock
  /\ pc' = "t44"
  /\ UNCHANGED <<chipVars, irqVars, i2c_lock, tries, passes, count, ctlVars,
                 abandoned>>

Lock ==
  /\ pc = "lock" /\ ~i2c_lock
  /\ i2c_lock' = TRUE
  /\ pc' = "t44"
  /\ UNCHANGED <<chipVars, irqVars, tries, passes, count, ctlVars, abandoned>>

\* Leaving mxt_read_messages with ret <= 0 breaks the try loop.
ReadFails ==
  /\ pc \in {"t44", "t5"}
  /\ i2c_lock' = FALSE
  /\ count' = 0
  /\ pc' = "pass"
  /\ UNCHANGED <<chipVars, irqVars, tries, passes, ctlVars, abandoned>>

AtMost(n, limit) == IF n > limit THEN limit ELSE n

ReadT44 ==
  /\ pc = "t44"
  /\ count' = AtMost(pending, MaxBatch)
  /\ pc' = "t5"
  /\ UNCHANGED <<chipVars, irqVars, i2c_lock, tries, passes, ctlVars,
                 abandoned>>

\* The bulk read of the counted messages, or, when T44 said 0, one read that
\* deasserts CHG and catches a message that came in since.
ReadT5 ==
  /\ pc = "t5"
  /\ LET wanted == IF count = 0 THEN 1 ELSE count
         got    == AtMost(wanted, pending)
     IN /\ pending' = pending - got
        /\ count' = got
        /\ pc' = IF got = 0 THEN "pass" ELSE "process"
  /\ i2c_lock' = FALSE
  /\ UNCHANGED <<build, asleep, irqVars, tries, passes, ctlVars, abandoned>>

\* mxt_process_messages, outside the lock; then the next try of the pass.
Process ==
  /\ pc = "process"
  /\ tries' = tries + 1
  /\ count' = 0
  /\ pc' = IF tries + 1 < MaxTries THEN "lock" ELSE "pass"
  /\ UNCHANGED <<chipVars, irqVars, i2c_lock, passes, ctlVars, abandoned>>

EndPassPolling ==
  /\ pc = "pass" /\ ~InterruptBuild
  /\ pc' = "wait"
  /\ UNCHANGED <<chipVars, irqVars, i2c_lock, tries, passes, count, ctlVars,
                 abandoned>>

\* Broken on purpose: passes are not counted.
EndPassUncounted ==
  /\ pc = "pass" /\ InterruptBuild
  /\ pc' = "check"
  /\ UNCHANGED <<chipVars, irqVars, i2c_lock, tries, passes, count, ctlVars,
                 abandoned>>

\* Broken on purpose: CHG is not looked at again before the pin is unmasked.
EndPassNoRecheck ==
  /\ pc = "pass" /\ InterruptBuild
  /\ pc' = "arm"
  /\ UNCHANGED <<chipVars, irqVars, i2c_lock, tries, passes, count, ctlVars,
                 abandoned>>

EndPass ==
  /\ pc = "pass" /\ InterruptBuild
  /\ passes' = passes + 1
  /\ IF passes + 1 >= MaxPasses
       THEN pc' = "arm" /\ abandoned' = (pending # 0)
       ELSE pc' = "check" /\ UNCHANGED abandoned
  /\ UNCHANGED <<chipVars, irqVars, i2c_lock, tries, count, ctlVars>>

\* The loop condition, read after k_sleep(1 ms).
CheckChg ==
  /\ pc = "check"
  /\ tries' = 0
  /\ pc' = IF HasIrqGpio /\ ChgAsserted THEN "lock" ELSE "arm"
  /\ UNCHANGED <<chipVars, irqVars, i2c_lock, passes, count, ctlVars,
                 abandoned>>

\* Broken on purpose: the pin stays masked after a drain.
ArmForgotten ==
  /\ pc = "arm"
  /\ pc' = "wait"
  /\ UNCHANGED <<chipVars, irqVars, i2c_lock, tries, passes, count, ctlVars,
                 abandoned>>

Arm ==
  /\ pc = "arm"
  /\ IF HasIrqGpio THEN Unmask ELSE UNCHANGED <<irq_on, edge>>
  /\ pc' = "wait"
  /\ UNCHANGED <<chipVars, timer_on, drain_sem, i2c_lock, tries, passes,
                 count, ctlVars, abandoned>>

DrainThread ==
  \/ TakeSem \/ Lock \/ ReadFails \/ ReadT44 \/ ReadT5 \/ Process
  \/ EndPassPolling \/ EndPass \/ CheckChg \/ Arm

(***************************************************************************)
(* The tail of mxt_init, and mxt_pm_action.                                *)
(***************************************************************************)

\* What init and resume do to be woken again: unmask the pin or start the timer.
StartWakeups ==
  IF InterruptBuild
    THEN /\ IF HasIrqGpio THEN Unmask ELSE UNCHANGED <<irq_on, edge>>
         /\ UNCHANGED timer_on
    ELSE timer_on' = TRUE /\ UNCHANGED <<irq_on, edge>>

\* Only an interrupt build with the pin drains before it starts the thread.
BootArm ==
  /\ ctl = "boot_arm"
  /\ StartWakeups
  /\ ctl' = IF InterruptBuild /\ HasIrqGpio THEN "boot_drain" ELSE "boot_spawn"
  /\ UNCHANGED <<chipVars, drain_sem, threadVars, drained, abandoned>>

\* The GPIO port is not ready, or refuses the input, the callback or the
\* interrupt: mxt_init returns before its second drain and without a thread.
\* The device is then not ready, so power management passes it over.
BootFails ==
  /\ ctl = "boot_arm"
  /\ InterruptBuild /\ HasIrqGpio
  /\ ctl' = "failed"
  /\ UNCHANGED <<chipVars, irqVars, threadVars, drained, abandoned>>

BootSpawn ==
  /\ ctl = "boot_spawn"
  /\ ctl' = "active"
  /\ pc' = "wait"
  /\ UNCHANGED <<chipVars, irqVars, i2c_lock, tries, passes, count, drained,
                 abandoned>>

\* Errors of the T7 writes are ignored, so the controller may stay as it was.
SuspendT7 ==
  /\ PmBuild
  /\ ctl = "active" /\ ~i2c_lock
  /\ asleep' \in {asleep, TRUE}
  /\ ctl' = "susp_irq"
  /\ UNCHANGED <<build, pending, irqVars, threadVars, drained, abandoned>>

SuspendIrq ==
  /\ ctl = "susp_irq"
  /\ IF InterruptBuild
       THEN /\ IF HasIrqGpio THEN Mask ELSE UNCHANGED <<irq_on, edge>>
            /\ UNCHANGED timer_on
       ELSE timer_on' = FALSE /\ UNCHANGED <<irq_on, edge>>
  /\ ctl' = "suspended"
  /\ UNCHANGED <<chipVars, drain_sem, threadVars, drained, abandoned>>

ResumeT7 ==
  /\ ctl = "suspended" /\ ~i2c_lock
  /\ asleep' \in {asleep, FALSE}
  /\ ctl' = "res_irq"
  /\ UNCHANGED <<build, pending, irqVars, threadVars, drained, abandoned>>

ResumeIrq ==
  /\ ctl = "res_irq"
  /\ StartWakeups
  /\ ctl' = "res_drain"
  /\ UNCHANGED <<chipVars, drain_sem, threadVars, drained, abandoned>>

\* mxt_drain_messages, one locked T5 read per step.  It ends when a read finds
\* no message, when a read fails, or after DrainLimit messages; init then goes
\* on to start the thread, resume to return.
AfterDrain == IF ctl = "boot_drain" THEN "boot_spawn" ELSE "active"

DrainRead ==
  /\ ctl \in {"boot_drain", "res_drain"} /\ ~i2c_lock
  /\ pending > 0 /\ drained < DrainLimit
  /\ pending' = pending - 1
  /\ drained' = drained + 1
  /\ UNCHANGED <<build, asleep, irqVars, threadVars, ctl, abandoned>>

DrainEmpty ==
  /\ ctl \in {"boot_drain", "res_drain"} /\ ~i2c_lock
  /\ pending = 0
  /\ drained' = 0
  /\ ctl' = AfterDrain
  /\ UNCHANGED <<chipVars, irqVars, threadVars, abandoned>>

DrainStops ==
  /\ ctl \in {"boot_drain", "res_drain"}
  /\ \/ drained < DrainLimit /\ ~i2c_lock    \* the read fails
     \/ drained = DrainLimit                 \* the loop is over
  /\ drained' = 0
  /\ ctl' = AfterDrain
  /\ abandoned' = (abandoned \/ (ctl = "boot_drain" /\ pending > 0))
  /\ UNCHANGED <<chipVars, irqVars, threadVars>>

Control ==
  \/ BootArm \/ BootFails \/ BootSpawn \/ SuspendT7 \/ SuspendIrq
  \/ ResumeT7 \/ ResumeIrq \/ DrainRead \/ DrainEmpty \/ DrainStops

(***************************************************************************)
(* The specification starts in mxt_init after the reset, the first drain   *)
(* and the configuration writes: any number of messages may have come in   *)
(* since, and the port may or may not have latched the edge of the first.  *)
(***************************************************************************)
Init ==
  /\ build \in Builds
  /\ pending \in 0..QueueCap
  /\ asleep = FALSE
  /\ edge \in BOOLEAN
  /\ edge => PullUp /\ LatchesMasked /\ pending > 0
  /\ irq_on = FALSE
  /\ timer_on = FALSE
  /\ drain_sem = 0
  /\ i2c_lock = FALSE
  /\ pc = "unborn"
  /\ tries = 0
  /\ passes = 0
  /\ count = 0
  /\ ctl = "boot_arm"
  /\ drained = 0
  /\ abandoned = FALSE

Next ==
  \/ Arrive \/ SpuriousEdge \/ IrqHandler \/ TimerHandler
  \/ DrainThread \/ Control

Spec == Init /\ [][Next]_vars

(***************************************************************************)
(* Fairness.  An enabled interrupt is taken, the timer expires, the kernel *)
(* runs a ready drain thread (the only other threads sleep between         *)
(* frames), and init and a started PM call go on.  Nothing obliges the     *)
(* controller to report or power management to suspend or resume.          *)
(***************************************************************************)
Fairness ==
  /\ WF_vars(IrqHandler)
  /\ WF_vars(TimerHandler)
  /\ WF_vars(DrainThread)
  /\ WF_vars(BootArm \/ BootFails \/ BootSpawn \/ SuspendIrq \/ ResumeIrq
             \/ DrainRead \/ DrainEmpty \/ DrainStops)

FairSpec == Spec /\ Fairness

(***************************************************************************)
(* Properties.                                                             *)
(***************************************************************************)

FlagsOK ==
  /\ asleep \in BOOLEAN
  /\ edge \in BOOLEAN
  /\ irq_on \in BOOLEAN
  /\ timer_on \in BOOLEAN
  /\ i2c_lock \in BOOLEAN
  /\ abandoned \in BOOLEAN

CountersOK ==
  /\ pending \in 0..QueueCap
  /\ drain_sem \in 0..1
  /\ tries \in 0..MaxTries
  /\ passes \in 0..MaxPasses
  /\ count \in 0..MaxBatch
  /\ drained \in 0..DrainLimit

LabelsOK == pc \in Labels /\ ctl \in CtlLabels

\* Every variable stays in its range (mxt_data and the locals of the drain).
TypeOK == build \in Builds /\ FlagsOK /\ CountersOK /\ LabelsOK

\* The lock held from the T44 read to the T5 read (microchip_maxtouch.c:661,
\* 691) makes the counted messages still be there when they are read in bulk:
\* neither the drain of resume nor that of init can take them in between, so no
\* filler bytes are processed as messages.
CountedMessagesArePresent == pc = "t5" => count <= pending

\* The wiring the interrupt build relies on.
ReliableWiring == InterruptBuild => HasIrqGpio /\ PullUp /\ LatchesMasked

Idle == pc = "wait" /\ drain_sem = 0 /\ ctl = "active"

\* No message is stranded: on such wiring, and in a polling build, while the
\* driver waits and is not suspended, a queued message has a wakeup coming (a
\* latched edge on an unmasked pin, or the poll timer), unless the last drain
\* had knowingly stopped on it.  A message that comes in between the CHG test
\* (:741) and the re-arm (:746) is the case a test hardly reaches, and suspend,
\* resume and boot race with it.
NoMessageStranded ==
  ReliableWiring /\ Idle /\ pending > 0
    => (irq_on /\ edge) \/ timer_on \/ abandoned

\* The ONESHOT pattern (:706, :784): the interrupt is unmasked only while the
\* drain thread has nothing to do, so it cannot fire in the middle of a drain.
\* (Resume unmasks it without regard to the thread, so not with PmBuild.)
OneShot == irq_on /\ ~PmBuild => pc \in {"unborn", "wait"} /\ drain_sem = 0

\* Every drain ends, even on a CHG line that never deasserts (:726).
DrainReturns == pc \notin {"unborn", "wait"} ~> pc = "wait"

\* A reported message makes the driver process messages, or ends in a drain
\* that stopped on it (:727-730), when nobody suspends the driver.  Only where
\* mxt_init failed on the pin (:1052-1078), and no driver runs, is it left.
MessagesServed ==
  /\ InterruptBuild /\ ReliableWiring /\ ~PmBuild
  /\ pending > 0
  ~> pc = "process" \/ abandoned \/ pending = 0 \/ ctl = "failed"
=============================================================================
