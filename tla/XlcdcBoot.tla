----------------------------- MODULE XlcdcBoot -----------------------------
(***************************************************************************)
(* The display from reset to main's loop: the init functions of the LVDS   *)
(* bridge, the controller and its layers in the order of their priorities, *)
(* and the start of main (microchip_sam_lvdsc.c:35-82,                     *)
(* microchip_sam_xlcdc.c:330-599, microchip_sam_xlcdc_layer.c:1085-1186,   *)
(* app/src/main.c:402-437).                                                *)
(*                                                                         *)
(* One thread does it all, against hardware that takes its time.  Settings *)
(* nothing waits for (timing, polarity, analog control) have no state.     *)
(* Every wait for LCDSR.SIP gives up after a while and its result is       *)
(* ignored: such a wait is no step.                                        *)
(***************************************************************************)
EXTENDS XlcdcPll, FiniteSets, Sequences

CONSTANTS
  Layers,            \* layer devices of the devicetree, named for their types
  Chosen,            \* zephyr,display
  NoAlloc,           \* layers with no-alloc-framebuffer
  DisplayPriority,   \* CONFIG_DISPLAY_INIT_PRIORITY       (85)
  BridgePriorities,  \* ..._SAM_LVDSC_INIT_PRIORITY        (79 by default)
  LayerPriorities,   \* CONFIG_XLCDC_LAYER_INIT_PRIORITY   (86 by default)
  PixelClocks,       \* clock-frequency of the display timings considered
  HeapSizes,         \* frame buffers the heap has room for
  Boards             \* sets of options of the boards and builds considered

\* What a board can have; the operators below name each.
Options == {"port", "ovr2", "double_buffer", "touch", "loader_clock", "answers"}

ASSUME BootAssumption ==
  /\ Layers \subseteq {"base", "ovr1", "heo", "ovr2"}
  /\ Chosen \in Layers /\ NoAlloc \subseteq Layers
  /\ DisplayPriority \in Nat
  /\ BridgePriorities \subseteq Nat /\ LayerPriorities \subseteq Nat
  /\ PixelClocks \subseteq Nat /\ HeapSizes \subseteq Nat
  /\ Boards \subseteq SUBSET Options

VARIABLES
  board,        \* what is wired and configured; never changes
  untried,      \* devices whose init function has not been called
  ready,        \* devices whose init function returned 0
  current,      \* the one whose init function runs
  pc,           \* where that, or main, is
  turn,         \* the layer to enable, or the stage to start, next
  heap,         \* frame buffers that can still be allocated
  serializer,   \* of the bridge: "on", "stopping" or "off"
  pll,          \* what LVDSPLL is set to, and whether it has locked
  attre,        \* layers with a committed setting still to be taken over
  enabled,      \* layers the controller shows
  lcden, lcdsr  \* stages asked for and status bits

devices == <<untried, ready, current>>
clockVars == <<serializer, pll>>
layerVars == <<attre, enabled>>
stageVars == <<lcden, lcdsr>>
vars == <<board, devices, pc, turn, heap, clockVars, layerVars, stageVars>>

HasPort == "port" \in board.options         \* cfg->bridge != NULL
HasOvr2 == "ovr2" \in board.options         \* has_ovr2, LCDC_OVR2CFG0_BLEN_Pos
DoubleBuffer == "double_buffer" \in board.options  \* ..._XLCDC_DOUBLE_BUFFER
TouchReady == "touch" \in board.options     \* touch and backlight pin ready
LoaderClock == "loader_clock" \in board.options   \* LVDSPLL runs at reset
Answers == "answers" \in board.options      \* the hardware does what it is told

Nothing == "nothing"
NoSetting == [divpmc |-> 0, mul |-> 0, fracr |-> 0]

Devices == (IF HasPort THEN {"bridge"} ELSE {}) \cup {"controller"} \cup Layers

Priority(d) == CASE d = "bridge" -> board.bridge_priority
                 [] d = "controller" -> DisplayPriority
                 [] OTHER -> board.layer_priority

\* The layers xlcdc_pre_enable_layers commits, in its order.
PreEnabled == IF HasOvr2 THEN <<"base", "ovr1", "heo", "ovr2">>
                         ELSE <<"base", "ovr1", "heo">>

\* The stages xlcdc_start goes through: CLKEN, SYNCEN, DISPEN and SDEN.
Stages == <<"clk", "sync", "disp", "sd">>
StatusBits == {"clk", "sync", "disp", "sd", "pwm"}   \* .. and the backlight

\* CLKSTS, LCDSTS, DISPSTS say that a stage runs, SDSTS that it does not.
Runs(stage) == IF stage = "sd" THEN "sd" \notin lcdsr ELSE stage \in lcdsr
PipelineRuns == \A i \in DOMAIN Stages : Runs(Stages[i])

\* A boot loader may have left the serializer on and a picture on the screen.
Init ==
  /\ board \in [options : Boards, pixel_clk : PixelClocks,
                bridge_priority : BridgePriorities,
                layer_priority : LayerPriorities]
  /\ untried = Devices /\ ready = {} /\ current = Nothing
  /\ pc = "between" /\ turn = 0
  /\ heap \in HeapSizes
  /\ serializer \in {"on", "off"}
  /\ pll = [set |-> NoSetting, locked |-> FALSE]
  /\ attre = {} /\ enabled = {}
  /\ lcden = {} /\ lcdsr = {"sd"}

(***************************************************************************)
(* The hardware (external).                                                *)
(***************************************************************************)
SerializerStops ==
  /\ serializer = "stopping"
  /\ serializer' = "off"
  /\ UNCHANGED <<board, devices, pc, turn, heap, pll, layerVars, stageVars>>

PllLocks ==
  /\ pll.set # NoSetting /\ ~pll.locked
  /\ pll' = [pll EXCEPT !.locked = TRUE]
  /\ UNCHANGED <<board, devices, pc, turn, heap, serializer, layerVars,
                 stageVars>>

\* Without a setting a boot loader's clock drives the controller, or none does.
ClockRuns == IF pll.set = NoSetting THEN LoaderClock ELSE pll.locked

TakeAttributes ==
  /\ ClockRuns /\ attre # {}
  /\ attre' = {} /\ enabled' = enabled \cup attre
  /\ UNCHANGED <<board, devices, pc, turn, heap, clockVars, stageVars>>

StageFollows(stage) ==
  /\ ClockRuns /\ stage \in lcden /\ ~Runs(stage)
  /\ lcdsr' = IF stage = "sd" THEN lcdsr \ {stage} ELSE lcdsr \cup {stage}
  /\ UNCHANGED <<board, devices, pc, turn, heap, clockVars, layerVars, lcden>>

Hardware ==
  \/ SerializerStops \/ PllLocks \/ TakeAttributes
  \/ \E stage \in StatusBits : StageFollows(stage)

(***************************************************************************)
(* The kernel calls the init functions by priority, those of one priority  *)
(* in an order the linker chose.                                           *)
(***************************************************************************)
Entry(d) == CASE d = "bridge" -> "bridge"
              [] d = "controller" -> "controller"
              [] OTHER -> "layer"

Call(d) ==
  /\ pc = "between" /\ d \in untried
  /\ \A other \in untried : Priority(d) <= Priority(other)
  /\ untried' = untried \ {d} /\ current' = d
  /\ pc' = Entry(d)
  /\ UNCHANGED <<board, ready, turn, heap, clockVars, layerVars, stageVars>>

Return(ok) ==
  /\ pc' = "between" /\ current' = Nothing /\ turn' = 0
  /\ ready' = IF ok THEN ready \cup {current} ELSE ready
  /\ UNCHANGED untried

Goto(label) == pc' = label /\ UNCHANGED <<devices, turn>>
GotoTurn(label, n) == pc' = label /\ turn' = n /\ UNCHANGED devices

(***************************************************************************)
(* microchip_sam_lvdsc_init.                                               *)
(***************************************************************************)
BridgeOff ==
  /\ pc = "bridge"
  /\ serializer' = IF serializer = "on" THEN "stopping" ELSE serializer
  /\ Goto("bridge_wait")
  /\ UNCHANGED <<board, heap, pll, layerVars, stageVars>>

BridgeOn ==
  /\ pc = "bridge_wait" /\ serializer = "off"
  /\ serializer' = "on"
  /\ Return(TRUE)
  /\ UNCHANGED <<board, heap, pll, layerVars, stageVars>>

(***************************************************************************)
(* microchip_sam_xlcdc_init.                                               *)
(***************************************************************************)
CheckBridge ==
  /\ pc = "controller"
  /\ IF HasPort /\ "bridge" \notin ready THEN Return(FALSE) ELSE Goto("pll")
  /\ UNCHANGED <<board, heap, clockVars, layerVars, stageVars>>

\* Without a divider xlcdc_setup_lvdspll logs an error and its caller goes on.
SetPll ==
  /\ pc = "pll"
  /\ IF Dividers(board.pixel_clk) = {}
       THEN /\ GotoTurn("pre_enable", 1) /\ UNCHANGED pll
       ELSE /\ pll' = [set |-> Setting(board.pixel_clk), locked |-> FALSE]
            /\ Goto("lock")
  /\ UNCHANGED <<board, heap, serializer, layerVars, stageVars>>

AwaitLock ==
  /\ pc = "lock" /\ pll.locked
  /\ GotoTurn("pre_enable", 1)
  /\ UNCHANGED <<board, heap, clockVars, layerVars, stageVars>>

PreEnable ==
  /\ pc = "pre_enable"
  /\ attre' = attre \cup {PreEnabled[turn]}
  /\ Goto("pre_enable_wait")
  /\ UNCHANGED <<board, heap, clockVars, enabled, stageVars>>

\* Broken on purpose: the controller's answer is not waited for.
NoWaitTaken ==
  /\ pc = "pre_enable_wait"
  /\ IF turn < Len(PreEnabled) THEN GotoTurn("pre_enable", turn + 1)
                               ELSE GotoTurn("start", 1)
  /\ UNCHANGED <<board, heap, clockVars, layerVars, stageVars>>

\* ATTRS.SIP, without a timeout here.
AwaitTaken ==
  /\ pc = "pre_enable_wait" /\ attre = {}
  /\ IF turn < Len(PreEnabled) THEN GotoTurn("pre_enable", turn + 1)
                               ELSE GotoTurn("start", 1)
  /\ UNCHANGED <<board, heap, clockVars, layerVars, stageVars>>

StartStage ==
  /\ pc = "start"
  /\ lcden' = lcden \cup {Stages[turn]}
  /\ Goto("start_wait")
  /\ UNCHANGED <<board, heap, clockVars, layerVars, lcdsr>>

\* Broken on purpose: SDSTS is read like the other status bits.
AwaitBit ==
  /\ pc = "start_wait" /\ Stages[turn] \in lcdsr
  /\ IF turn < Len(Stages) THEN GotoTurn("start", turn + 1) ELSE Return(TRUE)
  /\ UNCHANGED <<board, heap, clockVars, layerVars, stageVars>>

\* .. then the frame interrupt is switched on, which has nobody to call yet.
AwaitStage ==
  /\ pc = "start_wait" /\ Runs(Stages[turn])
  /\ IF turn < Len(Stages) THEN GotoTurn("start", turn + 1) ELSE Return(TRUE)
  /\ UNCHANGED <<board, heap, clockVars, layerVars, stageVars>>

(***************************************************************************)
(* xlcdc_layer_init.                                                       *)
(***************************************************************************)
\* Broken on purpose: the layer does not ask for its controller.
CheckNoParent ==
  /\ pc = "layer"
  /\ Goto("allocate")
  /\ UNCHANGED <<board, heap, clockVars, layerVars, stageVars>>

CheckParent ==
  /\ pc = "layer"
  /\ IF "controller" \in ready THEN Goto("allocate") ELSE Return(FALSE)
  /\ UNCHANGED <<board, heap, clockVars, layerVars, stageVars>>

\* Broken on purpose: a failed allocation is noticed too late.
AllocateAnyway ==
  LET wanted == IF current \in NoAlloc THEN 0
                ELSE IF DoubleBuffer THEN 2 ELSE 1
  IN /\ pc = "allocate"
     /\ heap' = heap - wanted
     /\ IF wanted <= heap /\ (current = "ovr2" => HasOvr2)
          THEN Goto("commit") ELSE Return(FALSE)
     /\ UNCHANGED <<board, clockVars, layerVars, stageVars>>

\* An init that fails for its second buffer, or as an unknown layer, keeps the
\* buffers it got.
Allocate ==
  LET wanted == IF current \in NoAlloc THEN 0
                ELSE IF DoubleBuffer THEN 2 ELSE 1
  IN /\ pc = "allocate"
     /\ heap' = IF wanted <= heap THEN heap - wanted ELSE 0
     /\ IF wanted <= heap /\ (current = "ovr2" => HasOvr2)
          THEN Goto("commit") ELSE Return(FALSE)
     /\ UNCHANGED <<board, clockVars, layerVars, stageVars>>

\* With timeouts before and after: the setting may be taken after the return.
CommitLayer ==
  /\ pc = "commit"
  /\ attre' = attre \cup {current}
  /\ Return(TRUE)
  /\ UNCHANGED <<board, heap, clockVars, enabled, stageVars>>

(***************************************************************************)
(* main.                                                                   *)
(***************************************************************************)
MainChecks ==
  /\ pc = "between" /\ untried = {}
  /\ Goto(IF Chosen \in ready /\ TouchReady THEN "ui" ELSE "no_device")
  /\ UNCHANGED <<board, heap, clockVars, layerVars, stageVars>>

\* display_blanking_off: the DMA, and for the base layer the backlight.
BlankingOff ==
  /\ pc = "ui"
  /\ attre' = attre \cup {Chosen}
  /\ IF Chosen = "base" THEN lcden' = lcden \cup {"pwm"} /\ Goto("pwm_wait")
                        ELSE Goto("loop") /\ UNCHANGED lcden
  /\ UNCHANGED <<board, heap, clockVars, enabled, lcdsr>>

AwaitPwm ==
  /\ pc = "pwm_wait" /\ Runs("pwm")
  /\ Goto("loop")
  /\ UNCHANGED <<board, heap, clockVars, layerVars, stageVars>>

BootStep ==
  \/ \E d \in Devices : Call(d)
  \/ BridgeOff \/ BridgeOn
  \/ CheckBridge \/ SetPll \/ AwaitLock
  \/ PreEnable \/ AwaitTaken \/ StartStage \/ AwaitStage
  \/ CheckParent \/ Allocate \/ CommitLayer
  \/ MainChecks \/ BlankingOff \/ AwaitPwm

Next == BootStep \/ Hardware

Spec == Init /\ [][Next]_vars

\* The boot thread runs, and on a board that answers so does the hardware.
FairSpec == Spec /\ WF_vars(BootStep) /\ WF_vars(Answers /\ Hardware)

-----------------------------------------------------------------------------

Labels == {"between", "bridge", "bridge_wait", "controller", "pll", "lock",
           "pre_enable", "pre_enable_wait", "start", "start_wait", "layer",
           "allocate", "commit", "ui", "pwm_wait", "loop", "no_device"}

\* Every variable stays in its range.
TypeOK ==
  /\ untried \subseteq Devices /\ ready \subseteq Devices
  /\ untried \cap ready = {}
  /\ current \in (Devices \ (untried \cup ready)) \cup {Nothing}
  /\ pc \in Labels
  /\ turn \in 0..4
  /\ heap \in Nat
  /\ serializer \in {"on", "stopping", "off"}
  /\ pll.locked \in BOOLEAN
  /\ attre \subseteq {"base", "ovr1", "heo", "ovr2"}
  /\ enabled \subseteq {"base", "ovr1", "heo", "ovr2"}
  /\ lcden \subseteq StatusBits /\ lcdsr \subseteq StatusBits

\* A PLL that is set makes seven times the pixel clock, to the last bit of its
\* fraction, from a core clock in its range (microchip_sam_xlcdc.c:330-369).
PllIsExact == pll.set # NoSetting => IsExact(pll.set, board.pixel_clk)

\* The pipeline is started last: when its first stage is asked for, the bridge
\* it feeds serialises, a PLL that was set has locked, and the controller has
\* taken over the enable bit of every layer it has
\* (microchip_sam_xlcdc.c:466-476, Kconfig:61-63).
PipelineStartsLast ==
  "clk" \in lcden =>
    /\ HasPort => serializer = "on"
    /\ pll.set # NoSetting => pll.locked
    /\ \A i \in DOMAIN PreEnabled : PreEnabled[i] \in enabled

\* main draws only on a screen that shows it: the init functions below the
\* chosen layer have succeeded, whatever the priorities, the heap and the
\* linker made of them, and the pipeline runs (main.c:423-435).
UiHasScreen ==
  pc \in {"ui", "pwm_wait", "loop"} =>
    /\ PipelineRuns /\ "controller" \in ready
    /\ Chosen \in enabled
    /\ HasPort => "bridge" \in ready

WellConfigured ==
  /\ Answers /\ TouchReady
  /\ LoaderClock \/ Dividers(board.pixel_clk) # {}
  /\ HasPort => board.bridge_priority < DisplayPriority
  /\ DisplayPriority < board.layer_priority
  /\ Chosen = "ovr2" => HasOvr2
  /\ heap >= 2 * Cardinality(Layers \ NoAlloc)

\* On hardware that answers, with a pixel clock that can be made, the priorities
\* Kconfig asks for and enough heap, main reaches its loop: no wait without a
\* timeout is for what has passed or for what only a later step brings about.
BootSucceeds == WellConfigured ~> pc = "loop"
=============================================================================
