-------------------------- MODULE XlcdcBootProofs --------------------------
(***************************************************************************)
(* For every pixel clock, crystal and size: which pixel clocks LVDSPLL can *)
(* make, that its setting makes them, and what the 32-bit scaling factor   *)
(* of the HEO layer is.  For every set of layers, priorities, heap sizes,  *)
(* pixel clocks and wirings: the pipeline starts last, on a clock that is  *)
(* exact, and main draws only on a screen that works.                      *)
(*                                                                         *)
(* The invariant of the start-up has four parts, each inductive given      *)
(* those before it: whose init function the program counter is in, what    *)
(* has been prepared when the pipeline starts, what a device that is ready *)
(* can count on, and the ranges of what the others do not speak of.        *)
(***************************************************************************)
EXTENDS XlcdcBoot, XlcdcScaler, WellFoundedInduction, TLAPS

\* Multiplication by a natural number keeps the order.
LEMMA ProductOrder ==
  ASSUME NEW a \in Nat, NEW b \in Nat, NEW p \in Nat, a <= b
  PROVE  a * p <= b * p
<1>1. PICK c \in Nat : b = a + c
  BY b - a \in Nat, b = a + (b - a)
<1>2. b * p = a * p + c * p
  BY <1>1
<1>3. c * p \in Nat /\ a * p \in Nat
  OBVIOUS
<1>4. QED
  BY <1>2, <1>3

\* Division by a positive number leaves a remainder below it.
LEMMA Division ==
  ASSUME NEW a \in Nat, NEW p \in Nat \ {0}
  PROVE  /\ a \div p \in Nat
         /\ p * (a \div p) <= a
         /\ a < p * (a \div p) + p
  BY Z3

\* Quotient and remainder are unique.
LEMMA Remainder ==
  ASSUME NEW a \in Nat, NEW w \in Nat \ {0}, NEW q \in Nat,
         NEW r \in 0..(w - 1), a = w * q + r
  PROVE  a % w = r
<1> DEFINE d == a \div w
           m == a % w
<1>1. d \in Nat /\ m \in 0..(w - 1) /\ a = w * d + m
  BY Z3
<1> HIDE DEF d, m
<1>2. ~ (d < q)
  <2>1. SUFFICES ASSUME d < q PROVE FALSE
    OBVIOUS
  <2>2. (d + 1) * w <= q * w
    BY <1>1, <2>1, ProductOrder
  <2>3. w * d + w <= w * q
    BY <1>1, <2>2, Z3
  <2>4. QED
    BY <1>1, <2>3, Z3
<1>3. ~ (q < d)
  <2>1. SUFFICES ASSUME q < d PROVE FALSE
    OBVIOUS
  <2>2. (q + 1) * w <= d * w
    BY <1>1, <2>1, ProductOrder
  <2>3. w * q + w <= w * d
    BY <1>1, <2>2, Z3
  <2>4. QED
    BY <1>1, <2>3, Z3
<1>4. d = q
  BY <1>1, <1>2, <1>3
<1>5. m = r
  BY <1>1, <1>4, Z3
<1>6. QED
  BY <1>5 DEF m

\* A set of natural numbers that is not empty has a least element.
LEMMA LeastElement ==
  ASSUME NEW S, S \subseteq Nat, S # {}
  PROVE  \E x \in S : \A y \in S : x <= y
<1> DEFINE R == OpToRel(<, Nat)
<1>1. IsWellFoundedOn(R, Nat)
  BY NatLessThanWellFounded, Zenon
<1>2. \A x, y \in Nat : x < y => <<x, y>> \in R
  BY Zenon DEF OpToRel
<1> HIDE DEF R
<1>3. PICK x \in S : \A y \in S : ~ (<<y, x>> \in R)
  BY <1>1, WFMin, Zenon
<1>4. \A y \in S : ~ (y < x)
  BY <1>2, <1>3, Zenon
<1>5. QED
  BY <1>4

-----------------------------------------------------------------------------

\* The search finds a divider for every pixel clock whose sevenfold lies between
\* CoreMin / MaxDiv and CoreMax: the range is an octave, so the first multiple
\* that reaches CoreMin does not pass CoreMax.  For these the initialisation
\* never goes on without a clock (:312-316).
THEOREM DividerExists ==
  ASSUME NEW pixel_clk \in Nat,
         CoreMin <= PllOut(pixel_clk) * MaxDiv,
         PllOut(pixel_clk) <= CoreMax
  PROVE  Dividers(pixel_clk) # {}
<1> DEFINE p == PllOut(pixel_clk)
<1>1. p \in Nat \ {0}
  BY PllAssumption DEF PllOut
<1>2. CASE CoreMin <= p
  <2>1. p * 1 = p /\ 1 \in 1..MaxDiv
    BY <1>1, PllAssumption
  <2>2. QED
    BY <1>2, <2>1 DEF Dividers, InCoreRange
<1>3. CASE p < CoreMin
  <2> DEFINE q == (CoreMin - 1) \div p
  <2>1. CoreMin - 1 \in Nat
    BY PllAssumption
  <2>2. q \in Nat /\ p * q <= CoreMin - 1 /\ CoreMin - 1 < p * q + p
    BY <1>1, <2>1, Division
  <2> HIDE DEF q
  <2>3. p * (q + 1) = p * q + p
    BY <1>1, <2>2
  <2>4. InCoreRange(p * (q + 1))
    BY <1>1, <1>3, <2>2, <2>3, PllAssumption DEF InCoreRange
  <2>5. q < MaxDiv
    <3>1. SUFFICES ASSUME MaxDiv <= q PROVE FALSE
      BY <2>2, PllAssumption
    <3>2. MaxDiv * p <= q * p
      BY <1>1, <2>2, <3>1, ProductOrder, PllAssumption
    <3>3. QED
      BY <1>1, <2>2, <3>2, PllAssumption
  <2>6. q + 1 \in 1..MaxDiv
    BY <2>2, <2>5, PllAssumption
  <2>7. QED
    BY <2>4, <2>6 DEF Dividers
<1>4. QED
  BY <1>1, <1>2, <1>3, PllAssumption

\* The divider the loop stops at is one that suits.
LEMMA FirstDividerSuits ==
  ASSUME NEW pixel_clk, Dividers(pixel_clk) # {}
  PROVE  FirstDivider(pixel_clk) \in Dividers(pixel_clk)
<1>1. Dividers(pixel_clk) \subseteq Nat
  BY DEF Dividers
<1>2. \E d \in Dividers(pixel_clk) :
        \A other \in Dividers(pixel_clk) : d <= other
  BY <1>1, LeastElement
<1>3. QED
  BY <1>2, Zenon DEF FirstDivider

\* For every pixel clock with a divider, MUL and FRACR fit their fields and the
\* core clock they make is the wanted one or less than Xtal / FracUnit below it
\* (:318-322): neither truncating division loses more than the last bit.
THEOREM SettingIsExact ==
  ASSUME NEW pixel_clk \in Nat, Dividers(pixel_clk) # {}
  PROVE  IsExact(Setting(pixel_clk), pixel_clk)
<1> DEFINE d == FirstDivider(pixel_clk)
           core == PllOut(pixel_clk) * d
           mul == core \div Xtal
           rest == core - mul * Xtal
           fracr == (rest * FracUnit) \div Xtal
<1>1. d \in 1..MaxDiv /\ InCoreRange(core)
  BY FirstDividerSuits DEF Dividers
<1>2. core \in Nat /\ CoreMin <= core
  <2>1. PllOut(pixel_clk) \in Nat
    BY DEF PllOut
  <2>2. QED
    BY <1>1, <2>1, PllAssumption DEF InCoreRange
<1>3. Setting(pixel_clk) = [divpmc |-> d, mul |-> mul, fracr |-> fracr]
  BY DEF Setting
<1> HIDE DEF d, core
<1>4. mul \in Nat /\ Xtal * mul <= core /\ core < Xtal * mul + Xtal
  BY <1>2, Division, PllAssumption
<1>5. mul >= 1
  <2>1. SUFFICES ASSUME mul = 0 PROVE FALSE
    BY <1>4
  <2>2. Xtal * mul = 0
    BY <2>1, PllAssumption
  <2>3. QED
    BY <1>2, <1>4, <2>2, PllAssumption
<1> HIDE DEF mul
<1>6. mul * Xtal = Xtal * mul /\ mul * Xtal \in Nat
  BY <1>4, PllAssumption
<1>7. rest \in Nat /\ rest < Xtal
  BY <1>2, <1>4, <1>6, PllAssumption
<1> HIDE DEF rest
<1>8. rest * FracUnit \in Nat
  BY <1>7, PllAssumption
<1>9. /\ fracr \in Nat
      /\ Xtal * fracr <= rest * FracUnit
      /\ rest * FracUnit < Xtal * fracr + Xtal
  BY <1>8, Division, PllAssumption
<1> HIDE DEF fracr
<1>10. fracr < FracUnit
  <2>1. SUFFICES ASSUME FracUnit <= fracr PROVE FALSE
    BY <1>9, PllAssumption
  <2>2. FracUnit * Xtal <= fracr * Xtal
    BY <1>9, <2>1, ProductOrder, PllAssumption
  <2>3. (rest + 1) * FracUnit <= Xtal * FracUnit
    BY <1>7, ProductOrder, PllAssumption
  <2>4. (rest + 1) * FracUnit = rest * FracUnit + FracUnit
    BY <1>7, PllAssumption
  <2>5. /\ FracUnit * Xtal = Xtal * FracUnit
        /\ fracr * Xtal = Xtal * fracr
        /\ Xtal * FracUnit \in Nat /\ Xtal * fracr \in Nat
    BY <1>9, PllAssumption
  <2>6. QED
    BY <1>8, <1>9, <2>2, <2>3, <2>4, <2>5, PllAssumption
<1>11. core * FracUnit - Xtal * (mul * FracUnit + fracr)
         = rest * FracUnit - Xtal * fracr
  <2>1. core = mul * Xtal + rest
    BY <1>2, <1>6 DEF rest
  <2>2. core * FracUnit = (mul * Xtal) * FracUnit + rest * FracUnit
    BY <1>6, <1>7, <2>1, PllAssumption
  <2>3. Xtal * (mul * FracUnit + fracr)
          = Xtal * (mul * FracUnit) + Xtal * fracr
    BY <1>4, <1>9, PllAssumption
  <2>4. (mul * Xtal) * FracUnit = Xtal * (mul * FracUnit)
    BY <1>4, PllAssumption
  <2>5. Xtal * (mul * FracUnit) \in Nat /\ Xtal * fracr \in Nat
    BY <1>4, <1>9, PllAssumption
  <2>6. QED
    BY <1>8, <2>2, <2>3, <2>4, <2>5
<1>12. 0 <= rest * FracUnit - Xtal * fracr
       /\ rest * FracUnit - Xtal * fracr < Xtal
  <2>1. Xtal * fracr \in Nat
    BY <1>9, PllAssumption
  <2>2. QED
    BY <1>8, <1>9, <2>1, PllAssumption
<1>13. QED
  BY <1>1, <1>3, <1>5, <1>9, <1>10, <1>11, <1>12, PllAssumption
     DEF IsExact, core

-----------------------------------------------------------------------------

\* Shifting keeps the part of a source size that fits and drops the rest.
LEMMA ShiftDropsTop ==
  ASSUME Unity \in Nat \ {0}, Wide \in Nat \ {0}, NEW src \in Nat
  PROVE  Shifted(src) = (src % Wide) * Unity
<1> DEFINE q == src \div Wide
           r == src % Wide
<1>1. q \in Nat /\ r \in 0..(Wide - 1) /\ src = Wide * q + r
  BY Z3
<1> HIDE DEF q, r
<1>2. Word \in Nat \ {0}
  BY Z3 DEF Word
<1>3. src * Unity = Word * q + r * Unity
  BY <1>1, Z3 DEF Word
<1>4. r * Unity \in 0..(Word - 1)
  <2>1. (r + 1) * Unity <= Wide * Unity
    BY <1>1, ProductOrder
  <2>2. r * Unity + Unity <= Word /\ r * Unity \in Nat
    BY <1>1, <2>1, Z3 DEF Word
  <2>3. QED
    BY <1>2, <2>2
<1>5. (src * Unity) % Word = r * Unity
  BY <1>1, <1>2, <1>3, <1>4, Remainder
<1>6. QED
  BY <1>5 DEF Shifted, r

\* Hazard (layer.c:816): the shift must not lose bits of a size in use. For a
\* source below Wide the factor is the ratio, cut off behind its last
\* fractional bit: the pixel fetched for the end of the window is never behind
\* the end of the source, and short of it by less than one unit of the last bit
\* per pixel of the window.
THEOREM FactorIsRatio ==
  ASSUME Unity \in Nat \ {0}, Wide \in Nat \ {0},
         NEW src \in 1..(Wide - 1), NEW dst \in Nat \ {0}
  PROVE  /\ ScaleFactor(src, dst) \in Nat
         /\ dst * ScaleFactor(src, dst) <= src * Unity
         /\ src * Unity < dst * ScaleFactor(src, dst) + dst
<1>1. src % Wide = src
  BY Z3
<1>2. CASE src = dst
  BY <1>2, Z3 DEF ScaleFactor
<1>3. CASE src # dst
  <2>1. ScaleFactor(src, dst) = (src * Unity) \div dst
    BY <1>1, <1>3, ShiftDropsTop DEF ScaleFactor
  <2>2. src * Unity \in Nat
    BY Z3
  <2>3. QED
    BY <2>1, <2>2, Division
<1>4. QED
  BY <1>2, <1>3

\* Hazard (layer.c:816): a source of Wide pixels or more, which the 16-bit size
\* of a surface allows, is scaled as if it were a multiple of Wide pixels
\* smaller: one of exactly that many pixels gets the factor 0.
THEOREM WideSourceWraps ==
  ASSUME Unity \in Nat \ {0}, Wide \in Nat \ {0},
         NEW src \in Nat, NEW dst \in Nat \ {0}, src # dst
  PROVE  ScaleFactor(src, dst) = ((src % Wide) * Unity) \div dst
BY ShiftDropsTop DEF ScaleFactor

-----------------------------------------------------------------------------

ControllerLabels == {"controller", "pll", "lock", "pre_enable",
                     "pre_enable_wait", "start", "start_wait"}
Unlocked == {"controller", "pll", "lock"}
PreEnabling == {"pre_enable", "pre_enable_wait"}
Starting == {"start", "start_wait"}

\* The device whose init function runs is the current one, tried and not ready.
PcInv ==
  /\ untried \subseteq Devices /\ ready \subseteq Devices \ untried
  /\ current \in (Devices \ (untried \cup ready)) \cup {Nothing}
  /\ pc \in {"bridge", "bridge_wait"} => current = "bridge"
  /\ pc \in ControllerLabels => current = "controller"
  /\ pc \in {"layer", "allocate", "commit"} => current \in Layers

EnabledUpTo(n) == \A i \in 1..n : PreEnabled[i] \in enabled

\* What is prepared, from the moment it is until the pipeline has started.
OrderInv ==
  /\ HasPort /\ "bridge" \in ready => serializer = "on"
  /\ HasPort /\ \/ pc \in ControllerLabels \ {"controller"}
                \/ "clk" \in lcden
                \/ "controller" \in ready
       => "bridge" \in ready
  /\ pll.set # NoSetting /\ pc # "lock" => pll.locked
  /\ pc \in Starting \/ "clk" \in lcden \/ "controller" \in ready
       => EnabledUpTo(Len(PreEnabled))
  /\ pc \in PreEnabling =>
       turn \in 1..Len(PreEnabled) /\ EnabledUpTo(turn - 1)
  /\ pc = "pre_enable_wait" => PreEnabled[turn] \in attre \cup enabled
  /\ "clk" \in lcden => /\ "controller" \notin untried
                        /\ pc \notin Unlocked \cup PreEnabling

Shown == {"base", "ovr1", "heo"} \cup IF HasOvr2 THEN {"ovr2"} ELSE {}

RunUpTo(n) == \A i \in 1..n : Runs(Stages[i])

\* What a ready controller, a ready layer and main can count on.
ReadyInv ==
  /\ pc \in Starting => turn \in 1..4 /\ RunUpTo(turn - 1)
  /\ "controller" \in ready => RunUpTo(4)
  /\ pc \in {"allocate", "commit"} => "controller" \in ready
  /\ pc = "commit" => current \in Shown
  /\ \A l \in ready \cap Layers : "controller" \in ready /\ l \in Shown
  /\ pc \in {"ui", "pwm_wait", "loop"} => Chosen \in ready

AllLayers == {"base", "ovr1", "heo", "ovr2"}

\* The ranges the other parts do not speak of.
RangeInv ==
  /\ pc \in Labels /\ turn \in 0..4 /\ heap \in Nat
  /\ serializer \in {"on", "stopping", "off"}
  /\ DOMAIN pll = {"set", "locked"} /\ pll.locked \in BOOLEAN
  /\ attre \subseteq AllLayers /\ enabled \subseteq AllLayers
  /\ lcden \subseteq StatusBits /\ lcdsr \subseteq StatusBits

-----------------------------------------------------------------------------

\* The board, and with it the list of layers to enable, never changes.
LEMMA BoardKept ==
  ASSUME [Next]_vars
  PROVE  /\ board' = board
         /\ HasPort' = HasPort /\ HasOvr2' = HasOvr2
         /\ Devices' = Devices /\ PreEnabled' = PreEnabled /\ Shown' = Shown
<1>1. board' = board
  BY DEF Next, vars, BootStep, Hardware, SerializerStops, PllLocks,
    TakeAttributes, StageFollows, Call, BridgeOff, BridgeOn, CheckBridge,
    SetPll, AwaitLock, PreEnable, AwaitTaken, StartStage, AwaitStage,
    CheckParent, Allocate, CommitLayer, MainChecks, BlankingOff, AwaitPwm
<1>2. QED
  BY <1>1 DEF HasPort, HasOvr2, Devices, PreEnabled, Shown

\* What PreEnabled and Devices are made of.
LEMMA BoardFacts ==
  /\ Len(PreEnabled) \in 3..4 /\ DOMAIN PreEnabled = 1..Len(PreEnabled)
  /\ \A l \in Shown : \E i \in 1..Len(PreEnabled) : PreEnabled[i] = l
  /\ Layers \subseteq Devices /\ "controller" \in Devices
  /\ Devices \subseteq Layers \cup {"bridge", "controller"}
  /\ HasPort <=> "bridge" \in Devices
  /\ "bridge" \notin Layers /\ "controller" \notin Layers
  /\ Nothing \notin Devices
  /\ \A l \in Layers : l \in Shown \/ (l = "ovr2" /\ ~HasOvr2)
<1>1. CASE HasOvr2
  BY <1>1, BootAssumption DEF PreEnabled, Shown, Devices, Nothing
<1>2. CASE ~HasOvr2
  BY <1>2, BootAssumption DEF PreEnabled, Shown, Devices, Nothing
<1>3. QED
  BY <1>1, <1>2

\* A stage that runs keeps running.
LEMMA RunsKept ==
  ASSUME [Next]_vars, NEW i \in 1..4, Runs(Stages[i])
  PROVE  Runs(Stages[i])'
<1>1. ASSUME NEW stage \in StatusBits, StageFollows(stage)
      PROVE  Runs(Stages[i])'
  BY <1>1 DEF StageFollows, Runs, Stages
<1>2. CASE lcdsr' = lcdsr
  BY <1>2 DEF Runs, Stages
<1>3. lcdsr' = lcdsr \/ \E stage \in StatusBits : StageFollows(stage)
  BY DEF Next, vars, BootStep, Hardware, SerializerStops, PllLocks,
    TakeAttributes, Call, BridgeOff, BridgeOn, CheckBridge, stageVars,
    SetPll, AwaitLock, PreEnable, AwaitTaken, StartStage, AwaitStage,
    CheckParent, Allocate, CommitLayer, MainChecks, BlankingOff, AwaitPwm
<1>4. QED
  BY <1>1, <1>2, <1>3

\* PcInv is kept.
LEMMA PcStep ==
  ASSUME PcInv, [Next]_vars
  PROVE  PcInv'
<1> USE BoardKept, BoardFacts
    DEF PcInv, ControllerLabels, Goto, GotoTurn, Return, devices, Nothing
<1>1. CASE SerializerStops
  BY <1>1 DEF SerializerStops
<1>2. CASE PllLocks
  BY <1>2 DEF PllLocks
<1>3. CASE TakeAttributes
  BY <1>3 DEF TakeAttributes
<1>4. CASE BridgeOff
  BY <1>4 DEF BridgeOff
<1>5. CASE BridgeOn
  BY <1>5 DEF BridgeOn
<1>6. CASE CheckBridge
  BY <1>6 DEF CheckBridge
<1>7. CASE SetPll
  BY <1>7 DEF SetPll
<1>8. CASE AwaitLock
  BY <1>8 DEF AwaitLock
<1>9. CASE PreEnable
  BY <1>9 DEF PreEnable
<1>10. CASE AwaitTaken
  BY <1>10 DEF AwaitTaken
<1>11. CASE StartStage
  BY <1>11 DEF StartStage
<1>12. CASE AwaitStage
  BY <1>12 DEF AwaitStage
<1>13. CASE CheckParent
  BY <1>13 DEF CheckParent
<1>14. CASE Allocate
  BY <1>14 DEF Allocate
<1>15. CASE CommitLayer
  BY <1>15 DEF CommitLayer
<1>16. CASE MainChecks
  BY <1>16 DEF MainChecks
<1>17. CASE BlankingOff
  BY <1>17 DEF BlankingOff
<1>18. CASE AwaitPwm
  BY <1>18 DEF AwaitPwm
<1>19. ASSUME NEW d \in Devices, Call(d)
       PROVE  PcInv'
  BY <1>19 DEF Call, Entry
<1>20. ASSUME NEW stage \in StatusBits, StageFollows(stage)
       PROVE  PcInv'
  BY <1>20 DEF StageFollows
<1>21. CASE UNCHANGED vars
  BY <1>21 DEF vars
<1>22. QED
  BY <1>1, <1>2, <1>3, <1>4, <1>5, <1>6, <1>7, <1>8, <1>9, <1>10, <1>11,
     <1>12, <1>13, <1>14, <1>15, <1>16, <1>17, <1>18, <1>19, <1>20, <1>21
     DEF Next, BootStep, Hardware

\* OrderInv is kept: nothing it has prepared is undone, since an init function
\* is called once.
LEMMA OrderStep ==
  ASSUME PcInv, OrderInv, [Next]_vars
  PROVE  OrderInv'
<1> USE BoardKept, BoardFacts
    DEF PcInv, OrderInv, ControllerLabels, Unlocked, PreEnabling, Starting,
        EnabledUpTo, Goto, GotoTurn, Return, devices, clockVars, layerVars,
        stageVars
<1>1. CASE SerializerStops
  BY <1>1 DEF SerializerStops
<1>2. CASE PllLocks
  BY <1>2 DEF PllLocks
<1>3. CASE TakeAttributes
  BY <1>3 DEF TakeAttributes
<1>4. CASE BridgeOff
  BY <1>4 DEF BridgeOff
<1>5. CASE BridgeOn
  BY <1>5 DEF BridgeOn
<1>6. CASE CheckBridge
  BY <1>6 DEF CheckBridge
<1>7. CASE SetPll
  <2>1. CASE Dividers(board.pixel_clk) = {}
    BY <1>7, <2>1 DEF SetPll
  <2>2. CASE Dividers(board.pixel_clk) # {}
    BY <1>7, <2>2 DEF SetPll
  <2>3. QED
    BY <2>1, <2>2
<1>8. CASE AwaitLock
  BY <1>8 DEF AwaitLock
<1>9. CASE PreEnable
  BY <1>9 DEF PreEnable
<1>10. CASE AwaitTaken
  BY <1>10 DEF AwaitTaken
<1>11. CASE StartStage
  BY <1>11 DEF StartStage
<1>12. CASE AwaitStage
  BY <1>12 DEF AwaitStage
<1>13. CASE CheckParent
  BY <1>13 DEF CheckParent
<1>14. CASE Allocate
  BY <1>14 DEF Allocate
<1>15. CASE CommitLayer
  BY <1>15 DEF CommitLayer
<1>16. CASE MainChecks
  BY <1>16 DEF MainChecks
<1>17. CASE BlankingOff
  BY <1>17 DEF BlankingOff
<1>18. CASE AwaitPwm
  BY <1>18 DEF AwaitPwm
<1>19. ASSUME NEW d \in Devices, Call(d)
       PROVE  OrderInv'
  BY <1>19 DEF Call, Entry
<1>20. ASSUME NEW stage \in StatusBits, StageFollows(stage)
       PROVE  OrderInv'
  BY <1>20 DEF StageFollows
<1>21. CASE UNCHANGED vars
  BY <1>21 DEF vars
<1>22. QED
  BY <1>1, <1>2, <1>3, <1>4, <1>5, <1>6, <1>7, <1>8, <1>9, <1>10, <1>11,
     <1>12, <1>13, <1>14, <1>15, <1>16, <1>17, <1>18, <1>19, <1>20, <1>21
     DEF Next, BootStep, Hardware

\* ReadyInv is kept: a device becomes ready on top of devices that are.
LEMMA ReadyStep ==
  ASSUME PcInv, ReadyInv, [Next]_vars
  PROVE  ReadyInv'
<1> USE BoardKept, BoardFacts, RunsKept
    DEF PcInv, ReadyInv, ControllerLabels, Starting, RunUpTo, Goto, GotoTurn,
        Return, devices
<1>1. CASE SerializerStops
  BY <1>1 DEF SerializerStops
<1>2. CASE PllLocks
  BY <1>2 DEF PllLocks
<1>3. CASE TakeAttributes
  BY <1>3 DEF TakeAttributes
<1>4. CASE BridgeOff
  BY <1>4 DEF BridgeOff
<1>5. CASE BridgeOn
  BY <1>5 DEF BridgeOn
<1>6. CASE CheckBridge
  BY <1>6 DEF CheckBridge
<1>7. CASE SetPll
  BY <1>7 DEF SetPll
<1>8. CASE AwaitLock
  BY <1>8 DEF AwaitLock
<1>9. CASE PreEnable
  BY <1>9 DEF PreEnable
<1>10. CASE AwaitTaken
  BY <1>10 DEF AwaitTaken
<1>11. CASE StartStage
  BY <1>11 DEF StartStage
<1>12. CASE AwaitStage
  <2>1. turn \in 1..4 /\ RunUpTo(turn)
    BY <1>12 DEF AwaitStage
  <2>2. \A i \in 1..turn : Runs(Stages[i])'
    BY <2>1
  <2>3. CASE turn < 4
    BY <1>12, <2>1, <2>2, <2>3 DEF AwaitStage, Stages
  <2>4. CASE turn = 4
    BY <1>12, <2>1, <2>2, <2>4 DEF AwaitStage, Stages
  <2>5. QED
    BY <2>1, <2>3, <2>4
<1>13. CASE CheckParent
  BY <1>13 DEF CheckParent
<1>14. CASE Allocate
  BY <1>14 DEF Allocate
<1>15. CASE CommitLayer
  BY <1>15 DEF CommitLayer
<1>16. CASE MainChecks
  BY <1>16 DEF MainChecks
<1>17. CASE BlankingOff
  BY <1>17 DEF BlankingOff
<1>18. CASE AwaitPwm
  BY <1>18 DEF AwaitPwm
<1>19. ASSUME NEW d \in Devices, Call(d)
       PROVE  ReadyInv'
  BY <1>19 DEF Call, Entry
<1>20. ASSUME NEW stage \in StatusBits, StageFollows(stage)
       PROVE  ReadyInv'
  BY <1>20 DEF StageFollows
<1>21. CASE UNCHANGED vars
  BY <1>21 DEF vars
<1>22. QED
  BY <1>1, <1>2, <1>3, <1>4, <1>5, <1>6, <1>7, <1>8, <1>9, <1>10, <1>11,
     <1>12, <1>13, <1>14, <1>15, <1>16, <1>17, <1>18, <1>19, <1>20, <1>21
     DEF Next, BootStep, Hardware

\* RangeInv is kept: the loops over layers and stages end at their last.
LEMMA RangeStep ==
  ASSUME PcInv, OrderInv, ReadyInv, RangeInv, [Next]_vars
  PROVE  RangeInv'
<1> USE DEF RangeInv, Labels, Goto, GotoTurn, Return, devices, clockVars,
            layerVars, stageVars
<1>1. /\ \A i \in 1..Len(PreEnabled) : PreEnabled[i] \in AllLayers
      /\ Len(PreEnabled) \in 3..4 /\ Len(Stages) = 4
      /\ \A i \in 1..4 : Stages[i] \in StatusBits
      /\ Layers \subseteq AllLayers /\ Chosen \in AllLayers
  BY BootAssumption DEF PreEnabled, AllLayers, Stages, StatusBits
<1>2. CASE SerializerStops
  BY <1>2 DEF SerializerStops
<1>3. CASE PllLocks
  BY <1>3 DEF PllLocks
<1>4. CASE TakeAttributes
  BY <1>4 DEF TakeAttributes
<1>5. ASSUME NEW stage \in StatusBits, StageFollows(stage)
      PROVE  RangeInv'
  <2>1. lcdsr' \subseteq StatusBits
    BY <1>5 DEF StageFollows
  <2>2. QED
    BY <1>5, <2>1 DEF StageFollows
<1>6. ASSUME NEW d \in Devices, Call(d)
      PROVE  RangeInv'
  BY <1>6 DEF Call, Entry
<1>7. CASE BridgeOff
  BY <1>7 DEF BridgeOff
<1>8. CASE BridgeOn
  BY <1>8 DEF BridgeOn
<1>9. CASE CheckBridge
  BY <1>9 DEF CheckBridge
<1>10. CASE SetPll
  <2>1. CASE Dividers(board.pixel_clk) = {}
    BY <1>10, <2>1 DEF SetPll
  <2>2. CASE Dividers(board.pixel_clk) # {}
    <3> DEFINE s == Setting(board.pixel_clk)
    <3>1. /\ pll' = [set |-> s, locked |-> FALSE] /\ pc' = "lock"
          /\ UNCHANGED <<turn, heap, serializer, attre, enabled, lcden, lcdsr>>
      BY <1>10, <2>2 DEF SetPll
    <3> HIDE DEF s
    <3>2. QED
      BY <3>1
  <2>3. QED
    BY <2>1, <2>2
<1>11. CASE AwaitLock
  <2>1. /\ pc' = "pre_enable" /\ turn' = 1
        /\ UNCHANGED <<heap, serializer, pll, attre, enabled, lcden, lcdsr>>
    BY <1>11 DEF AwaitLock
  <2>2. QED
    BY <2>1
<1>12. CASE PreEnable
  <2>1. PreEnabled[turn] \in AllLayers
    BY <1>1, <1>12 DEF PreEnable, OrderInv, PreEnabling
  <2>2. QED
    BY <1>12, <2>1 DEF PreEnable
<1>13. CASE AwaitTaken
  <2>1. turn + 1 \in 0..4 \/ ~(turn < Len(PreEnabled))
    BY <1>1
  <2>2. QED
    BY <1>13, <2>1 DEF AwaitTaken
<1>14. CASE StartStage
  <2>1. Stages[turn] \in StatusBits
    BY <1>1, <1>14 DEF StartStage, ReadyInv, Starting
  <2>2. QED
    BY <1>14, <2>1 DEF StartStage
<1>15. CASE AwaitStage
  <2>1. turn + 1 \in 0..4 \/ ~(turn < Len(Stages))
    BY <1>1
  <2>2. QED
    BY <1>15, <2>1 DEF AwaitStage
<1>16. CASE CheckParent
  BY <1>16 DEF CheckParent
<1>17. CASE Allocate
  BY <1>17 DEF Allocate
<1>18. CASE CommitLayer
  <2>1. current \in AllLayers
    BY <1>1, <1>18 DEF CommitLayer, PcInv
  <2>2. QED
    BY <1>18, <2>1 DEF CommitLayer
<1>19. CASE MainChecks
  BY <1>19 DEF MainChecks
<1>20. CASE BlankingOff
  BY <1>1, <1>20 DEF BlankingOff, StatusBits
<1>21. CASE AwaitPwm
  BY <1>21 DEF AwaitPwm
<1>22. CASE UNCHANGED vars
  BY <1>22 DEF vars
<1>23. QED
  BY <1>2, <1>3, <1>4, <1>5, <1>6, <1>7, <1>8, <1>9, <1>10, <1>11, <1>12,
     <1>13, <1>14, <1>15, <1>16, <1>17, <1>18, <1>19, <1>20, <1>21, <1>22
     DEF Next, BootStep, Hardware

\* The three parts hold throughout.
LEMMA BootInvariant ==
  Spec => [](PcInv /\ OrderInv /\ ReadyInv)
<1>1. Init => PcInv /\ OrderInv /\ ReadyInv
  BY BoardFacts
  DEF Init, PcInv, OrderInv, ReadyInv, ControllerLabels, Unlocked,
      PreEnabling, Starting, EnabledUpTo, RunUpTo, NoSetting
<1>2. PcInv /\ OrderInv /\ ReadyInv /\ [Next]_vars
        => (PcInv /\ OrderInv /\ ReadyInv)'
  BY PcStep, OrderStep, ReadyStep
<1>3. QED
  BY <1>1, <1>2, PTL DEF Spec

-----------------------------------------------------------------------------

\* Every variable of the boot stays in its range, and no init function is called
\* twice.
THEOREM TypeCorrect ==
  Spec => []TypeOK
<1>1. Init => RangeInv
  <2>1. SUFFICES ASSUME Init PROVE RangeInv
    OBVIOUS
  <2>2. /\ pc = "between" /\ turn = 0 /\ heap \in Nat
        /\ serializer \in {"on", "off"}
        /\ attre = {} /\ enabled = {} /\ lcden = {} /\ lcdsr = {"sd"}
    BY <2>1, BootAssumption DEF Init
  <2>3. DOMAIN pll = {"set", "locked"} /\ pll.locked \in BOOLEAN
    <3>1. pll = [set |-> NoSetting, locked |-> FALSE]
      BY <2>1 DEF Init
    <3>2. QED
      BY <3>1
  <2>4. QED
    BY <2>2, <2>3 DEF RangeInv, Labels, StatusBits
<1>2. PcInv /\ OrderInv /\ ReadyInv /\ RangeInv /\ [Next]_vars => RangeInv'
  BY RangeStep
<1>3. PcInv /\ RangeInv => TypeOK
  BY DEF PcInv, RangeInv, TypeOK, AllLayers
<1>4. QED
  BY <1>1, <1>2, <1>3, BootInvariant, PTL DEF Spec

\* The pipeline is started behind a bridge that serialises, with a locked PLL
\* and every layer enabled, whatever the priorities.
THEOREM PipelineOrder ==
  Spec => []PipelineStartsLast
<1>1. OrderInv => PipelineStartsLast
  BY BoardFacts DEF OrderInv, PipelineStartsLast, EnabledUpTo, Unlocked
<1>2. QED
  BY <1>1, BootInvariant, PTL

\* When main draws, the chosen layer is on a running pipeline, behind every
\* device it needs.
THEOREM ScreenBehindUi ==
  Spec => []UiHasScreen
<1>1. PcInv /\ OrderInv /\ ReadyInv => UiHasScreen
  <2>1. SUFFICES ASSUME OrderInv, ReadyInv, pc \in {"ui", "pwm_wait", "loop"}
                 PROVE  /\ PipelineRuns /\ "controller" \in ready
                        /\ Chosen \in enabled
                        /\ HasPort => "bridge" \in ready
    BY DEF UiHasScreen
  <2>2. Chosen \in Shown /\ "controller" \in ready
    BY <2>1, BootAssumption DEF ReadyInv
  <2>3. PipelineRuns
    BY <2>1, <2>2 DEF ReadyInv, RunUpTo, PipelineRuns, Stages
  <2>4. Chosen \in enabled
    BY <2>1, <2>2, BoardFacts DEF OrderInv, EnabledUpTo
  <2>5. QED
    BY <2>1, <2>2, <2>3, <2>4 DEF OrderInv
<1>2. QED
  BY <1>1, BootInvariant, PTL

\* What LVDSPLL is set to makes the board's pixel clock.
THEOREM BootPllIsExact ==
  Spec => []PllIsExact
<1> DEFINE Inv == board.pixel_clk \in Nat /\ PllIsExact
<1>1. Init => Inv
  <2>1. Init => pll.set = NoSetting
    BY DEF Init
  <2>2. Init => board.pixel_clk \in PixelClocks
    BY DEF Init
  <2>3. QED
    BY <2>1, <2>2, BootAssumption DEF PllIsExact
<1>2. Inv /\ [Next]_vars => Inv'
  <2>1. SUFFICES ASSUME Inv, [Next]_vars PROVE Inv'
    OBVIOUS
  <2>2. board' = board
    BY <2>1, BoardKept
  <2>3. \/ pll'.set = pll.set
        \/ /\ Dividers(board.pixel_clk) # {}
           /\ pll'.set = Setting(board.pixel_clk)
    <3>1. CASE SetPll
      BY <3>1 DEF SetPll
    <3>2. CASE PllLocks
      BY <3>2 DEF PllLocks
    <3>3. CASE UNCHANGED pll
      BY <3>3
    <3>4. SetPll \/ PllLocks \/ UNCHANGED pll
      BY <2>1
      DEF Next, vars, BootStep, Hardware, clockVars, SerializerStops,
          TakeAttributes, StageFollows, Call, BridgeOff, BridgeOn, CheckBridge,
          AwaitLock, PreEnable, AwaitTaken, StartStage, AwaitStage,
          CheckParent, Allocate, CommitLayer, MainChecks, BlankingOff, AwaitPwm
    <3>5. QED
      BY <3>1, <3>2, <3>3, <3>4
  <2>4. QED
    BY <2>1, <2>2, <2>3, SettingIsExact DEF PllIsExact
<1>3. QED
  BY <1>1, <1>2, PTL DEF Spec
=============================================================================
