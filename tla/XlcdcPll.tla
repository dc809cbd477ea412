------------------------------ MODULE XlcdcPll ------------------------------
(***************************************************************************)
(* The setting of LVDSPLL, the clock of the display controller and of its  *)
(* LVDS serializer (microchip_sam_xlcdc.c:296-366).                        *)
(*                                                                         *)
(* PLL_core = Xtal * (MUL + FRACR / FracUnit) has to lie in CoreMin ..     *)
(* CoreMax; PLL_core / DIVPMC is seven times the pixel clock.  The code    *)
(* computes in 64 bits, which no pixel clock below CoreMax exceeds.        *)
(***************************************************************************)
EXTENDS Integers

CONSTANTS
  CoreMin, CoreMax,  \* LVDSPLL_CORE_MIN_HZ, _MAX_HZ  (600 and 1200 MHz)
  Xtal,              \* LVDSPLL_MOSCXT_HZ             (24 MHz on the board)
  FracUnit,          \* 2^LVDSPLL_FRAC_BITS           (2^22)
  MaxDiv             \* the last divider tried        (256)

ASSUME PllAssumption ==
  /\ CoreMin \in Nat /\ CoreMax \in Nat /\ 2 * CoreMin <= CoreMax
  /\ Xtal \in Nat \ {0} /\ Xtal <= CoreMin
  /\ FracUnit \in Nat \ {0}
  /\ MaxDiv \in Nat \ {0}

InCoreRange(pll_core) == CoreMin <= pll_core /\ pll_core <= CoreMax

PllOut(pixel_clk) == 7 * pixel_clk

\* The dividers that suit a pixel clock; the loop takes the first.
Dividers(pixel_clk) ==
  {divpmc \in 1..MaxDiv : InCoreRange(PllOut(pixel_clk) * divpmc)}
FirstDivider(pixel_clk) ==
  CHOOSE divpmc \in Dividers(pixel_clk) :
    \A other \in Dividers(pixel_clk) : divpmc <= other

\* Broken on purpose: the fraction is rounded up.
SettingRoundedUp(pixel_clk) ==
  LET divpmc == FirstDivider(pixel_clk)
      pll_core == PllOut(pixel_clk) * divpmc
      mul == pll_core \div Xtal
  IN [divpmc |-> divpmc, mul |-> mul,
      fracr |-> ((pll_core - mul * Xtal) * FracUnit + Xtal - 1) \div Xtal]

\* MUL and FRACR for it; the field takes mul - 1.
Setting(pixel_clk) ==
  LET divpmc == FirstDivider(pixel_clk)
      pll_core == PllOut(pixel_clk) * divpmc
      mul == pll_core \div Xtal
  IN [divpmc |-> divpmc, mul |-> mul,
      fracr |-> ((pll_core - mul * Xtal) * FracUnit) \div Xtal]

\* A setting fits its fields and gives seven times the pixel clock, at most
\* Xtal / FracUnit (6 Hz) below it before the division.
IsExact(setting, pixel_clk) ==
  LET wanted == PllOut(pixel_clk) * setting.divpmc
      made == Xtal * (setting.mul * FracUnit + setting.fracr)
      error == wanted * FracUnit - made
  IN /\ setting.divpmc \in 1..MaxDiv /\ InCoreRange(wanted)
     /\ setting.mul >= 1
     /\ setting.fracr \in 0..(FracUnit - 1)
     /\ 0 <= error /\ error < Xtal
=============================================================================
