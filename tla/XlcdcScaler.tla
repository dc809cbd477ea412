---------------------------- MODULE XlcdcScaler ----------------------------
(***************************************************************************)
(* The scaling factor of the HEO layer: the ratio of source to target size *)
(* in fixed point, computed in 32 bits (microchip_sam_xlcdc_layer.c:816).  *)
(* XlcdcBootProofs proves what it is for every format and word; in the     *)
(* code Unity = 2^20 and Wide = 2^12, so that Word = 2^32.                 *)
(***************************************************************************)
EXTENDS Naturals

CONSTANTS Unity,      \* XLCDC_SCALE_UNITY
          Wide        \* number of source sizes whose shift fits into a word

Word == Wide * Unity
Shifted(src) == (src * Unity) % Word      \* << FRAC_BITS in uint32_t

ScaleFactor(src, dst) ==
  IF src = dst \/ dst = 0 THEN Unity ELSE Shifted(src) \div dst
=============================================================================
