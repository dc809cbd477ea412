----------------------------- MODULE MxtInitMC -----------------------------
(***************************************************************************)
(* Instances of MxtInit for TLC.  The tables put a T6 and a T100 with      *)
(* various numbers of report ids before, between and behind objects that   *)
(* use none, few or nearly all of the 254 ids.                             *)
(***************************************************************************)
EXTENDS MxtInit

\* At two bytes of address.
Object(type, instances, ids) ==
  [type |-> type, address |-> 256 + type, size_minus_one |-> 9 + (type % 2),
   instances_minus_one |-> instances - 1, num_report_ids |-> ids]

MCStandard ==
  <<Object(5, 1, 0), Object(6, 1, 1), Object(44, 1, 0), Object(7, 1, 0),
    Object(18, 1, 0), Object(100, 1, 4)>>

Required == <<Object(5, 1, 0), Object(44, 1, 0)>>

\* An object of another kind: nothing, several instances, many ids, 256
\* instances.
Fillers == {Object(9, 1, 0), Object(9, 2, 3), Object(9, 4, 60),
            Object(9, 1, 250), Object(9, 256, 1)}
TouchObjects == {Object(100, i, n) : i \in 1..2, n \in {0, 1, 2, 3, 5, 12}}

MCTables ==
  {MCStandard, <<>>, Required, Required \o <<Object(6, 1, 1)>>,
   Required \o Required \o Required \o Required}
  \cup {Required \o <<filler, Object(6, 1, 1), touch>> :
          filler \in Fillers, touch \in TouchObjects}
  \cup {Required \o <<touch, filler, Object(6, 1, 1)>> :
          filler \in Fillers, touch \in TouchObjects}
  \cup {<<Object(6, 1, 1), filler, touch>> \o Required \o <<Object(18, 1, 0)>> :
          filler \in Fillers, touch \in TouchObjects}

\* Every bit of the header, of two objects and of the checksum.
MCFlips == ((1..19) \cup (38..46)) \X {2^k : k \in 0..7}
=============================================================================
