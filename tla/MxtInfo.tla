------------------------------ MODULE MxtInfo ------------------------------
(***************************************************************************)
(* The information block of a maXTouch controller and what the driver      *)
(* makes of it: the CRC-24, the object table, the report ids in eight-bit  *)
(* arithmetic (drivers/input/microchip_maxtouch.c:184-369).                *)
(*                                                                         *)
(* Bytes are numbers; in the CRC, a word is the set of its bits.  The      *)
(* second half of the module is the controller's side: the block a         *)
(* controller with a given table holds and the meaning of its report ids.  *)
(***************************************************************************)
EXTENDS Integers, Sequences, SequencesExt

CONSTANTS
  MaxObjects,   \* MXT_MAX_OBJECTS                              (48 in the code)
  MaxTouches,   \* CONFIG_INPUT_MICROCHIP_MAXTOUCH_MAX_TOUCHES  (10 by default)
  CfgTouches    \* cfg->max_touches, 0 if the devicetree has none

ASSUME InfoAssumption ==
  /\ MaxObjects \in 1..255
  /\ MaxTouches \in 1..16
  /\ CfgTouches \in 0..255

InfoSize     == 7    \* MXT_INFO_SIZE
ObjectSize   == 6    \* MXT_OBJECT_SIZE
ChecksumSize == 3    \* MXT_INFO_CHECKSUM_SIZE

Bytes == 0..255
Byte(n) == n % 256   \* what a uint8_t keeps of n

Smallest(a, b) == IF a < b THEN a ELSE b

(***************************************************************************)
(* The CRC.                                                                *)
(***************************************************************************)
Bits(b)    == {k \in 0..7 : (b \div 2^k) % 2 = 1}
Shift(s, n) == {k + n : k \in s}
Xor(s, t)  == (s \ t) \cup (t \ s)
Word(byte0, byte1) == Bits(byte0) \cup Shift(Bits(byte1), 8)

Poly == {0, 1, 3, 4, 23}                     \* MXT_CRC_POLY

\* mxt_crc24_step, on a 32-bit register whose bits above 23 are never cleared.
Crc24Step(crc, byte0, byte1) ==
  LET result == Xor(Shift(crc, 1) \cap 0..31, Word(byte0, byte1))
  IN IF 24 \in result THEN Xor(result, Poly) ELSE result

StoredCrc(b0, b1, b2) == Word(b0, b1) \cup Shift(Bits(b2), 16)

(***************************************************************************)
(* The object table.                                                       *)
(***************************************************************************)
\* (struct mxt_object *) at offset InfoSize, mxt_obj_address.
ObjectAt(block, i) ==
  LET b(k) == block[InfoSize + (i - 1) * ObjectSize + k]
  IN [type |-> b(1), address |-> b(2) + 256 * b(3), size_minus_one |-> b(4),
      instances_minus_one |-> b(5), num_report_ids |-> b(6)]

NothingParsed ==
  [t5_address |-> 0, t5_msg_size |-> 0, t6_address |-> 0, t6_reportid |-> 0,
   t7_address |-> 0, t18_address |-> 0, t44_address |-> 0, t100_address |-> 0,
   t100_reportid_min |-> 0, t100_reportid_max |-> 0, num_touchids |-> 0,
   reportid |-> 1]

\* Broken on purpose: an object with several instances counts once.
IdsOfOneInstance(obj) == obj.num_report_ids

\* num_ids * instances, where instances is mxt_obj_instances.
IdsOf(obj) == obj.num_report_ids * Byte(obj.instances_minus_one + 1)

\* One turn of the loop.  T7, T18 and T44 only leave their address.
ParseObject(d, obj) ==
  LET size == Byte(obj.size_minus_one + 1)               \* mxt_obj_size
      kept == CASE obj.type = 5 ->
                     [d EXCEPT !.t5_address = obj.address,
                               !.t5_msg_size = Byte(size - 1)]
                [] obj.type = 6 ->
                     [d EXCEPT !.t6_address = obj.address,
                               !.t6_reportid = d.reportid]
                [] obj.type = 7 -> [d EXCEPT !.t7_address = obj.address]
                [] obj.type = 18 -> [d EXCEPT !.t18_address = obj.address]
                [] obj.type = 44 -> [d EXCEPT !.t44_address = obj.address]
                [] obj.type = 100 ->
                     [d EXCEPT !.t100_address = obj.address,
                               !.t100_reportid_min = d.reportid,
                               !.num_touchids = Byte(obj.num_report_ids - 2),
                               !.t100_reportid_max =
                                 Byte(d.reportid + obj.num_report_ids - 1)]
                [] OTHER -> d
  IN [kept EXCEPT !.reportid = Byte(@ + IdsOf(obj))]

\* Broken on purpose: the limits are forgotten.
Unlimited(d) == d

\* The two limits on the number of touches, behind the loop.
Limited(d) ==
  LET available == Smallest(d.num_touchids, MaxTouches)
  IN [d EXCEPT !.num_touchids = IF CfgTouches > 0
                                  THEN Smallest(available, CfgTouches)
                                  ELSE available]

\* Otherwise -ENODEV.
HasRequired(d) ==
  /\ d.t5_address # 0 /\ d.t6_address # 0 /\ d.t44_address # 0
  /\ d.t100_reportid_min # 0

\* How mxt_process_messages takes a report id (:518-543).
Ignored == <<"ignored">>
Touch(id) == <<"touch", id>>
Dispatch(d, r) ==
  LET start == Byte(d.t100_reportid_min + 2)
  IN CASE r \in {0, 255} -> Ignored
       [] r \notin {0, 255} /\ r = d.t6_reportid -> <<"t6">>
       [] /\ r \notin {0, 255, d.t6_reportid}
          /\ r >= start /\ r <= d.t100_reportid_max
          /\ r - start < MaxTouches -> Touch(r - start)
       [] OTHER -> Ignored

-----------------------------------------------------------------------------
(***************************************************************************)
(* The controller's side.                                                  *)
(***************************************************************************)

\* "CRC-24 over 16-bit LE words, zero-padded for odd lengths" (:183) as one
\* division: the words, each of weight x^(words after it), modulo x^24 + Poly.
Words(buf) == (Len(buf) + 1) \div 2
BufWord(buf, w) ==
  LET byte(i) == IF i <= Len(buf) THEN buf[i] ELSE 0
  IN Word(byte(2 * w - 1), byte(2 * w))

Polynomial(buf, words) ==
  LET first[w \in 0..Words(buf)] ==
        IF w = 0 THEN {} ELSE Xor(Shift(first[w - 1], 1), BufWord(buf, w))
  IN first[words]

\* The division clears the n exponents above 23, from the highest down.
Cleared(polynomial, n) ==
  IF 24 + n \in polynomial THEN Xor(polynomial, Shift(Poly \cup {24}, n))
                           ELSE polynomial
Remainder(polynomial, n) ==
  LET rest[k \in 0..n] == IF k = 0 THEN polynomial
                          ELSE Cleared(rest[k - 1], n - k)
  IN rest[n]

ReferenceCrc(buf) == Remainder(Polynomial(buf, Words(buf)), Words(buf))

ByteOf(s) == CHOOSE b \in Bytes : Bits(b) = s

\* struct mxt_object, a line of the table.
Uint16 == 0..(2^16 - 1)
ObjectRecord ==
  [type : Bytes, address : Uint16, size_minus_one : Bytes,
   instances_minus_one : Bytes, num_report_ids : Bytes]

ObjectBytes(obj) ==
  <<obj.type, obj.address % 256, obj.address \div 256, obj.size_minus_one,
    obj.instances_minus_one, obj.num_report_ids>>

\* The header's first six bytes are never interpreted.
InfoBody(table) ==
  LET header == <<164, 24, 32, 170, 30, 18, Len(table)>>
  IN [p \in 1..(InfoSize + Len(table) * ObjectSize) |->
        IF p <= InfoSize THEN header[p]
        ELSE LET at == p - InfoSize - 1
             IN ObjectBytes(table[(at \div ObjectSize) + 1])
                  [(at % ObjectSize) + 1]]

InfoBlock(table) ==
  LET crc == ReferenceCrc(InfoBody(table))
      crcByte(n) == ByteOf({k \in 0..7 : k + n \in crc})
  IN InfoBody(table) \o <<crcByte(0), crcByte(8), crcByte(16)>>

\* What the driver should make of the first n objects, and of the block.
ParsedObjects(table, n) ==
  LET parsed[i \in 0..Len(table)] ==
        IF i = 0 THEN NothingParsed
        ELSE ParseObject(parsed[i - 1], table[i])
  IN parsed[n]
Parsed(table) == Limited(ParsedObjects(table, Len(table)))

\* Report ids are given out from 1 in the order of the table, to every instance
\* its object's number of them.
Instances(obj) == obj.instances_minus_one + 1
FirstId(table, i) ==
  LET next[n \in 0..Len(table)] ==
        IF n = 0 THEN 1
        ELSE next[n - 1] + table[n].num_report_ids * Instances(table[n])
  IN next[i - 1]

\* A table that needs no more ids than a byte has (255 says "no message"), with
\* one T6 and one T100 that has its two status ids and no more touches than the
\* driver has slots.
IdsFit(table) ==
  /\ FirstId(table, Len(table) + 1) <= 255
  /\ \A i, j \in DOMAIN table :
        table[i].type = table[j].type /\ table[i].type \in {6, 100} => i = j
  /\ \A i \in DOMAIN table :
        /\ table[i].type = 6 => table[i].num_report_ids = 1
        /\ table[i].type = 100 =>
             table[i].num_report_ids \in 2..(MaxTouches + 2)

\* What the controller means by a report id.
Meaning(table, r) ==
  LET of(type) == {i \in DOMAIN table :
                     /\ table[i].type = type
                     /\ r >= FirstId(table, i)
                     /\ r < FirstId(table, i) + table[i].num_report_ids}
  IN IF of(6) # {} THEN <<"t6">>
     ELSE IF \E i \in of(100) : r >= FirstId(table, i) + 2
          THEN Touch(r - FirstId(table, CHOOSE i \in of(100) : TRUE) - 2)
          ELSE Ignored
=============================================================================
