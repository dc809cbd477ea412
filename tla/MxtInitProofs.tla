--------------------------- MODULE MxtInitProofs ---------------------------
(***************************************************************************)
(* mxt_init for every object table, every bus, every controller and all    *)
(* limits: the ranges of its variables, that a probe which does not time   *)
(* out leaves nothing behind and finds the controller, that what is        *)
(* configured is still there at the end, and that the CRC lets no          *)
(* inverted bit into the report ids the driver goes by.                    *)
(***************************************************************************)
EXTENDS MxtInit, SequenceTheorems, WellFoundedInduction, TLAPS

\* What is kept of the objects is addresses and bytes.
InfoRecord ==
  [t5_address : Nat, t5_msg_size : Bytes, t6_address : Nat,
   t6_reportid : Bytes, t7_address : Nat, t18_address : Nat,
   t44_address : Nat, t100_address : Nat, t100_reportid_min : Bytes,
   t100_reportid_max : Bytes, num_touchids : Bytes, reportid : Bytes]

ChipRange ==
  /\ chip \in [state : {"up", "late", "down"}, queue : Seq(Messages),
               numtch : Bytes, mode1 : BOOLEAN, t7 : {"nvm", "asleep"}]
  /\ Len(chip.queue) <= QueueCap

ProbeRange ==
  /\ worker \in [pending : Seq(1..2), running : {None, 1, 2},
                 addr : Addresses]
  /\ frames \in [1..2 -> [addr : Addresses, done : BOOLEAN,
                          result : {"timeout", "found", "nothing"}]]
  /\ actual_address \in Addresses \cup {None}

\* The loops over the block stay in it.
BlockRange ==
  /\ num_objects \in Bytes /\ info \in InfoRecord
  /\ pc \in {"crc", "parse"} => block \in [1..BlockSize -> Bytes]
  /\ index \in Nat \ {0} /\ crc \subseteq 0..31
  /\ pc \notin {"parse", "failed", "undefined"} =>
       info.num_touchids <= MaxTouches

LoopRange ==
  /\ pc \in Labels /\ t7_cfg \in {"zero", "nvm", "asleep"}
  /\ polls \in 0..PollLimit /\ left \in 0..(DrainLimit + MaxMsgCount)
  /\ pc = "messages" => polls < PollLimit /\ left > 0

GivenOK ==
  /\ board \in Boards /\ table \in Tables
  /\ memory = InfoBlock(table) /\ memory \in Seq(Bytes)

RangeInv == GivenOK /\ ChipRange /\ ProbeRange /\ BlockRange /\ LoopRange

-----------------------------------------------------------------------------

\* The controller's own settings are what T7 is read as, unless an earlier run
\* left it asleep and no reset pin wakes it.
PowerInv ==
  ResetGpio \/ ~WarmStart =>
    /\ \/ pc \in {"start", "failed", "undefined"}
       \/ chip.state = "down" \/ chip.t7 = "nvm"
    /\ ResetGpio \/ chip.t7 = "nvm"
    /\ \/ pc \in {"start", "probe1", "wait1", "probe2", "wait2", "header",
                  "block", "crc", "parse", "t7", "failed", "undefined"}
       \/ info.t7_address = 0
       \/ t7_cfg = "nvm"

\* As long as no probe has timed out: the work queue is at work only while a
\* probe waits, for that probe, and tells it the truth.
Idle == worker.pending = <<>> /\ worker.running = None

WaitInv(n) ==
  LET f == Frame(n)
  IN /\ frames[f].addr = ProbeAddr(n)
     /\ \/ /\ worker.pending = <<f>> /\ worker.running = None
           /\ ~frames[f].done
        \/ /\ worker.pending = <<>> /\ worker.running = f
           /\ worker.addr = ProbeAddr(n) /\ ~frames[f].done
        \/ /\ Idle /\ frames[f].done
           /\ frames[f].result = "found" => ProbeAddr(n) = ChipAddr

ProbeInv ==
  ~timed_out =>
    /\ pc # "undefined"
    /\ actual_address \in {None, ChipAddr}
    /\ (\A n \in 1..2 : ~Waiting(n)) => Idle
    /\ \A n \in 1..2 : Waiting(n) => WaitInv(n)

\* On a bus that works, and unless the reset was given up, the controller is up
\* whenever something is read behind the header or written to it.
Answered == {"block", "crc", "parse", "t7", "reset", "messages", "drain",
             "t100", "t100_write", "t18", "t18_write", "ready"}

ConfigInv ==
  ~FaultyBus /\ ~SlowReset /\ ~gave_up =>
    /\ chip.state # "late"
    /\ pc \in Answered \cup {"poll"} => actual_address = ChipAddr
    /\ pc \in Answered => chip.state = "up"
    /\ pc \in {"t18", "t18_write", "ready"} /\ info.t100_address # 0 =>
         chip.numtch = info.num_touchids
    /\ pc = "ready" /\ InterruptBuild /\ info.t18_address # 0 => chip.mode1

\* The CRC of the first words of a buffer.
RunningCrc(buf, w) == Remainder(Polynomial(buf, w), w)

\* With the right number of objects, behind w words the register holds their CRC
\* or an inverted bit was among them, never both.
SumInv ==
  /\ \A p, q \in 1..BlockSize :
       block[p] # memory[p] /\ block[q] # memory[q] => p = q
  /\ \E w \in 0..Words(InfoBody(table)) :
       /\ index = 2 * w + 1
       /\ (crc \cap 0..23 = RunningCrc(InfoBody(table), w)) <=>
            (\A p \in 1..CrcOffset : p < index => block[p] = memory[p])

\* What is parsed is the table.
Unread == {"start", "probe1", "wait1", "probe2", "wait2", "header", "block"}

TableInv ==
  /\ pc \in Unread => crc = {}
  /\ pc \in Unread \cup {"crc"} => info = NothingParsed
  /\ pc \in {"block", "crc", "parse", "t7"} /\ ~Noise =>
       num_objects = Len(table)
  /\ num_objects = Len(table) =>
       /\ pc = "crc" => SumInv
       /\ pc = "parse" => /\ block = memory /\ index <= Len(table) + 1
                          /\ info = ParsedObjects(table, index - 1)
       /\ pc = "t7" => info = Parsed(table)

InitInv == PowerInv /\ ProbeInv /\ ConfigInv

-----------------------------------------------------------------------------

\* A set of numbers has a least one, unless it is empty.
LEMMA LeastElement ==
  ASSUME NEW S, S \subseteq Nat, S # {}
  PROVE  \E x \in S : \A y \in S : x <= y
<1> DEFINE R == OpToRel(<, Nat)
<1>1. IsWellFoundedOn(R, Nat)
  BY NatLessThanWellFounded, Zenon
<1>2. \A x, y \in Nat : x < y => <<x, y>> \in R
  BY Zenon DEF OpToRel
<1> HIDE DEF R
<1>3. PICK x \in S : \A y \in S : ~ (<<y, x>> \in R)
  BY <1>1, WFMin, Zenon
<1>4. \A y \in S : ~ (y < x)
  BY <1>2, <1>3, Zenon
<1>5. QED
  BY <1>4

\* A set of numbers that has 0, and with each number below n the next one, has
\* all numbers to n.
LEMMA UpTo ==
  ASSUME NEW n \in Nat, NEW S, 0 \in S,
         \A k \in 1..n : k - 1 \in S => k \in S
  PROVE  0..n \subseteq S
<1> DEFINE outside == {k \in 0..n : k \notin S}
<1>1. SUFFICES ASSUME outside # {} PROVE FALSE
  OBVIOUS
<1>2. PICK k \in outside : \A j \in outside : k <= j
  <2>1. outside \subseteq Nat
    OBVIOUS
  <2>2. QED
    BY <1>1, <2>1, LeastElement, Zenon
<1>3. k \in 1..n /\ k - 1 \in 0..n
  BY <1>2
<1>4. k - 1 \notin outside
  BY <1>2, <1>3
<1>5. QED
  BY <1>2, <1>3, <1>4

\* A function whose steps do not leave a set stays in it.
LEMMA StaysIn ==
  ASSUME NEW n \in Nat, NEW f, NEW S, f[0] \in S,
         \A k \in 1..n : f[k - 1] \in S => f[k] \in S
  PROVE  \A k \in 0..n : f[k] \in S
<1> DEFINE inside == {k \in 0..n : f[k] \in S}
<1>1. 0 \in inside /\ \A k \in 1..n : k - 1 \in inside => k \in inside
  OBVIOUS
<1> HIDE DEF inside
<1>2. 0..n \subseteq inside
  BY <1>1, UpTo
<1>3. QED
  BY <1>2 DEF inside

\* The functions with a given first value and given steps.
Iterations(n, S, first, step) ==
  {f \in [0..n -> S] :
     f[0] = first /\ \A k \in 1..n : f[k] = step[k][f[k - 1]]}

\* A function can be defined by its first value and its steps.
LEMMA Iterated ==
  ASSUME NEW n \in Nat, NEW S, NEW first \in S,
         NEW step \in [1..n -> [S -> S]]
  PROVE  Iterations(n, S, first, step) # {}
<1> DEFINE goes(m, f) ==
             f[0] = first /\ \A k \in 1..m : f[k] = step[k][f[k - 1]]
           reach == {m \in 0..n : \E f \in [0..m -> S] : goes(m, f)}
<1>1. 0 \in reach
  <2> DEFINE g == [k \in 0..0 |-> first]
  <2>1. g \in [0..0 -> S] /\ g[0] = first /\ 1..0 = {}
    OBVIOUS
  <2> HIDE DEF g
  <2>2. goes(0, g)
    BY <2>1
  <2> HIDE DEF goes
  <2>3. QED
    BY <2>1, <2>2
<1>2. ASSUME NEW m \in 1..n, m - 1 \in reach
      PROVE  m \in reach
  <2>1. PICK f \in [0..(m - 1) -> S] : goes(m - 1, f)
    BY <1>2
  <2> DEFINE g == [k \in 0..m |-> IF k = m THEN step[m][f[m - 1]] ELSE f[k]]
  <2>2. m - 1 \in 0..(m - 1) /\ \A k \in 0..m : k # m => k \in 0..(m - 1)
    OBVIOUS
  <2>3. step[m][f[m - 1]] \in S
    BY <2>2
  <2>4. g \in [0..m -> S]
    BY <2>2, <2>3
  <2>5. goes(m, g)
    <3>1. g[0] = first
      BY <2>1
    <3>2. \A k \in 1..m : g[k] = step[k][g[k - 1]]
      BY <2>1
    <3>3. QED
      BY <3>1, <3>2
  <2> HIDE DEF g, goes
  <2>6. m \in 0..n
    OBVIOUS
  <2>7. QED
    BY <2>4, <2>5, <2>6
<1>3. n \in reach
  <2> HIDE DEF reach
  <2>1. 0..n \subseteq reach
    BY <1>1, <1>2, UpTo
  <2>2. QED
    BY <2>1
<1>4. QED
  BY <1>3 DEF Iterations

-----------------------------------------------------------------------------

\* A byte has eight bits,
LEMMA BitsOf ==
  ASSUME NEW b
  PROVE  Bits(b) \subseteq 0..7
BY DEF Bits

\* these.
LEMMA BitsAre ==
  ASSUME NEW n \in Bytes
  PROVE  /\ 0 \in Bits(n) <=> n % 2 = 1
         /\ 1 \in Bits(n) <=> (n \div 2) % 2 = 1
         /\ 2 \in Bits(n) <=> (n \div 4) % 2 = 1
         /\ 3 \in Bits(n) <=> (n \div 8) % 2 = 1
         /\ 4 \in Bits(n) <=> (n \div 16) % 2 = 1
         /\ 5 \in Bits(n) <=> (n \div 32) % 2 = 1
         /\ 6 \in Bits(n) <=> (n \div 64) % 2 = 1
         /\ 7 \in Bits(n) <=> (n \div 128) % 2 = 1
BY DEF Bits, Bytes

\* A byte is determined by its bits ..
LEMMA BitsDetermine ==
  ASSUME NEW a \in Bytes, NEW b \in Bytes, Bits(a) = Bits(b)
  PROVE  a = b
BY BitsAre, SMTT(60) DEF Bytes

\* .. and any eight bits are a byte's.
LEMMA ByteOfBits ==
  ASSUME NEW s \in SUBSET (0..7)
  PROVE  ByteOf(s) \in Bytes /\ Bits(ByteOf(s)) = s
<1> DEFINE bit(k) == IF k \in s THEN 1 ELSE 0
<1>1. \A k : bit(k) \in {0, 1} /\ (bit(k) = 1 <=> k \in s)
  OBVIOUS
<1> HIDE DEF bit
<1> DEFINE low == bit(0) + 2 * bit(1) + 4 * bit(2) + 8 * bit(3)
           high == bit(4) + 2 * bit(5) + 4 * bit(6) + 8 * bit(7)
<1>2. /\ low \in 0..15
      /\ low % 2 = bit(0) /\ (low \div 2) % 2 = bit(1)
      /\ (low \div 4) % 2 = bit(2) /\ (low \div 8) % 2 = bit(3)
  BY <1>1
<1>3. /\ high \in 0..15
      /\ high % 2 = bit(4) /\ (high \div 2) % 2 = bit(5)
      /\ (high \div 4) % 2 = bit(6) /\ (high \div 8) % 2 = bit(7)
  BY <1>1
<1> HIDE DEF low, high
<1>4. PICK n \in Bytes : n = low + 16 * high
  BY <1>2, <1>3 DEF Bytes
<1>5. /\ n % 2 = low % 2 /\ (n \div 2) % 2 = (low \div 2) % 2
      /\ (n \div 4) % 2 = (low \div 4) % 2 /\ (n \div 8) % 2 = (low \div 8) % 2
  BY <1>2, <1>3, <1>4 DEF Bytes
<1>6. /\ (n \div 16) % 2 = high % 2 /\ (n \div 32) % 2 = (high \div 2) % 2
      /\ (n \div 64) % 2 = (high \div 4) % 2
      /\ (n \div 128) % 2 = (high \div 8) % 2
  BY <1>2, <1>3, <1>4 DEF Bytes
<1>7. \A k \in 0..7 : k \in Bits(n) <=> bit(k) = 1
  BY <1>2, <1>3, <1>5, <1>6, BitsAre
<1>8. Bits(n) = s
  BY <1>1, <1>7, BitsOf
<1>9. QED
  BY <1>8 DEF ByteOf, Bytes

\* A word of the CRC is sixteen bits, the second byte above the first,
LEMMA WordBits ==
  ASSUME NEW b0, NEW b1
  PROVE  /\ Word(b0, b1) \subseteq 0..15
         /\ \A k \in 0..7 : k \in Word(b0, b1) <=> k \in Bits(b0)
         /\ \A k \in 0..7 : k + 8 \in Word(b0, b1) <=> k \in Bits(b1)
BY BitsOf DEF Word, Shift

\* so that no two pairs of bytes make the same word.
LEMMA WordDetermines ==
  ASSUME NEW a0 \in Bytes, NEW a1 \in Bytes, NEW b0 \in Bytes,
         NEW b1 \in Bytes, Word(a0, a1) = Word(b0, b1)
  PROVE  a0 = b0 /\ a1 = b1
<1>1. Bits(a0) = Bits(b0)
  BY WordBits, BitsOf, SMTT(30)
<1>2. Bits(a1) = Bits(b1)
  BY WordBits, BitsOf, SMTT(30)
<1>3. QED
  BY <1>1, <1>2, BitsDetermine

\* The stored checksum is 24 bits, the least significant byte first.
LEMMA StoredBits ==
  ASSUME NEW b0, NEW b1, NEW b2
  PROVE  /\ StoredCrc(b0, b1, b2) \subseteq 0..23
         /\ \A k \in 0..7 : k \in StoredCrc(b0, b1, b2) <=> k \in Bits(b0)
         /\ \A k \in 0..7 : k + 8 \in StoredCrc(b0, b1, b2) <=> k \in Bits(b1)
         /\ \A k \in 0..7 : k + 16 \in StoredCrc(b0, b1, b2) <=> k \in Bits(b2)
<1>1. \A k : k \in Shift(Bits(b2), 16) <=> k \in 16..23 /\ k - 16 \in Bits(b2)
  BY BitsOf DEF Shift
<1>2. \A k : k \in StoredCrc(b0, b1, b2) <=>
        \/ k \in Word(b0, b1)
        \/ k \in 16..23 /\ k - 16 \in Bits(b2)
  BY <1>1 DEF StoredCrc
<1>3. QED
  BY <1>2, WordBits

\* Of the exclusive or of two words: its bits,
LEMMA XorBits ==
  \A s, t : \A k : k \in Xor(s, t) <=> (k \in s) # (k \in t)
BY DEF Xor

\* its range.
LEMMA XorIn ==
  ASSUME NEW U, NEW s, NEW t, s \subseteq U, t \subseteq U
  PROVE  Xor(s, t) \subseteq U
BY DEF Xor

\* Two registers with the same bits are the same.
LEMMA SameLow ==
  \A s, t \in SUBSET (0..23) : (\A k \in 0..23 : k \in s <=> k \in t) => s = t
OBVIOUS

\* The bits of a shifted word.
LEMMA ShiftBits ==
  ASSUME NEW s \in SUBSET Nat, NEW n \in Nat
  PROVE  /\ Shift(s, n) \in SUBSET Nat
         /\ \A k \in Nat : k \in Shift(s, n) <=> k >= n /\ k - n \in s
BY DEF Shift

\* Polynomials are the sets of their exponents.
Polynomials == SUBSET Nat

\* A step of the division gives a polynomial.
LEMMA ClearedIn ==
  ASSUME NEW s \in Polynomials, NEW n \in Nat
  PROVE  Cleared(s, n) \in Polynomials
<1>1. Poly \cup {24} \in SUBSET Nat
  BY DEF Poly
<1>2. Shift(Poly \cup {24}, n) \in SUBSET Nat
  BY <1>1, ShiftBits
<1>3. QED
  BY <1>2 DEF Cleared, Xor, Polynomials

\* The recursion that divides is well defined.
Divides(polynomial, n, rest) ==
  /\ rest[0] = polynomial
  /\ \A k \in 1..n : rest[k] = Cleared(rest[k - 1], n - k)

\* The division, exponent by exponent.
LEMMA RemainderUnfolds ==
  ASSUME NEW m \in Polynomials, NEW n \in Nat
  PROVE  \E rest \in [0..n -> Polynomials] :
           Divides(m, n, rest) /\ Remainder(m, n) = rest[n]
<1> DEFINE step == [k \in 1..n |-> [s \in Polynomials |-> Cleared(s, n - k)]]
           is(rest) == rest = [k \in 0..n |->
                         IF k = 0 THEN m ELSE Cleared(rest[k - 1], n - k)]
<1>1. \A k \in 1..n : \A s \in Polynomials : Cleared(s, n - k) \in Polynomials
  BY ClearedIn
<1>2. step \in [1..n -> [Polynomials -> Polynomials]]
  BY <1>1
<1>3. \A k \in 1..n : \A s \in Polynomials : step[k][s] = Cleared(s, n - k)
  OBVIOUS
<1> HIDE DEF step
<1>4. \A k \in 0..n : k # 0 => k \in 1..n /\ k - 1 \in 0..n
  OBVIOUS
<1>5. \E f : is(f)
  <2>1. Iterations(n, Polynomials, m, step) # {}
    BY <1>2, Iterated
  <2>2. PICK f \in [0..n -> Polynomials] :
          f[0] = m /\ \A k \in 1..n : f[k] = step[k][f[k - 1]]
    BY <2>1 DEF Iterations
  <2>3. \A k \in 1..n : f[k] = Cleared(f[k - 1], n - k)
    BY <1>3, <1>4, <2>2
  <2>4. is(f)
    BY <1>4, <2>2, <2>3
  <2>5. QED
    BY <2>4
<1> DEFINE rest == CHOOSE f : is(f)
<1>6. is(rest) /\ Remainder(m, n) = rest[n]
  <2>1. Remainder(m, n) = rest[n]
    BY Zenon DEF Remainder
  <2> HIDE DEF is
  <2>2. QED
    BY <1>5, <2>1, Zenon
<1> HIDE DEF rest
<1>7. Divides(m, n, rest)
  BY <1>4, <1>6 DEF Divides
<1>8. \A k \in 0..n : rest[k] \in Polynomials
  <2>1. rest[0] \in Polynomials
    BY <1>7 DEF Divides
  <2>2. \A k \in 1..n : rest[k - 1] \in Polynomials => rest[k] \in Polynomials
    BY <1>1, <1>7 DEF Divides
  <2>3. QED
    BY <2>1, <2>2, StaysIn
<1>9. rest \in [0..n -> Polynomials]
  BY <1>6, <1>8
<1>10. QED
  BY <1>6, <1>7, <1>9

\* One more word: everything moves up by one exponent, and the word lies below
\* all exponents that are cleared.
LEMMA ClearedMoves ==
  ASSUME NEW s \in Polynomials, NEW n \in Nat, NEW word \in SUBSET (0..15)
  PROVE  Cleared(Xor(Shift(s, 1), word), n + 1) =
           Xor(Shift(Cleared(s, n), 1), word)
<1> DEFINE G == Poly \cup {24}
           moved == Xor(Shift(s, 1), word)
<1>1. G \in SUBSET Nat
  BY DEF Poly
<1>2. /\ Shift(G, n) \in SUBSET Nat /\ Shift(G, n + 1) \in SUBSET Nat
      /\ \A k \in Nat : k \in Shift(G, n) <=> k >= n /\ k - n \in G
      /\ \A k \in Nat :
           k \in Shift(G, n + 1) <=> k >= n + 1 /\ k - (n + 1) \in G
  BY <1>1, ShiftBits
<1>3. \A k \in Nat : k \in moved <=> ((k >= 1 /\ k - 1 \in s) # (k \in word))
  BY ShiftBits DEF Xor, Polynomials
<1> HIDE DEF G, moved
<1>4. 24 + (n + 1) \in moved <=> 24 + n \in s
  BY <1>3
<1>5. CASE 24 + n \notin s
  BY <1>4, <1>5 DEF Cleared, moved
<1>6. CASE 24 + n \in s
  <2>1. Cleared(s, n) = Xor(s, Shift(G, n))
    BY <1>6 DEF Cleared, G
  <2>2. Cleared(moved, n + 1) = Xor(moved, Shift(G, n + 1))
    BY <1>4, <1>6 DEF Cleared, G
  <2>3. Xor(s, Shift(G, n)) \in SUBSET Nat
    BY <1>2 DEF Xor, Polynomials
  <2>4. \A k \in Nat : k \in Shift(Cleared(s, n), 1) <=>
          k >= 1 /\ k - 1 \in Xor(s, Shift(G, n))
    BY <2>1, <2>3, ShiftBits
  <2>5. \A k \in Nat : k \in Xor(moved, Shift(G, n + 1)) <=>
                         k \in Xor(Shift(Cleared(s, n), 1), word)
    <3>1. TAKE k \in Nat
    <3>2. k \in Xor(moved, Shift(G, n + 1)) <=>
            (k \in moved) # (k \in Shift(G, n + 1))
      BY XorBits
    <3>3. k \in Xor(Shift(Cleared(s, n), 1), word) <=>
            (k \in Shift(Cleared(s, n), 1)) # (k \in word)
      BY XorBits
    <3>4. CASE k = 0
      BY <1>2, <1>3, <2>4, <3>2, <3>3, <3>4
    <3>5. CASE k >= 1
      <4>1. k - 1 \in Xor(s, Shift(G, n)) <=>
              (k - 1 \in s) # (k - 1 \in Shift(G, n))
        BY XorBits
      <4>2. k - 1 \in Shift(G, n) <=> k \in Shift(G, n + 1)
        BY <1>2, <3>5
      <4>3. QED
        BY <1>3, <2>4, <3>2, <3>3, <3>5, <4>1, <4>2
    <3>6. QED
      BY <3>4, <3>5
  <2>6. /\ Xor(moved, Shift(G, n + 1)) \in SUBSET Nat
        /\ Xor(Shift(Cleared(s, n), 1), word) \in SUBSET Nat
    <3>1. Shift(s, 1) \in SUBSET Nat /\ word \in SUBSET Nat
      BY ShiftBits DEF Polynomials
    <3>2. Shift(Cleared(s, n), 1) \in SUBSET Nat
      BY <2>1, <2>3, ShiftBits
    <3>3. moved \in SUBSET Nat
      BY <3>1, XorIn DEF moved
    <3>4. QED
      BY <1>2, <3>1, <3>2, <3>3, XorIn
  <2>7. Xor(moved, Shift(G, n + 1)) = Xor(Shift(Cleared(s, n), 1), word)
    <3> DEFINE left_side == Xor(moved, Shift(G, n + 1))
               right_side == Xor(Shift(Cleared(s, n), 1), word)
    <3>1. /\ left_side \in SUBSET Nat /\ right_side \in SUBSET Nat
          /\ \A k \in Nat : k \in left_side <=> k \in right_side
      BY <2>5, <2>6
    <3> HIDE DEF left_side, right_side
    <3>2. left_side = right_side
      BY <3>1
    <3>3. QED
      BY <3>2 DEF left_side, right_side
  <2>8. QED
    BY <2>2, <2>7 DEF moved
<1>7. QED
  BY <1>5, <1>6 DEF moved

\* What a step of the CRC makes of its 24 bits.
Stepped(low, word) ==
  LET moved == Xor(Shift(low \ {23}, 1), word)
  IN IF 23 \in low THEN Xor(moved, Poly) ELSE moved

\* The bits of the register after a word.
LEMMA SteppedBits ==
  ASSUME NEW low \in SUBSET (0..23), NEW word \in SUBSET (0..15)
  PROVE  /\ Stepped(low, word) \subseteq 0..23
         /\ \A k \in 0..23 :
              k \in Stepped(low, word) <=>
                ((k >= 1 /\ k - 1 \in low) # (k \in word))
                  # (23 \in low /\ k \in Poly)
<1> DEFINE moved == Xor(Shift(low \ {23}, 1), word)
<1>1. /\ moved \subseteq 0..23
      /\ \A k \in 0..23 :
           k \in moved <=> ((k >= 1 /\ k - 1 \in low) # (k \in word))
  <2>1. Shift(low \ {23}, 1) \subseteq 1..23
    BY DEF Shift
  <2>2. \A k \in 0..23 : k \in Shift(low \ {23}, 1) <=> k >= 1 /\ k - 1 \in low
    <3>1. low \ {23} \in SUBSET Nat
      OBVIOUS
    <3>2. \A k \in 0..23 : k - 1 # 23
      OBVIOUS
    <3>3. QED
      BY <3>1, <3>2, ShiftBits
  <2>3. moved \subseteq 0..23
    <3>1. Shift(low \ {23}, 1) \subseteq 0..23 /\ word \subseteq 0..23
      BY <2>1
    <3>2. QED
      BY <3>1 DEF Xor
  <2>4. ASSUME NEW k \in 0..23
        PROVE  k \in moved <=> ((k >= 1 /\ k - 1 \in low) # (k \in word))
    <3>1. k \in moved <=> (k \in Shift(low \ {23}, 1)) # (k \in word)
      BY XorBits
    <3>2. QED
      BY <2>2, <3>1
  <2>5. QED
    BY <2>3, <2>4
<1>2. Poly \subseteq 0..23
  BY DEF Poly
<1>3. Stepped(low, word) = IF 23 \in low THEN Xor(moved, Poly) ELSE moved
  BY DEF Stepped
<1> HIDE DEF moved
<1>4. CASE 23 \in low
  BY <1>1, <1>2, <1>3, <1>4 DEF Xor
<1>5. CASE 23 \notin low
  BY <1>1, <1>3, <1>5
<1>6. QED
  BY <1>4, <1>5

\* mxt_crc24_step lets nothing of the bits above 23 into those below.
LEMMA CrcStepped ==
  ASSUME NEW c \in SUBSET (0..31), NEW b0, NEW b1,
         Word(b0, b1) \subseteq 0..15
  PROVE  Crc24Step(c, b0, b1) \cap 0..23 = Stepped(c \cap 0..23, Word(b0, b1))
<1> DEFINE word == Word(b0, b1)
           result == Xor(Shift(c, 1) \cap 0..31, word)
           moved == Xor(Shift((c \cap 0..23) \ {23}, 1), word)
<1>1. \A k \in 0..23 : k \in result <=> k \in moved
  <2>1. \A k \in 0..23 :
          k \in Shift(c, 1) <=> k \in Shift((c \cap 0..23) \ {23}, 1)
    BY DEF Shift
  <2>2. QED
    BY <2>1 DEF Xor
<1>2. 24 \in result <=> 23 \in c \cap 0..23
  <2>1. 24 \in Shift(c, 1) <=> 23 \in c
    BY DEF Shift
  <2>2. QED
    BY <2>1 DEF Xor
<1>3. moved \subseteq 0..23
  <2>1. Shift((c \cap 0..23) \ {23}, 1) \subseteq 1..23
    BY DEF Shift
  <2>2. QED
    BY <2>1 DEF Xor
<1>4. Crc24Step(c, b0, b1) =
        IF 24 \in result THEN Xor(result, Poly) ELSE result
  BY DEF Crc24Step
<1>5. Stepped(c \cap 0..23, word) =
        IF 23 \in c \cap 0..23 THEN Xor(moved, Poly) ELSE moved
  BY DEF Stepped
<1>6. Poly \subseteq 0..23
  BY DEF Poly
<1> HIDE DEF result, moved, word
<1>7. Stepped(c \cap 0..23, word) = Crc24Step(c, b0, b1) \cap 0..23
  BY <1>1, <1>2, <1>3, <1>4, <1>5, <1>6 DEF Xor
<1>8. QED
  BY <1>7 DEF word

\* The lowest bit of the polynomial shows what was shifted out: a step can be
\* undone, ..
LEMMA StepKeepsError ==
  ASSUME NEW a \in SUBSET (0..23), NEW b \in SUBSET (0..23),
         NEW word \in SUBSET (0..15), Stepped(a, word) = Stepped(b, word)
  PROVE  a = b
<1>1. 23 \in a <=> 23 \in b
  <2>1. 0 \in Poly
    BY DEF Poly
  <2>2. QED
    BY <2>1, SteppedBits
<1>2. \A k \in 0..22 : k \in a <=> k \in b
  <2>1. TAKE k \in 0..22
  <2>2. k + 1 \in 0..23 /\ k + 1 >= 1 /\ (k + 1) - 1 = k
    OBVIOUS
  <2>3. /\ k + 1 \in Stepped(a, word) <=>
             ((k \in a) # (k + 1 \in word)) # (23 \in a /\ k + 1 \in Poly)
        /\ k + 1 \in Stepped(b, word) <=>
             ((k \in b) # (k + 1 \in word)) # (23 \in b /\ k + 1 \in Poly)
    BY <2>2, SteppedBits
  <2>4. QED
    BY <1>1, <2>3
<1>3. \A k \in 0..23 : k \in a <=> k \in b
  BY <1>1, <1>2
<1>4. QED
  BY <1>3, SameLow

\* .. and another word makes another CRC.
LEMMA StepSeesError ==
  ASSUME NEW a \in SUBSET (0..23), NEW v \in SUBSET (0..15),
         NEW w \in SUBSET (0..15), Stepped(a, v) = Stepped(a, w)
  PROVE  v = w
<1>1. \A k \in 0..15 : k \in v <=> k \in w
  <2>1. TAKE k \in 0..15
  <2>2. k \in 0..23
    OBVIOUS
  <2>3. /\ k \in Stepped(a, v) <=> ((k >= 1 /\ k - 1 \in a) # (k \in v))
                  # (23 \in a /\ k \in Poly)
        /\ k \in Stepped(a, w) <=> ((k >= 1 /\ k - 1 \in a) # (k \in w))
                  # (23 \in a /\ k \in Poly)
    BY <2>2, SteppedBits
  <2>4. QED
    BY <2>3
<1>2. QED
  BY <1>1

\* A last exponent is cleared as the step does it.
LEMMA LastCleared ==
  ASSUME NEW low \in SUBSET (0..23), NEW word \in SUBSET (0..15)
  PROVE  Cleared(Xor(Shift(low, 1), word), 0) = Stepped(low, word)
<1> DEFINE all == Xor(Shift(low, 1), word)
<1>1. /\ Shift(low, 1) \subseteq 0..24
      /\ \A k \in 0..24 : k \in Shift(low, 1) <=> k >= 1 /\ k - 1 \in low
  <2>1. low \in SUBSET Nat
    OBVIOUS
  <2>2. \A k \in 0..24 : k \in Shift(low, 1) <=> k >= 1 /\ k - 1 \in low
    BY <2>1, ShiftBits
  <2>3. QED
    BY <2>2 DEF Shift
<1>2. all \subseteq 0..24
  <2>1. word \subseteq 0..24
    OBVIOUS
  <2>2. QED
    BY <1>1, <2>1, XorIn
<1>3. \A k \in 0..24 : k \in all <=> ((k >= 1 /\ k - 1 \in low) # (k \in word))
  BY <1>1, XorBits
<1>4. 24 \in all <=> 23 \in low
  BY <1>3
<1>5. Shift(Poly \cup {24}, 0) = Poly \cup {24} /\ Poly \subseteq 0..23
  BY DEF Shift, Poly
<1> HIDE DEF all
<1>6. CASE 23 \in low
  <2>1. Cleared(all, 0) = Xor(all, Poly \cup {24})
    BY <1>4, <1>5, <1>6 DEF Cleared
  <2>2. Xor(all, Poly \cup {24}) \subseteq 0..23
    BY <1>2, <1>4, <1>5, <1>6 DEF Xor
  <2>3. \A k \in 0..23 : k \in Xor(all, Poly \cup {24}) <=>
                           (k \in all) # (k \in Poly)
    BY DEF Xor
  <2>4. \A k \in 0..23 :
          k \in Xor(all, Poly \cup {24}) <=> k \in Stepped(low, word)
    BY <1>3, <1>6, <2>3, SteppedBits
  <2>5. Xor(all, Poly \cup {24}) = Stepped(low, word)
    <3>1. Stepped(low, word) \in SUBSET (0..23)
      BY SteppedBits
    <3>2. Xor(all, Poly \cup {24}) \in SUBSET (0..23)
      BY <2>2
    <3>3. QED
      BY <2>4, <3>1, <3>2, SameLow
  <2>6. QED
    BY <2>1, <2>5 DEF all
<1>7. CASE 23 \notin low
  <2>1. Cleared(all, 0) = all /\ all \subseteq 0..23
    BY <1>2, <1>4, <1>7 DEF Cleared
  <2>2. \A k \in 0..23 : k \in all <=> k \in Stepped(low, word)
    BY <1>3, <1>7, SteppedBits
  <2>3. all = Stepped(low, word)
    <3>1. Stepped(low, word) \in SUBSET (0..23)
      BY SteppedBits
    <3>2. QED
      BY <2>1, <2>2, <3>1, SameLow
  <2>4. QED
    BY <2>1, <2>3 DEF all
<1>8. QED
  BY <1>6, <1>7

\* The division, done word by word: what the loop of mxt_crc24 computes.
LEMMA RemainderSteps ==
  ASSUME NEW m \in Polynomials, NEW n \in Nat, NEW word \in SUBSET (0..15),
         Remainder(m, n) \subseteq 0..23
  PROVE  /\ Xor(Shift(m, 1), word) \in Polynomials
         /\ Remainder(Xor(Shift(m, 1), word), n + 1) =
              Stepped(Remainder(m, n), word)
<1> DEFINE next == Xor(Shift(m, 1), word)
<1>1. Shift(m, 1) \in SUBSET Nat /\ word \in SUBSET Nat
  BY ShiftBits DEF Polynomials
<1>2. next \in Polynomials /\ n + 1 \in Nat
  <2>1. next \in SUBSET Nat
    BY <1>1, XorIn
  <2>2. QED
    BY <2>1 DEF Polynomials
<1>3. PICK r \in [0..n -> Polynomials] :
        Divides(m, n, r) /\ Remainder(m, n) = r[n]
  BY RemainderUnfolds
<1> HIDE DEF next
<1>4. PICK s \in [0..(n + 1) -> Polynomials] :
        Divides(next, n + 1, s) /\ Remainder(next, n + 1) = s[n + 1]
  BY <1>2, RemainderUnfolds
<1>5. \A k \in 0..n : s[k] = Xor(Shift(r[k], 1), word)
  <2> DEFINE S == {k \in 0..n : s[k] = Xor(Shift(r[k], 1), word)}
  <2>1. 0 \in S
    BY <1>3, <1>4 DEF Divides, next
  <2>2. ASSUME NEW k \in 1..n, k - 1 \in S PROVE k \in S
    <3>1. /\ r[k] = Cleared(r[k - 1], n - k)
          /\ s[k] = Cleared(s[k - 1], n - k + 1)
      BY <1>3, <1>4 DEF Divides
    <3>2. r[k - 1] \in Polynomials /\ n - k \in Nat
      BY <1>3
    <3>3. s[k - 1] = Xor(Shift(r[k - 1], 1), word)
      BY <2>2
    <3>4. QED
      BY <3>1, <3>2, <3>3, ClearedMoves
  <2> HIDE DEF S
  <2>3. 0..n \subseteq S
    BY <2>1, <2>2, UpTo
  <2>4. QED
    BY <2>3 DEF S
<1>6. Remainder(next, n + 1) = Cleared(Xor(Shift(r[n], 1), word), 0)
  BY <1>3, <1>4, <1>5 DEF Divides
<1>7. r[n] \in SUBSET (0..23)
  BY <1>3
<1>8. QED
  BY <1>2, <1>3, <1>6, <1>7, LastCleared DEF next

\* A word of a buffer has sixteen bits.
LEMMA BufWordIn ==
  ASSUME NEW buf, NEW w
  PROVE  BufWord(buf, w) \in SUBSET (0..15)
BY WordBits DEF BufWord

\* The recursion that makes a polynomial of a buffer is well defined.
LEMMA PolynomialUnfolds ==
  ASSUME NEW buf, Len(buf) \in Nat
  PROVE  /\ Polynomial(buf, 0) = {}
         /\ \A w \in 0..Words(buf) : Polynomial(buf, w) \in Polynomials
         /\ \A w \in 1..Words(buf) :
              Polynomial(buf, w) =
                Xor(Shift(Polynomial(buf, w - 1), 1), BufWord(buf, w))
<1> DEFINE n == Words(buf)
           step == [w \in 1..n |-> [s \in Polynomials |->
                      Xor(Shift(s, 1), BufWord(buf, w))]]
           is(f) == f = [w \in 0..n |->
                           IF w = 0 THEN {}
                           ELSE Xor(Shift(f[w - 1], 1), BufWord(buf, w))]
<1>0. n \in Nat
  BY DEF Words
<1> HIDE DEF n
<1>1. ASSUME NEW s \in Polynomials, NEW w
      PROVE  Xor(Shift(s, 1), BufWord(buf, w)) \in Polynomials
  <2>1. Shift(s, 1) \in SUBSET Nat /\ BufWord(buf, w) \in SUBSET Nat
    BY ShiftBits, BufWordIn DEF Polynomials
  <2>2. Xor(Shift(s, 1), BufWord(buf, w)) \in SUBSET Nat
    BY <2>1, XorIn
  <2>3. QED
    BY <2>2 DEF Polynomials
<1>2. step \in [1..n -> [Polynomials -> Polynomials]]
  BY <1>1
<1>3. \A w \in 1..n : \A s \in Polynomials :
        step[w][s] = Xor(Shift(s, 1), BufWord(buf, w))
  OBVIOUS
<1> HIDE DEF step
<1>4. \A w \in 0..n : w # 0 => w \in 1..n /\ w - 1 \in 0..n
  BY <1>0
<1>5. {} \in Polynomials
  BY DEF Polynomials
<1>6. \E f : is(f)
  <2>1. Iterations(n, Polynomials, {}, step) # {}
    BY <1>0, <1>2, <1>5, Iterated
  <2>2. PICK f \in [0..n -> Polynomials] :
          f[0] = {} /\ \A w \in 1..n : f[w] = step[w][f[w - 1]]
    BY <2>1 DEF Iterations
  <2>3. \A w \in 1..n : f[w] = Xor(Shift(f[w - 1], 1), BufWord(buf, w))
    BY <1>0, <1>3, <2>2
  <2>4. is(f)
    BY <1>4, <2>2, <2>3
  <2>5. QED
    BY <2>4
<1> DEFINE first == CHOOSE f : is(f)
<1>7. is(first) /\ \A w : Polynomial(buf, w) = first[w]
  <2>1. \A w : Polynomial(buf, w) = first[w]
    BY Zenon DEF Polynomial, n
  <2> HIDE DEF is
  <2>2. QED
    BY <1>6, <2>1, Zenon
<1> HIDE DEF first
<1>8. /\ first[0] = {}
      /\ \A w \in 1..n :
           first[w] = Xor(Shift(first[w - 1], 1), BufWord(buf, w))
  <2>1. first = [w \in 0..n |->
                   IF w = 0 THEN {}
                   ELSE Xor(Shift(first[w - 1], 1), BufWord(buf, w))]
    BY <1>7
  <2>2. 0 \in 0..n /\ \A w \in 1..n : w \in 0..n /\ w # 0
    BY <1>0
  <2>3. QED
    BY <2>1, <2>2
<1>9. \A w \in 0..n : first[w] \in Polynomials
  <2>1. first[0] \in Polynomials
    BY <1>5, <1>8
  <2>2. \A w \in 1..n :
          first[w - 1] \in Polynomials => first[w] \in Polynomials
    BY <1>1, <1>8
  <2>3. QED
    BY <1>0, <2>1, <2>2, StaysIn
<1>10. QED
  BY <1>7, <1>8, <1>9 DEF n

\* The CRC of a buffer is what the loop computes, word by word.
LEMMA RunningCrcSteps ==
  ASSUME NEW buf, Len(buf) \in Nat
  PROVE  /\ RunningCrc(buf, 0) = {}
         /\ \A w \in 0..Words(buf) : RunningCrc(buf, w) \in SUBSET (0..23)
         /\ \A w \in 1..Words(buf) :
              RunningCrc(buf, w) =
                Stepped(RunningCrc(buf, w - 1), BufWord(buf, w))
<1> DEFINE n == Words(buf)
           f == [w \in 0..n |-> RunningCrc(buf, w)]
<1>1. n \in Nat
  BY DEF Words
<1>2. RunningCrc(buf, 0) = {}
  <2>1. {} \in Polynomials /\ 0 \in Nat
    BY DEF Polynomials
  <2>2. PICK rest : Divides({}, 0, rest) /\ Remainder({}, 0) = rest[0]
    BY <2>1, RemainderUnfolds
  <2>3. QED
    BY <2>2, PolynomialUnfolds DEF RunningCrc, Divides
<1> HIDE DEF n
<1>3. ASSUME NEW w \in 1..n, RunningCrc(buf, w - 1) \in SUBSET (0..23)
      PROVE  RunningCrc(buf, w) =
               Stepped(RunningCrc(buf, w - 1), BufWord(buf, w))
  <2>1. w - 1 \in Nat /\ w - 1 \in 0..n /\ (w - 1) + 1 = w
    BY <1>1
  <2>2. Polynomial(buf, w - 1) \in Polynomials
    BY <2>1, PolynomialUnfolds DEF n
  <2>3. Polynomial(buf, w) =
          Xor(Shift(Polynomial(buf, w - 1), 1), BufWord(buf, w))
    BY PolynomialUnfolds DEF n
  <2>4. BufWord(buf, w) \in SUBSET (0..15)
    BY BufWordIn
  <2>5. Remainder(Polynomial(buf, w), (w - 1) + 1) =
          Stepped(Remainder(Polynomial(buf, w - 1), w - 1), BufWord(buf, w))
    BY <1>3, <2>1, <2>2, <2>3, <2>4, RemainderSteps, SMTT(30) DEF RunningCrc
  <2>6. QED
    BY <2>1, <2>5 DEF RunningCrc
<1>4. \A w \in 0..n : f[w] \in SUBSET (0..23)
  <2>1. f[0] \in SUBSET (0..23)
    BY <1>1, <1>2
  <2>2. ASSUME NEW w \in 1..n, f[w - 1] \in SUBSET (0..23)
        PROVE  f[w] \in SUBSET (0..23)
    <3>1. RunningCrc(buf, w - 1) \in SUBSET (0..23)
      BY <1>1, <2>2
    <3>2. RunningCrc(buf, w) \in SUBSET (0..23)
      <4>1. BufWord(buf, w) \in SUBSET (0..15)
        BY BufWordIn
      <4>2. Stepped(RunningCrc(buf, w - 1), BufWord(buf, w))
              \in SUBSET (0..23)
        BY <3>1, <4>1, SteppedBits
      <4>3. QED
        BY <1>3, <3>1, <4>2
    <3>3. QED
      BY <1>1, <3>2
  <2> HIDE DEF f
  <2>3. QED
    BY <1>1, <2>1, <2>2, StaysIn
<1>5. \A w \in 0..n : RunningCrc(buf, w) \in SUBSET (0..23)
  BY <1>4
<1>6. \A w \in 1..n : w - 1 \in 0..n
  BY <1>1
<1>7. QED
  BY <1>2, <1>3, <1>5, <1>6 DEF n
-----------------------------------------------------------------------------

\* The lines of a table are bytes that say what they said.
LEMMA ObjectBytesAre ==
  ASSUME NEW obj \in ObjectRecord
  PROVE  /\ ObjectBytes(obj) \in [1..6 -> Bytes]
         /\ obj = [type |-> ObjectBytes(obj)[1],
                   address |-> ObjectBytes(obj)[2] + 256 * ObjectBytes(obj)[3],
                   size_minus_one |-> ObjectBytes(obj)[4],
                   instances_minus_one |-> ObjectBytes(obj)[5],
                   num_report_ids |-> ObjectBytes(obj)[6]]
<1>1. /\ obj.type \in Bytes /\ obj.size_minus_one \in Bytes
      /\ obj.instances_minus_one \in Bytes /\ obj.num_report_ids \in Bytes
      /\ obj.address \in Uint16
  BY DEF ObjectRecord
<1>2. \A a \in Uint16 : /\ a % 256 \in Bytes /\ a \div 256 \in Bytes
                        /\ a = (a % 256) + 256 * (a \div 256)
  BY DEF Uint16, Bytes
<1>3. obj = [type |-> obj.type, address |-> obj.address,
             size_minus_one |-> obj.size_minus_one,
             instances_minus_one |-> obj.instances_minus_one,
             num_report_ids |-> obj.num_report_ids]
  BY DEF ObjectRecord
<1>4. \A k \in 1..6 : ObjectBytes(obj)[k] \in Bytes
  BY <1>1, <1>2 DEF ObjectBytes
<1>5. ObjectBytes(obj) \in [1..6 -> Bytes]
  BY <1>4 DEF ObjectBytes
<1>6. obj.address = ObjectBytes(obj)[2] + 256 * ObjectBytes(obj)[3]
  BY <1>1, <1>2 DEF ObjectBytes
<1>7. QED
  BY <1>3, <1>5, <1>6 DEF ObjectBytes

\* Object tables: as long as a byte can say.
Listed == {t \in Seq(ObjectRecord) : Len(t) <= 255}

\* The block without its checksum: the header and the objects, byte by byte.
LEMMA BodyBytes ==
  ASSUME NEW t \in Listed
  PROVE  /\ InfoBody(t) \in Seq(Bytes)
         /\ Len(InfoBody(t)) = InfoSize + Len(t) * ObjectSize
         /\ InfoBody(t)[InfoSize] = Len(t)
         /\ \A i \in 1..Len(t), k \in 1..6 :
              InfoBody(t)[InfoSize + (i - 1) * ObjectSize + k] =
                ObjectBytes(t[i])[k]
<1> DEFINE n == Len(t)
           header == <<164, 24, 32, 170, 30, 18, n>>
           size == InfoSize + n * ObjectSize
<1>1. n \in Bytes
  <2>1. t \in Seq(ObjectRecord) /\ Len(t) <= 255
    BY DEF Listed
  <2>2. Len(t) \in Nat
    BY <2>1
  <2>3. \A k \in Nat : k <= 255 => k \in Bytes
    BY DEF Bytes
  <2>4. QED
    BY <2>1, <2>2, <2>3
<1>2. (\A p \in 1..7 : header[p] \in Bytes) /\ header[7] = n
  <2>1. {164, 24, 32, 170, 30, 18} \subseteq Bytes
    BY DEF Bytes
  <2>2. QED
    BY <1>1, <2>1
<1>3. \A i \in 1..n : t[i] \in ObjectRecord
  BY DEF Listed
<1>4. InfoBody(t) = [p \in 1..size |->
        IF p <= InfoSize THEN header[p]
        ELSE ObjectBytes(t[((p - InfoSize - 1) \div ObjectSize) + 1])
               [((p - InfoSize - 1) % ObjectSize) + 1]]
  BY DEF InfoBody
<1> HIDE DEF n, header
<1>5. ASSUME NEW p \in 1..size
      PROVE  InfoBody(t)[p] \in Bytes
  <2>1. CASE p <= InfoSize
    BY <1>2, <1>4, <2>1 DEF InfoSize
  <2>2. CASE ~(p <= InfoSize)
    <3> DEFINE i == ((p - InfoSize - 1) \div ObjectSize) + 1
               k == ((p - InfoSize - 1) % ObjectSize) + 1
    <3>1. i \in 1..n /\ k \in 1..6
      BY <1>1, <2>2 DEF InfoSize, ObjectSize, Bytes
    <3>2. InfoBody(t)[p] = ObjectBytes(t[i])[k]
      BY <1>4, <2>2
    <3> HIDE DEF i, k
    <3>3. QED
      BY <1>3, <3>1, <3>2, ObjectBytesAre
  <2>3. QED
    BY <2>1, <2>2
<1>6. size \in Nat
  BY <1>1 DEF InfoSize, ObjectSize, Bytes
<1>7. InfoBody(t) \in [1..size -> Bytes]
  BY <1>4, <1>5
<1>8. ASSUME NEW i \in 1..n, NEW k \in 1..6
      PROVE  InfoBody(t)[InfoSize + (i - 1) * ObjectSize + k] =
               ObjectBytes(t[i])[k]
  <2> DEFINE p == InfoSize + (i - 1) * ObjectSize + k
  <2>1. p \in 1..size /\ ~(p <= InfoSize)
    BY <1>1 DEF InfoSize, ObjectSize, Bytes
  <2>2. /\ ((p - InfoSize - 1) \div ObjectSize) + 1 = i
        /\ ((p - InfoSize - 1) % ObjectSize) + 1 = k
    BY <1>1 DEF InfoSize, ObjectSize, Bytes
  <2> HIDE DEF p
  <2>3. InfoBody(t)[p] = ObjectBytes(t[i])[k]
    BY <1>4, <2>1, <2>2
  <2>4. QED
    BY <2>3 DEF p
<1>9. InfoBody(t)[InfoSize] = n
  BY <1>1, <1>2, <1>4 DEF InfoSize, ObjectSize, Bytes
<1>10. InfoBody(t) \in Seq(Bytes) /\ Len(InfoBody(t)) = size
  <2> HIDE DEF size
  <2>1. QED
    BY <1>6, <1>7
<1>11. QED
  BY <1>8, <1>9, <1>10 DEF n

\* What the controller's memory holds.
LEMMA BlockBytes ==
  ASSUME NEW t \in Listed
  PROVE  LET block_t == InfoBlock(t)
             offset == Len(InfoBody(t))
         IN /\ block_t \in [1..(offset + ChecksumSize) -> Bytes]
            /\ Len(block_t) = offset + ChecksumSize
            /\ \A p \in 1..offset : block_t[p] = InfoBody(t)[p]
            /\ StoredCrc(block_t[offset + 1], block_t[offset + 2],
                         block_t[offset + 3]) = ReferenceCrc(InfoBody(t))
<1> DEFINE body == InfoBody(t)
           c == ReferenceCrc(body)
           part(n) == {k \in 0..7 : k + n \in c}
           last == <<ByteOf(part(0)), ByteOf(part(8)), ByteOf(part(16))>>
<1>1. body \in Seq(Bytes) /\ Len(body) \in Nat
  BY BodyBytes
<1>2. c \in SUBSET (0..23)
  <2>1. Words(body) \in 0..Words(body)
    BY <1>1 DEF Words
  <2>2. QED
    BY <1>1, <2>1, RunningCrcSteps DEF RunningCrc, ReferenceCrc
<1>3. InfoBlock(t) = body \o last
  BY DEF InfoBlock
<1> HIDE DEF body, c
<1>4. \A n : part(n) \in SUBSET (0..7)
  OBVIOUS
<1>5. \A n : ByteOf(part(n)) \in Bytes /\ Bits(ByteOf(part(n))) = part(n)
  BY <1>4, ByteOfBits
<1>6. \A n : \A k \in 0..7 : k \in Bits(ByteOf(part(n))) <=> k + n \in c
  BY <1>5
<1> HIDE DEF part
<1>7. last \in Seq(Bytes) /\ Len(last) = 3
  BY <1>5
<1>8. /\ InfoBlock(t) \in Seq(Bytes)
      /\ Len(InfoBlock(t)) = Len(body) + 3
      /\ \A p \in 1..Len(body) : InfoBlock(t)[p] = body[p]
      /\ \A k \in 1..3 : InfoBlock(t)[Len(body) + k] = last[k]
  <2> HIDE DEF last
  <2>1. /\ body \o last \in Seq(Bytes)
        /\ Len(body \o last) = Len(body) + Len(last)
        /\ \A p \in 1..(Len(body) + Len(last)) :
             (body \o last)[p] = IF p <= Len(body) THEN body[p]
                                                  ELSE last[p - Len(body)]
    BY <1>1, <1>7, ConcatProperties
  <2> DEFINE both == body \o last
  <2> HIDE DEF both
  <2>2. QED
    BY <1>1, <1>3, <1>7, <2>1 DEF both
<1>9. StoredCrc(last[1], last[2], last[3]) = c
  <2> DEFINE stored == StoredCrc(last[1], last[2], last[3])
  <2>1. /\ stored \in SUBSET (0..23)
        /\ \A k \in 0..7 : /\ k \in stored <=> k + 0 \in c
                           /\ k + 8 \in stored <=> k + 8 \in c
                           /\ k + 16 \in stored <=> k + 16 \in c
    BY <1>6, StoredBits
  <2> HIDE DEF stored
  <2>2. \A k \in 0..23 : k \in stored <=> k \in c
    <3>1. TAKE k \in 0..23
    <3>2. CASE k \in 0..7
      BY <2>1, <3>2
    <3>3. CASE k \in 8..15
      <4>1. k - 8 \in 0..7 /\ (k - 8) + 8 = k
        BY <3>3
      <4>2. QED
        BY <2>1, <4>1
    <3>4. CASE k \in 16..23
      <4>1. k - 16 \in 0..7 /\ (k - 16) + 16 = k
        BY <3>4
      <4>2. QED
        BY <2>1, <4>1
    <3>5. QED
      BY <3>2, <3>3, <3>4
  <2>3. QED
    BY <1>2, <2>1, <2>2, SameLow DEF stored
<1>10. QED
  <2> HIDE DEF last
  <2>1. /\ InfoBlock(t)[Len(body) + 1] = last[1]
        /\ InfoBlock(t)[Len(body) + 2] = last[2]
        /\ InfoBlock(t)[Len(body) + 3] = last[3]
    BY <1>8
  <2>2. QED
    BY <1>1, <1>8, <1>9, <2>1 DEF body, c, ChecksumSize
-----------------------------------------------------------------------------

\* The board, the table and the memory that holds it never change.
LEMMA GivenKept ==
  ASSUME [Next]_vars
  PROVE  UNCHANGED given
BY DEF Next, InitStep, Start, ReadHeader, ReadBlock, CrcStep, CrcCompare,
  ParseStep, ParseEnd, ReadT7, SendReset, Poll, PollTimeout, PollMessage,
  Drain, ReadNumtch, WriteNumtch, ReadChgMode, WriteChgMode, ProbeSubmit,
  ProbeTake, ProbeTimeout, WorkStart, WorkEnd, ChipUp, ChipDown, ChipReports,
  StartDrain, Goto, vars

\* What the board has does not change with it.
LEMMA BoardKept ==
  ASSUME UNCHANGED given
  PROVE  /\ ResetGpio' = ResetGpio /\ WarmStart' = WarmStart
         /\ FaultyBus' = FaultyBus /\ SlowReset' = SlowReset
         /\ InterruptBuild' = InterruptBuild
         /\ ChipAddr' = ChipAddr
         /\ \A n \in 1..2 : Frame(n)' = Frame(n)
BY DEF given, ResetGpio, WarmStart, FaultyBus, SlowReset, InterruptBuild,
  ChipAddr, OtherAddr, Frame, FrameReused

\* The two addresses are different ones, and none is None.
LEMMA AddressFacts ==
  /\ DtAddr \in Addresses /\ AltAddr \in Addresses /\ AltAddr # DtAddr
  /\ None \notin Addresses
  /\ \A n \in 1..2 : ProbeAddr(n) \in Addresses
  /\ ChipAddr \in Addresses
BY InitAssumption DEF AltAddr, ProbeAddr, ChipAddr, None

\* A transfer that succeeds was with the controller, which was not down; on a
\* bus that works one with a controller that is up succeeds.
LEMMA TransferFacts ==
  ASSUME NEW addr, NEW ok \in Transfer(addr)
  PROVE  /\ ok \in BOOLEAN
         /\ ok => addr = ChipAddr /\ chip.state # "down"
         /\ ~FaultyBus /\ addr = ChipAddr /\ chip.state # "down" => ok
BY DEF Transfer, Answers

-----------------------------------------------------------------------------

\* The register of mxt_crc24_step has 32 bits.
LEMMA CrcBits ==
  ASSUME NEW c, NEW b0, NEW b1
  PROVE  Crc24Step(c, b0, b1) \subseteq 0..31
<1>1. Shift(Bits(b1), 8) \subseteq 0..31
  BY BitsOf DEF Shift
<1>2. Word(b0, b1) \subseteq 0..31
  BY <1>1, BitsOf DEF Word
<1> DEFINE result == Xor(Shift(c, 1) \cap 0..31, Word(b0, b1))
<1>3. result \subseteq 0..31
  BY <1>2 DEF Xor
<1>4. Xor(result, Poly) \subseteq 0..31
  BY <1>3 DEF Xor, Poly
<1>5. QED
  BY <1>3, <1>4 DEF Crc24Step

\* What the prover needs to know of sums of bytes.
LEMMA ByteSums ==
  /\ \A a \in Bytes :
       a \in Nat /\ a + 1 \in Int /\ a - 1 \in Int /\ a - 2 \in Int
  /\ \A a, b \in Bytes : a + b - 1 \in Int
BY DEF Bytes

\* An address is two bytes.
LEMMA AddressRange ==
  /\ \A a \in Uint16 : a \in Nat
  /\ \A a, b \in Bytes : a + 256 * b \in Uint16
<1>1. \A a \in Uint16 : a \in Nat
  BY DEF Uint16
<1>2. \A a, b \in Bytes : a + 256 * b \in Uint16
  BY DEF Bytes, Uint16
<1>3. QED
  BY <1>1, <1>2

\* A uint8_t keeps a byte of anything.
LEMMA ByteRange ==
  ASSUME NEW n \in Int
  PROVE  Byte(n) \in Bytes
BY DEF Byte, Bytes

\* A turn of the loop over the table keeps addresses and bytes.
LEMMA ParseObjectRange ==
  ASSUME NEW d \in InfoRecord, NEW obj \in ObjectRecord
  PROVE  ParseObject(d, obj) \in InfoRecord
<1> DEFINE size == Byte(obj.size_minus_one + 1)
           ids == IdsOf(obj)
<1>0. /\ obj.size_minus_one + 1 \in Int
      /\ obj.instances_minus_one + 1 \in Int
      /\ obj.num_report_ids \in Nat /\ obj.num_report_ids - 2 \in Int
      /\ d.reportid + obj.num_report_ids - 1 \in Int
  <2>1. /\ obj.size_minus_one \in Bytes /\ obj.instances_minus_one \in Bytes
        /\ obj.num_report_ids \in Bytes
    BY DEF ObjectRecord
  <2>2. d.reportid \in Bytes
    BY DEF InfoRecord
  <2>3. QED
    BY <2>1, <2>2, ByteSums
<1>1. size \in Bytes
  BY <1>0, ByteRange
<1>2. ids \in Nat
  <2>1. Byte(obj.instances_minus_one + 1) \in Nat
    <3>1. Byte(obj.instances_minus_one + 1) \in Bytes
      BY <1>0, ByteRange
    <3>2. QED
      BY <3>1 DEF Bytes
  <2>2. QED
    BY <1>0, <2>1 DEF IdsOf
<1>3. /\ Byte(size - 1) \in Bytes
      /\ Byte(obj.num_report_ids - 2) \in Bytes
      /\ Byte(d.reportid + obj.num_report_ids - 1) \in Bytes
  <2>1. size - 1 \in Int
    BY <1>1 DEF Bytes
  <2>2. QED
    BY <1>0, <2>1, ByteRange
<1>4. \A r \in Bytes : Byte(r + ids) \in Bytes
  BY <1>2, ByteRange DEF Bytes
<1>5. obj.address \in Nat
  <2>1. obj.address \in Uint16
    BY DEF ObjectRecord
  <2>2. QED
    BY <2>1, AddressRange
<1> DEFINE kept ==
      CASE obj.type = 5 -> [d EXCEPT !.t5_address = obj.address,
                                     !.t5_msg_size = Byte(size - 1)]
        [] obj.type = 6 -> [d EXCEPT !.t6_address = obj.address,
                                     !.t6_reportid = d.reportid]
        [] obj.type = 7 -> [d EXCEPT !.t7_address = obj.address]
        [] obj.type = 18 -> [d EXCEPT !.t18_address = obj.address]
        [] obj.type = 44 -> [d EXCEPT !.t44_address = obj.address]
        [] obj.type = 100 ->
             [d EXCEPT !.t100_address = obj.address,
                       !.t100_reportid_min = d.reportid,
                       !.num_touchids = Byte(obj.num_report_ids - 2),
                       !.t100_reportid_max =
                         Byte(d.reportid + obj.num_report_ids - 1)]
        [] OTHER -> d
<1>6. kept \in InfoRecord
  <2> HIDE DEF size, ids
  <2>1. CASE obj.type = 5
    <3>1. kept = [d EXCEPT !.t5_address = obj.address,
                           !.t5_msg_size = Byte(size - 1)]
      BY <2>1
    <3> HIDE DEF kept
    <3>2. QED
      BY <1>3, <1>5, <3>1 DEF InfoRecord
  <2>2. CASE obj.type = 6
    <3>1. kept = [d EXCEPT !.t6_address = obj.address,
                           !.t6_reportid = d.reportid]
      BY <2>2
    <3> HIDE DEF kept
    <3>2. QED
      BY <1>3, <1>5, <3>1 DEF InfoRecord
  <2>3. CASE obj.type = 7
    BY <2>3, <1>5 DEF InfoRecord
  <2>4. CASE obj.type = 18
    BY <2>4, <1>5 DEF InfoRecord
  <2>5. CASE obj.type = 44
    BY <2>5, <1>5 DEF InfoRecord
  <2>6. CASE obj.type = 100
    <3>1. \A a \in Nat, r, n, m \in Bytes :
            [d EXCEPT !.t100_address = a, !.t100_reportid_min = r,
                      !.num_touchids = n, !.t100_reportid_max = m]
              \in InfoRecord
      BY DEF InfoRecord
    <3>2. d.reportid \in Bytes
      BY DEF InfoRecord
    <3>3. kept = [d EXCEPT !.t100_address = obj.address,
                           !.t100_reportid_min = d.reportid,
                           !.num_touchids = Byte(obj.num_report_ids - 2),
                           !.t100_reportid_max =
                             Byte(d.reportid + obj.num_report_ids - 1)]
      BY <2>6
    <3> HIDE DEF kept
    <3>4. QED
      BY <1>3, <1>5, <3>1, <3>2, <3>3
  <2>7. CASE obj.type \notin {5, 6, 7, 18, 44, 100}
    BY <2>7
  <2>8. QED
    BY <2>1, <2>2, <2>3, <2>4, <2>5, <2>6, <2>7
<1>7. ParseObject(d, obj) = [kept EXCEPT !.reportid = Byte(@ + ids)]
  BY DEF ParseObject
<1> HIDE DEF kept, ids
<1>8. QED
  BY <1>4, <1>6, <1>7 DEF InfoRecord

\* Behind the limits there are no more touches than slots.
LEMMA LimitedRange ==
  ASSUME NEW d \in InfoRecord
  PROVE  /\ Limited(d) \in InfoRecord
         /\ Limited(d).num_touchids <= MaxTouches
<1> DEFINE available == Smallest(d.num_touchids, MaxTouches)
           limit == IF CfgTouches > 0 THEN Smallest(available, CfgTouches)
                                      ELSE available
<1>1. available \in Bytes /\ available <= MaxTouches
  BY InfoAssumption DEF Smallest, InfoRecord, Bytes
<1>2. limit \in Bytes /\ limit <= MaxTouches
  BY <1>1, InfoAssumption DEF Smallest, Bytes
<1>3. Limited(d) = [d EXCEPT !.num_touchids = limit]
  BY DEF Limited
<1> HIDE DEF limit
<1>4. QED
  BY <1>2, <1>3 DEF InfoRecord

\* A byte with one bit inverted is a byte.
LEMMA OneBit ==
  \A b \in Bytes, w \in {1, 2, 4, 8, 16, 32, 64, 128} :
    /\ (b \div w) % 2 = 1 => b - w \in Bytes
    /\ (b \div w) % 2 # 1 => b + w \in Bytes
<1>1. \A b \in Bytes, w \in {1, 2, 4, 8} :
        /\ (b \div w) % 2 = 1 => b - w \in Bytes
        /\ (b \div w) % 2 # 1 => b + w \in Bytes
  BY DEF Bytes
<1>2. \A b \in Bytes, w \in {16, 32, 64, 128} :
        /\ (b \div w) % 2 = 1 => b - w \in Bytes
        /\ (b \div w) % 2 # 1 => b + w \in Bytes
  BY DEF Bytes
<1>3. QED
  BY <1>1, <1>2

\* A read delivers bytes, also when noise inverts one of their bits.
LEMMA DeliveredRange ==
  ASSUME GivenOK, NEW len \in Nat, NEW bytes \in Delivered(len)
  PROVE  bytes \in [1..len -> Bytes]
<1> DEFINE first == [p \in 1..len |->
                       IF p <= Len(memory) THEN memory[p] ELSE 0]
<1>1. first \in [1..len -> Bytes]
  <2>1. ASSUME NEW p \in 1..len, p <= Len(memory)
        PROVE  memory[p] \in Bytes
    BY <2>1 DEF GivenOK
  <2>2. 0 \in Bytes
    BY DEF Bytes
  <2>3. QED
    BY <2>1, <2>2
<1> HIDE DEF first
<1>2. ASSUME NEW at \in Flips, at[1] <= len
      PROVE  FlipBit(first, at) \in [1..len -> Bytes]
  <2>1. at[1] \in 1..len /\ at[2] \in {1, 2, 4, 8, 16, 32, 64, 128}
    BY <1>2, InitAssumption
  <2>2. PICK b \in Bytes : b = first[at[1]]
    BY <1>1, <2>1
  <2>3. /\ (b \div at[2]) % 2 = 1 => b - at[2] \in Bytes
        /\ (b \div at[2]) % 2 # 1 => b + at[2] \in Bytes
    BY <2>1, OneBit
  <2>4. QED
    BY <1>1, <2>1, <2>2, <2>3 DEF FlipBit
<1>3. \/ bytes = first
      \/ \E at \in Flips : at[1] <= len /\ bytes = FlipBit(first, at)
  BY DEF Delivered, first
<1>4. QED
  BY <1>1, <1>2, <1>3

-----------------------------------------------------------------------------

\* The queue before and behind a read of a message.
LEMMA QueueFacts ==
  ASSUME ChipRange
  PROVE  /\ TakeMessage =>
              /\ chip' = [chip EXCEPT !.queue = chip'.queue]
              /\ chip'.queue \in Seq(Messages)
              /\ Len(chip'.queue) <= QueueCap
         /\ Len(chip.queue) \in Nat
         /\ chip.queue # <<>> => Len(chip.queue) > 0
<1>1. chip.queue \in Seq(Messages) /\ Len(chip.queue) <= QueueCap
  BY DEF ChipRange
<1> DEFINE rest == IF chip.queue = <<>> THEN chip.queue ELSE Tail(chip.queue)
<1>2. rest \in Seq(Messages) /\ Len(rest) <= QueueCap
  BY <1>1, InitAssumption
<1>3. TakeMessage => chip' = [chip EXCEPT !.queue = rest]
  BY DEF TakeMessage
<1> HIDE DEF rest
<1>4. TakeMessage => chip'.queue = rest
  BY <1>3 DEF ChipRange
<1>5. QED
  BY <1>1, <1>2, <1>3, <1>4

\* A controller with a new state and queue is one.
LEMMA ChipMoves ==
  ASSUME ChipRange, NEW s \in {"up", "late", "down"},
         NEW q \in Seq(Messages), Len(q) <= QueueCap,
         chip' = [chip EXCEPT !.state = s, !.queue = q]
  PROVE  ChipRange'
BY DEF ChipRange

\* The controller's state and settings stay in their ranges.
LEMMA ChipStep ==
  ASSUME ChipRange, BlockRange, [Next]_vars
  PROVE  ChipRange'
<1> USE DEF ChipRange
<1>0. <<>> \in Seq(Messages) /\ Len(<<>>) <= QueueCap
  BY InitAssumption
<1>1. CASE ChipUp
  <2>1. chip' = [state |-> "up", queue |-> <<"reset">>, numtch |-> NvmTouches,
                 mode1 |-> FALSE, t7 |-> "nvm"]
    BY <1>1 DEF ChipUp
  <2>2. <<"reset">> \in Seq(Messages) /\ Len(<<"reset">>) <= QueueCap
    BY InitAssumption DEF Messages
  <2>3. NvmTouches \in Bytes
    BY DEF NvmTouches, Bytes
  <2>4. QED
    BY <2>1, <2>2, <2>3
<1>2. CASE ChipDown
  BY <1>2 DEF ChipDown
<1>3. ASSUME NEW m \in Messages \ {"reset"}, ChipReports(m)
      PROVE  ChipRange'
  <2>1. /\ chip.queue \in Seq(Messages) /\ Len(chip.queue) < QueueCap
        /\ chip' = [chip EXCEPT !.queue = Append(chip.queue, m)]
    BY <1>3 DEF ChipReports
  <2> DEFINE q == Append(chip.queue, m)
  <2>2. q \in Seq(Messages) /\ Len(q) <= QueueCap
    BY <2>1, InitAssumption
  <2> HIDE DEF q
  <2>3. chip' = [chip EXCEPT !.queue = q]
    BY <2>1 DEF q
  <2>4. QED
    BY <2>2, <2>3
<1>4. CASE Start
  BY <1>0, <1>4, ChipMoves DEF Start, HwReset
<1>5. CASE SendReset
  BY <1>0, <1>5, ChipMoves DEF SendReset
<1>6. CASE PollMessage
  BY <1>6, QueueFacts DEF PollMessage
<1>7. CASE Drain
  BY <1>7, QueueFacts DEF Drain
<1>8. CASE WriteNumtch
  BY <1>8 DEF WriteNumtch, BlockRange, InfoRecord
<1>9. CASE WriteChgMode
  BY <1>9 DEF WriteChgMode
<1>10. CASE UNCHANGED chip
  BY <1>10
<1>11. QED
  BY <1>1, <1>2, <1>3, <1>4, <1>5, <1>6, <1>7, <1>8, <1>9, <1>10
  DEF Next, InitStep, ReadHeader, ReadBlock, CrcStep, CrcCompare, ParseStep,
    ParseEnd, ReadT7, Poll, PollTimeout, ReadNumtch, ReadChgMode, ProbeSubmit,
    ProbeTake, ProbeTimeout, WorkStart, WorkEnd, vars

\* The probes' frames and work items are those of two probes.
LEMMA ProbeStep ==
  ASSUME ProbeRange, [Next]_vars
  PROVE  ProbeRange'
<1> USE DEF ProbeRange
<1>0. \A n \in 1..2 : Frame(n) \in 1..2
  BY DEF Frame
<1>1. ASSUME NEW n \in 1..2, ProbeSubmit(n) PROVE ProbeRange'
  <2>1. worker' \in [pending : Seq(1..2), running : {None, 1, 2},
                     addr : Addresses]
    <3> DEFINE queued == Append(worker.pending, Frame(n))
    <3>1. queued \in Seq(1..2)
      BY <1>0
    <3>2. worker' = [worker EXCEPT !.pending = queued]
      BY <1>1 DEF ProbeSubmit
    <3> HIDE DEF queued
    <3>3. QED
      BY <3>1, <3>2
  <2> DEFINE new == [addr |-> ProbeAddr(n), result |-> "timeout",
                     done |-> FALSE]
  <2>2. frames' = [frames EXCEPT ![Frame(n)] = new]
    BY <1>1 DEF ProbeSubmit
  <2>3. new \in [addr : Addresses, done : BOOLEAN,
                 result : {"timeout", "found", "nothing"}]
    BY AddressFacts
  <2> HIDE DEF new
  <2>4. QED
    BY <1>0, <1>1, <2>1, <2>2, <2>3 DEF ProbeSubmit, dataVars
<1>2. ASSUME NEW n \in 1..2, ProbeTake(n) PROVE ProbeRange'
  BY <1>2, AddressFacts DEF ProbeTake, probeVars
<1>3. CASE WorkStart
  <2> DEFINE f == Head(worker.pending)
         rest == Tail(worker.pending)
  <2>1. f \in 1..2 /\ rest \in Seq(1..2)
    BY <1>3 DEF WorkStart
  <2>2. frames[f].addr \in Addresses
    BY <2>1
  <2>3. worker' = [pending |-> rest, running |-> f, addr |-> frames[f].addr]
    BY <1>3 DEF WorkStart
  <2> HIDE DEF f, rest
  <2>4. f \in {None, 1, 2}
    BY <2>1
  <2>5. worker' \in [pending : Seq(1..2), running : {None, 1, 2},
                     addr : Addresses]
    BY <2>1, <2>2, <2>3, <2>4
  <2>6. QED
    BY <1>3, <2>5 DEF WorkStart, dataVars
<1>4. CASE WorkEnd
  <2>1. worker.running \in 1..2 /\ worker' = [worker EXCEPT !.running = None]
    BY <1>4 DEF WorkEnd, None
  <2>2. PICK r \in {"found", "nothing"} :
          frames' = [frames EXCEPT ![worker.running].result = r,
                                   ![worker.running].done = TRUE]
    BY <1>4 DEF WorkEnd
  <2>3. worker' \in [pending : Seq(1..2), running : {None, 1, 2},
                     addr : Addresses]
    BY <2>1
  <2>4. PICK old \in [addr : Addresses, done : BOOLEAN,
                      result : {"timeout", "found", "nothing"}] :
          old = frames[worker.running]
    BY <2>1
  <2> DEFINE new == [old EXCEPT !.result = r, !.done = TRUE]
  <2>5. new \in [addr : Addresses, done : BOOLEAN,
                 result : {"timeout", "found", "nothing"}]
    OBVIOUS
  <2>7. frames' = [frames EXCEPT ![worker.running] = new]
    BY <2>1, <2>2, <2>4
  <2> HIDE DEF new
  <2>8. QED
    BY <1>4, <2>1, <2>3, <2>5, <2>7 DEF WorkEnd, dataVars
<1>5. CASE UNCHANGED <<worker, frames, actual_address>>
  BY <1>5
<1>6. QED
  BY <1>1, <1>2, <1>3, <1>4, <1>5
  DEF Next, InitStep, Start, ReadHeader, ReadBlock, CrcStep, CrcCompare,
    ParseStep, ParseEnd, ReadT7, SendReset, Poll, PollTimeout, PollMessage,
    Drain, ReadNumtch, WriteNumtch, ReadChgMode, WriteChgMode, ProbeTimeout,
    ChipUp, ChipDown, ChipReports, StartDrain, Goto, vars, dataVars,
    probeVars

\* Every object is read from within the block.
LEMMA ObjectInBlock ==
  ASSUME num_objects \in Bytes, block \in [1..BlockSize -> Bytes],
         NEW i \in 1..num_objects
  PROVE  ObjectAt(block, i) \in ObjectRecord
<1> DEFINE b(k) == block[InfoSize + (i - 1) * ObjectSize + k]
<1>1. ASSUME NEW k \in 1..6 PROVE b(k) \in Bytes
  <2>1. InfoSize + (i - 1) * ObjectSize + k \in 1..BlockSize
    BY DEF InfoSize, ObjectSize, ChecksumSize, BlockSize, Bytes
  <2>2. QED
    BY <2>1
<1>2. ObjectAt(block, i) =
        [type |-> b(1), address |-> b(2) + 256 * b(3), size_minus_one |-> b(4),
         instances_minus_one |-> b(5), num_report_ids |-> b(6)]
  BY DEF ObjectAt
<1> HIDE DEF b
<1>3. b(2) + 256 * b(3) \in Uint16
  BY <1>1, AddressRange
<1>4. QED
  BY <1>1, <1>2, <1>3 DEF ObjectRecord

\* What is read of the block and kept of it is bytes and addresses.
LEMMA BlockStep ==
  ASSUME GivenOK, BlockRange, [Next]_vars
  PROVE  BlockRange'
<1> USE DEF BlockRange, localVars, dataVars, blockVars
<1>0. BlockSize \in Nat /\ InfoSize \in Nat /\ InfoSize \in 1..InfoSize
  BY DEF BlockSize, InfoSize, ObjectSize, ChecksumSize, Bytes
<1>1. CASE ReadHeader
  <2>1. PICK ok \in BOOLEAN, bytes \in [1..InfoSize -> Bytes] :
          /\ num_objects' = IF ok THEN bytes[InfoSize] ELSE num_objects
          /\ pc' \in {"block", "failed"}
    BY <1>0, <1>1, TransferFacts, DeliveredRange DEF ReadHeader, Goto
  <2>2. num_objects' \in Bytes
    BY <1>0, <2>1
  <2>3. QED
    BY <1>1, <2>1, <2>2 DEF ReadHeader
<1>2. CASE ReadBlock
  <2>1. PICK ok \in BOOLEAN, bytes \in [1..BlockSize -> Bytes] :
          /\ block' = IF ok THEN bytes ELSE block
          /\ pc' = IF ok THEN "crc" ELSE "failed"
    BY <1>0, <1>2, TransferFacts, DeliveredRange DEF ReadBlock, Goto
  <2>2. BlockSize' = BlockSize
    BY <1>2 DEF ReadBlock, BlockSize
  <2>3. QED
    BY <1>2, <2>1, <2>2 DEF ReadBlock
<1>3. CASE CrcStep
  <2>1. crc' \subseteq 0..31
    BY <1>3, CrcBits DEF CrcStep
  <2>2. index' \in Nat \ {0}
    BY <1>3 DEF CrcStep
  <2>3. QED
    BY <1>3, <2>1, <2>2 DEF CrcStep, Goto, BlockSize
<1>4. CASE CrcCompare
  BY <1>4 DEF CrcCompare, Goto, BlockSize
<1>5. CASE ParseStep
  <2>1. info' \in InfoRecord
    <3>1. /\ index \in Nat \ {0} /\ index <= num_objects
          /\ num_objects \in Bytes /\ block \in [1..BlockSize -> Bytes]
          /\ info' = ParseObject(info, ObjectAt(block, index))
      BY <1>5 DEF ParseStep
    <3>2. index \in 1..num_objects
      BY <3>1 DEF Bytes
    <3>3. ObjectAt(block, index) \in ObjectRecord
      BY <3>1, <3>2, ObjectInBlock
    <3>4. info \in InfoRecord
      OBVIOUS
    <3>5. QED
      BY <3>1, <3>3, <3>4, ParseObjectRange
  <2>2. QED
    BY <1>5, <2>1 DEF ParseStep, Goto, BlockSize
<1>6. CASE ParseEnd
  BY <1>6, LimitedRange DEF ParseEnd, Goto, BlockSize
<1>7. ASSUME UNCHANGED <<num_objects, info, block, index, crc>>,
             \/ pc' = pc
             \/ pc' = "undefined"
             \/ /\ pc \notin {"parse", "failed", "undefined"}
                /\ pc' \notin {"crc", "parse"}
      PROVE  BlockRange'
  BY <1>7 DEF BlockSize
<1>8. ASSUME NEW n \in 1..2, ProbeSubmit(n) \/ ProbeTake(n) \/ ProbeTimeout(n)
      PROVE  BlockRange'
  BY <1>7, <1>8 DEF ProbeSubmit, ProbeTake, ProbeTimeout, Waiting
<1>9. CASE Start \/ ReadT7
  BY <1>7, <1>9 DEF Start, ReadT7, Goto
<1>10. CASE SendReset \/ Poll \/ PollTimeout \/ PollMessage \/ Drain
  BY <1>7, <1>10 DEF SendReset, Poll, PollTimeout, PollMessage, Drain,
     StartDrain, Goto
<1>11. CASE ReadNumtch \/ WriteNumtch \/ ReadChgMode \/ WriteChgMode
  BY <1>7, <1>11 DEF ReadNumtch, WriteNumtch, ReadChgMode, WriteChgMode,
     AfterT100, Goto
<1>12. CASE WorkStart \/ WorkEnd
  BY <1>7, <1>12 DEF WorkStart, WorkEnd
<1>13. CASE \/ ChipUp \/ ChipDown \/ UNCHANGED vars
            \/ \E m \in Messages \ {"reset"} : ChipReports(m)
  BY <1>7, <1>13 DEF ChipUp, ChipDown, ChipReports, vars
<1>14. QED
  BY <1>1, <1>2, <1>3, <1>4, <1>5, <1>6, <1>8, <1>9, <1>10, <1>11, <1>12,
    <1>13
  DEF Next, InitStep

\* The loops of mxt_soft_reset and mxt_drain_messages keep their counts.
LEMMA LoopStep ==
  ASSUME ChipRange, LoopRange, [Next]_vars
  PROVE  LoopRange'
<1> USE InitAssumption DEF LoopRange, Labels, loopVars, localVars, dataVars
<1>1. CASE \/ WorkStart \/ WorkEnd \/ ChipUp \/ ChipDown \/ UNCHANGED vars
           \/ \E m \in Messages \ {"reset"} : ChipReports(m)
  BY <1>1 DEF WorkStart, WorkEnd, ChipUp, ChipDown, ChipReports, vars
<1>2. ASSUME NEW n \in 1..2, ProbeSubmit(n) \/ ProbeTake(n) \/ ProbeTimeout(n)
      PROVE  LoopRange'
  BY <1>2 DEF ProbeSubmit, ProbeTake, ProbeTimeout
<1>3. CASE Start \/ ReadHeader \/ ReadBlock \/ CrcStep \/ CrcCompare
  BY <1>3 DEF Start, ReadHeader, ReadBlock, CrcStep, CrcCompare, Goto
<1>4. CASE ParseStep \/ ParseEnd \/ ReadNumtch \/ WriteNumtch \/ ReadChgMode
           \/ WriteChgMode
  BY <1>4 DEF ParseStep, ParseEnd, ReadNumtch, WriteNumtch, ReadChgMode,
     WriteChgMode, AfterT100, Goto
<1>5. CASE ReadT7
  <2>1. chip.t7 \in {"nvm", "asleep"}
    BY DEF ChipRange
  <2>2. QED
    BY <1>5, <2>1 DEF ReadT7, Goto
<1>6. DrainLimit \in 0..(DrainLimit + MaxMsgCount)
  OBVIOUS
<1>7. CASE SendReset
  BY <1>6, <1>7 DEF SendReset, StartDrain, Goto
<1>8. CASE Poll
  <2>1. chip.queue # <<>> =>
          Smallest(Len(chip.queue), MaxMsgCount) \in 1..MaxMsgCount
    BY QueueFacts DEF Smallest
  <2>2. QED
    BY <1>8, <2>1 DEF Poll, Goto
<1>9. CASE PollTimeout
  BY <1>6, <1>9 DEF PollTimeout, StartDrain, Goto
<1>10. CASE PollMessage
  BY <1>6, <1>10 DEF PollMessage, StartDrain, Goto
<1>11. CASE Drain
  BY <1>11 DEF Drain, Goto
<1>12. QED
  BY <1>1, <1>2, <1>3, <1>4, <1>5, <1>7, <1>8, <1>9, <1>10, <1>11
  DEF Next, InitStep

\* Every variable starts in its range ..
LEMMA InitRange ==
  ASSUME Init
  PROVE  RangeInv
<1>1. GivenOK
  <2>1. table \in Tables /\ memory = InfoBlock(table)
    BY InitAssumption DEF Init
  <2>2. QED
    <3>1. table \in Listed
      BY <2>1, InitAssumption DEF Listed
    <3>2. InfoBlock(table) \in Seq(Bytes)
      BY <3>1, BlockBytes
    <3>3. QED
      BY <2>1, <3>2 DEF Init, GivenOK
<1>2. ChipRange
  <2>1. chip \in [state : {"up", "down"},
                  queue : {<<>>, <<"other">>, <<"reset">>},
                  numtch : {NvmTouches, 2}, mode1 : {FALSE},
                  t7 : {"nvm", "asleep"}]
    BY DEF Init
  <2>2. chip.queue \in Seq(Messages) /\ Len(chip.queue) <= QueueCap
    <3>1. "other" \in Messages /\ "reset" \in Messages
      BY DEF Messages
    <3>2. \A m \in Messages : <<m>> \in Seq(Messages) /\ Len(<<m>>) = 1
      OBVIOUS
    <3>3. <<>> \in Seq(Messages) /\ Len(<<>>) = 0
      OBVIOUS
    <3>4. chip.queue \in {<<>>, <<"other">>, <<"reset">>}
      BY <2>1
    <3>5. chip.queue \in Seq(Messages) /\ Len(chip.queue) \in {0, 1}
      BY <3>1, <3>2, <3>3, <3>4, Zenon
    <3>6. \A n \in {0, 1} : n <= QueueCap
      BY InitAssumption
    <3>7. QED
      BY <3>5, <3>6
  <2>3. {NvmTouches, 2} \subseteq Bytes
    BY DEF NvmTouches, Bytes
  <2>4. chip \in [state : {"up", "late", "down"}, queue : Seq(Messages),
                  numtch : Bytes, mode1 : BOOLEAN, t7 : {"nvm", "asleep"}]
    BY <2>1, <2>2, <2>3
  <2>5. QED
    BY <2>2, <2>4 DEF ChipRange
<1>3. ProbeRange
  <2>1. worker = [pending |-> <<>>, running |-> None, addr |-> DtAddr]
    BY DEF Init
  <2>2. frames = [n \in 1..2 |-> [addr |-> DtAddr, result |-> "timeout",
                                  done |-> FALSE]]
    BY DEF Init
  <2>3. actual_address = None
    BY DEF Init
  <2>4. QED
    BY <2>1, <2>2, <2>3, AddressFacts DEF ProbeRange
<1>4. BlockRange
  <2>1. NothingParsed \in InfoRecord
    BY DEF NothingParsed, InfoRecord, Bytes
  <2>2. NothingParsed.num_touchids = 0
    BY DEF NothingParsed
  <2>3. QED
    BY <2>1, <2>2, InfoAssumption DEF Init, BlockRange, Bytes
<1>5. LoopRange
  BY InitAssumption DEF Init, LoopRange, Labels
<1>6. QED
  BY <1>1, <1>2, <1>3, <1>4, <1>5 DEF RangeInv

\* .. stays there in every step ..
LEMMA RangeKept == RangeInv /\ [Next]_vars => RangeInv'
<1>1. SUFFICES ASSUME RangeInv, [Next]_vars PROVE RangeInv'
  OBVIOUS
<1>2. GivenOK'
  BY <1>1, GivenKept DEF given, RangeInv, GivenOK
<1>3. QED
  BY <1>1, <1>2, ChipStep, ProbeStep, BlockStep, LoopStep DEF RangeInv

\* .. and so is always there.
LEMMA RangeCorrect == Spec => []RangeInv
BY InitRange, RangeKept, PTL DEF Spec

\* Every variable stays in its range: no queue and no loop passes its limit, no
\* report id and no number of touches more than a byte, whatever the table and
\* the bus deliver.
THEOREM TypeCorrect == Spec => []TypeOK
<1>1. RangeInv => TypeOK
  BY DEF RangeInv, GivenOK, ChipRange, ProbeRange, BlockRange, LoopRange,
     InfoRecord, TypeOK, Bytes
<1>2. QED
  BY <1>1, RangeCorrect, PTL

-----------------------------------------------------------------------------

\* What T7 is read as, and what is kept of it, is the controller's own power
\* configuration.
LEMMA PowerKept ==
  ASSUME RangeInv, PowerInv, [Next]_vars
  PROVE  PowerInv'
<1>0. UNCHANGED given
  BY GivenKept
<1>1. ResetGpio' = ResetGpio /\ WarmStart' = WarmStart
  BY <1>0, BoardKept
<1>2. SUFFICES ASSUME ResetGpio \/ ~WarmStart
               PROVE  PowerInv'
  BY <1>1 DEF PowerInv
<1> DEFINE Before == {"start", "probe1", "wait1", "probe2", "wait2", "header",
                      "block", "crc", "parse", "t7", "failed", "undefined"}
           Chip == /\ \/ pc \in {"start", "failed", "undefined"}
                      \/ chip.state = "down" \/ chip.t7 = "nvm"
                   /\ ResetGpio \/ chip.t7 = "nvm"
           Saved == pc \in Before \/ info.t7_address = 0 \/ t7_cfg = "nvm"
<1>3. Chip /\ Saved
  BY <1>2 DEF PowerInv
<1>4. SUFFICES Chip' /\ Saved'
  BY <1>1 DEF PowerInv
<1>5. chip \in [state : {"up", "late", "down"}, queue : Seq(Messages),
               numtch : Bytes, mode1 : BOOLEAN, t7 : {"nvm", "asleep"}]
  BY DEF RangeInv, ChipRange
<1> USE DEF localVars, dataVars
<1>6. CASE \/ WorkStart \/ WorkEnd \/ UNCHANGED vars
           \/ \E n \in 1..2 : ProbeSubmit(n) \/ ProbeTake(n) \/ ProbeTimeout(n)
  BY <1>1, <1>3, <1>6 DEF WorkStart, WorkEnd, ProbeSubmit, ProbeTake,
     ProbeTimeout, Waiting, vars
<1>7. CASE \/ ChipUp \/ ChipDown
           \/ \E m \in Messages \ {"reset"} : ChipReports(m)
  BY <1>1, <1>3, <1>5, <1>7 DEF ChipUp, ChipDown, ChipReports
<1>8. CASE Start
  BY <1>1, <1>2, <1>3, <1>5, <1>8 DEF Start, HwReset, Goto
<1>9. CASE ReadHeader \/ ReadBlock \/ CrcStep \/ CrcCompare
           \/ ParseStep \/ ParseEnd
  BY <1>1, <1>3, <1>9 DEF ReadHeader, ReadBlock, CrcStep, CrcCompare, ParseStep,
     ParseEnd, Goto
<1>10. CASE ReadT7
  <2>1. \A ok \in Transfer(actual_address) : ok => chip.state # "down"
    BY TransferFacts
  <2>2. Chip'
    BY <1>1, <1>3, <1>10 DEF ReadT7, Goto
  <2>3. Saved'
    BY <1>3, <1>10, <2>1 DEF ReadT7, Goto
  <2>4. QED
    BY <2>2, <2>3
<1>11. CASE SendReset \/ Poll \/ PollTimeout \/ PollMessage \/ Drain
  <2>1. chip'.t7 = chip.t7 /\ (chip'.state = chip.state \/ SendReset)
    BY <1>5, <1>11 DEF SendReset, Poll, PollTimeout, PollMessage, Drain,
       TakeMessage
  <2>2. /\ UNCHANGED <<info, t7_cfg>>
        /\ pc \notin Before /\ pc' \notin {"start", "failed", "undefined"}
    BY <1>11 DEF SendReset, Poll, PollTimeout, PollMessage, Drain, StartDrain,
       Goto
  <2>3. SendReset => chip'.state \in {chip.state, "down"} \/ chip.t7 = "nvm"
    BY <1>3, <1>5, TransferFacts DEF SendReset
  <2>4. QED
    BY <1>1, <1>3, <2>1, <2>2, <2>3
<1>12. CASE ReadNumtch \/ WriteNumtch \/ ReadChgMode \/ WriteChgMode
  BY <1>1, <1>3, <1>5, <1>12 DEF ReadNumtch, WriteNumtch, ReadChgMode,
     WriteChgMode, AfterT100, Goto
<1>13. QED
  BY <1>6, <1>7, <1>8, <1>9, <1>10, <1>11, <1>12 DEF Next, InitStep

\* The driver saves the controller's own power configuration, whatever fails on
\* the way and whatever an earlier run left, unless that run's sleep setting is
\* still there: resume writes back what is saved here.
THEOREM SavedPower == Spec => []SavedPowerIsAwake
<1>1. Init => PowerInv
  BY DEF Init, PowerInv
<1>2. RangeInv /\ PowerInv /\ [Next]_vars => PowerInv'
  BY PowerKept
<1>3. PowerInv => SavedPowerIsAwake
  BY DEF PowerInv, SavedPowerIsAwake
<1>4. QED
  BY <1>1, <1>2, <1>3, RangeCorrect, PTL DEF Spec

-----------------------------------------------------------------------------

\* On a bus that works and unless the reset was given up: the controller answers
\* from the header on, except while it resets.
LEMMA ConfigKept ==
  ASSUME RangeInv, ConfigInv, [Next]_vars
  PROVE  ConfigInv'
<1>0. UNCHANGED given
  BY GivenKept
<1>1. /\ FaultyBus' = FaultyBus /\ SlowReset' = SlowReset
      /\ InterruptBuild' = InterruptBuild /\ ChipAddr' = ChipAddr
  BY <1>0, BoardKept
<1>2. gave_up => gave_up'
  BY DEF Next, InitStep, Start, ReadHeader, ReadBlock, CrcStep, CrcCompare,
    ParseStep, ParseEnd, ReadT7, SendReset, Poll, PollTimeout, PollMessage,
    Drain, ReadNumtch, WriteNumtch, ReadChgMode, WriteChgMode, ProbeSubmit,
    ProbeTake, ProbeTimeout, WorkStart, WorkEnd, ChipUp, ChipDown,
    ChipReports, vars, localVars
<1>3. SUFFICES ASSUME ~FaultyBus, ~SlowReset, ~gave_up, ~gave_up'
               PROVE  ConfigInv'
  BY <1>1, <1>2 DEF ConfigInv
<1> DEFINE Up == /\ chip.state # "late"
                 /\ pc \in Answered \cup {"poll"} => actual_address = ChipAddr
                 /\ pc \in Answered => chip.state = "up"
           Touches == pc \in {"t18", "t18_write", "ready"}
                        => info.t100_address = 0
                           \/ chip.numtch = info.num_touchids
           Mode == pc = "ready" /\ InterruptBuild
                     => info.t18_address = 0 \/ chip.mode1
<1>4. Up /\ Touches /\ Mode
  BY <1>3 DEF ConfigInv
<1>5. SUFFICES Up' /\ Touches' /\ Mode'
  BY <1>1 DEF ConfigInv
<1>6. chip \in [state : {"up", "late", "down"}, queue : Seq(Messages),
               numtch : Bytes, mode1 : BOOLEAN, t7 : {"nvm", "asleep"}]
  BY DEF RangeInv, ChipRange
<1>7. \A ok \in Transfer(actual_address) :
        /\ ok \in BOOLEAN
        /\ ok => actual_address = ChipAddr /\ chip.state = "up"
        /\ pc \in Answered => ok
  BY <1>3, <1>4, <1>6, TransferFacts DEF Answered
<1> USE DEF localVars, dataVars, Answered
<1>8. CASE \/ WorkStart \/ WorkEnd \/ UNCHANGED vars
           \/ \E n \in 1..2 : ProbeSubmit(n) \/ ProbeTake(n) \/ ProbeTimeout(n)
  BY <1>1, <1>4, <1>8 DEF WorkStart, WorkEnd, ProbeSubmit, ProbeTake,
     ProbeTimeout, Waiting, vars
<1>9. CASE \/ ChipUp \/ ChipDown
           \/ \E m \in Messages \ {"reset"} : ChipReports(m)
  BY <1>1, <1>4, <1>6, <1>9 DEF ChipUp, ChipDown, ChipReports
<1>10. CASE Start
  BY <1>1, <1>4, <1>6, <1>10 DEF Start, HwReset, Goto
<1>11. CASE ReadHeader \/ ReadBlock \/ ReadT7
  BY <1>1, <1>4, <1>7, <1>11 DEF ReadHeader, ReadBlock, ReadT7, Goto
<1>12. CASE CrcStep \/ CrcCompare \/ ParseStep \/ ParseEnd
  BY <1>1, <1>4, <1>12 DEF CrcStep, CrcCompare, ParseStep, ParseEnd, Goto
<1>13. CASE SendReset
  BY <1>1, <1>3, <1>4, <1>6, <1>7, <1>13 DEF SendReset, StartDrain, Goto
<1>14. CASE Poll \/ PollTimeout
  BY <1>1, <1>3, <1>4, <1>6, <1>7, <1>14 DEF Poll, PollTimeout, StartDrain, Goto
<1>15. CASE PollMessage \/ Drain
  BY <1>1, <1>4, <1>6, <1>7, <1>15 DEF PollMessage, Drain, TakeMessage,
     StartDrain, Goto
<1>16. CASE ReadNumtch \/ ReadChgMode
  BY <1>1, <1>4, <1>6, <1>7, <1>16 DEF ReadNumtch, ReadChgMode, AfterT100, Goto
<1>17. CASE WriteNumtch
  BY <1>1, <1>4, <1>6, <1>7, <1>17 DEF WriteNumtch, AfterT100, Goto
<1>18. CASE WriteChgMode
  BY <1>1, <1>4, <1>6, <1>7, <1>18 DEF WriteChgMode, Goto
<1>19. QED
  BY <1>8, <1>9, <1>10, <1>11, <1>12, <1>13, <1>14, <1>15, <1>16, <1>17, <1>18
  DEF Next, InitStep

\* What is written after the soft reset is there when init ends: on a bus that
\* works nothing is written before the controller has come out of its reset.
THEOREM ConfigHolds == Spec => []ConfigTakes
<1>1. Init => ConfigInv
  BY DEF Init, ConfigInv, Answered
<1>2. RangeInv /\ ConfigInv /\ [Next]_vars => ConfigInv'
  BY ConfigKept
<1>3. ConfigInv => ConfigTakes
  BY DEF ConfigInv, ConfigTakes
<1>4. QED
  BY <1>1, <1>2, <1>3, RangeCorrect, PTL DEF Spec

-----------------------------------------------------------------------------


\* While a probe waits, the item or the running work is its own.
LEMMA ItsOwn ==
  ASSUME RangeInv, ProbeInv, ~timed_out, ~Idle
  PROVE  \E n \in 1..2 : /\ Waiting(n) /\ WaitInv(n)
                         /\ \A m \in 1..2 : Waiting(m) => m = n
BY DEF ProbeInv, Waiting

\* Every step keeps what holds of a probe that has not timed out.
LEMMA ProbeKept ==
  ASSUME RangeInv, ProbeInv, [Next]_vars
  PROVE  ProbeInv'
<1>0. UNCHANGED given
  BY GivenKept
<1>1. ChipAddr' = ChipAddr /\ \A n \in 1..2 : Frame(n)' = Frame(n)
  BY <1>0, BoardKept
<1>2. timed_out => timed_out'
  BY DEF Next, InitStep, Start, ReadHeader, ReadBlock, CrcStep, CrcCompare,
    ParseStep, ParseEnd, ReadT7, SendReset, Poll, PollTimeout, PollMessage,
    Drain, ReadNumtch, WriteNumtch, ReadChgMode, WriteChgMode, ProbeSubmit,
    ProbeTake, ProbeTimeout, WorkStart, WorkEnd, ChipUp, ChipDown,
    ChipReports, StartDrain, Goto, vars, probeVars
<1>3. SUFFICES ASSUME ~timed_out, ~timed_out'
               PROVE  ProbeInv'
  BY <1>2 DEF ProbeInv
<1>4. /\ pc # "undefined"
      /\ actual_address \in {None, ChipAddr}
      /\ (\A n \in 1..2 : ~Waiting(n)) => Idle
      /\ \A n \in 1..2 : Waiting(n) => WaitInv(n)
  BY <1>3 DEF ProbeInv
<1>5. /\ worker \in [pending : Seq(1..2), running : {None, 1, 2},
                     addr : Addresses]
      /\ frames \in [1..2 -> [addr : Addresses, done : BOOLEAN,
                              result : {"timeout", "found", "nothing"}]]
  BY DEF RangeInv, ProbeRange
<1>6. \A n \in 1..2 : Frame(n) \in 1..2
  BY DEF Frame
\* Steps that leave the work alone, and the init thread away from its waits or
\* where it is.
<1>7. ASSUME UNCHANGED <<worker, frames, actual_address>>,
             \/ pc' = pc
             \/ ~Waiting(1) /\ ~Waiting(2) /\ ~Waiting(1)' /\ ~Waiting(2)'
                /\ pc' # "undefined"
      PROVE  ProbeInv'
  <2>1. \A n \in 1..2 : ProbeAddr(n)' = ProbeAddr(n)
    BY DEF ProbeAddr
  <2>2. \A n \in 1..2 : WaitInv(n)' <=> WaitInv(n)
    BY <1>1, <1>7, <2>1 DEF WaitInv, Idle
  <2>3. pc' = pc => \A n \in 1..2 : Waiting(n)' <=> Waiting(n)
    BY DEF Waiting
  <2>4. \A n \in 1..2 : n = 1 \/ n = 2
    OBVIOUS
  <2>5. Idle' <=> Idle
    BY <1>7 DEF Idle
  <2>6. QED
    BY <1>1, <1>4, <1>7, <2>2, <2>3, <2>4, <2>5 DEF ProbeInv
<1> USE DEF localVars, dataVars, probeVars
<1>8. ASSUME NEW n \in 1..2, ProbeSubmit(n)
      PROVE  ProbeInv'
  <2>1. ~Waiting(1) /\ ~Waiting(2) /\ Idle
    BY <1>4, <1>8 DEF ProbeSubmit, Waiting
  <2>2. Frame(n) \notin ToSet(worker.pending)
    BY <2>1 DEF Idle, ToSet
  <2>3. /\ pc' = IF n = 1 THEN "wait1" ELSE "wait2"
        /\ UNCHANGED actual_address
    BY <1>8, <2>2 DEF ProbeSubmit
  <2>4. worker'.pending = <<Frame(n)>> /\ worker'.running = None
    BY <1>5, <1>8, <2>1 DEF ProbeSubmit, Idle
  <2>5. frames'[Frame(n)].addr = ProbeAddr(n) /\ ~frames'[Frame(n)].done
    BY <1>5, <1>6, <1>8 DEF ProbeSubmit
  <2>6. WaitInv(n)'
    BY <1>1, <2>4, <2>5 DEF WaitInv, ProbeAddr
  <2>7. \A m \in 1..2 : Waiting(m)' <=> m = n
    BY <2>3 DEF Waiting
  <2>8. QED
    BY <1>1, <1>4, <2>3, <2>6, <2>7 DEF ProbeInv
<1>9. ASSUME NEW n \in 1..2, ProbeTake(n)
      PROVE  ProbeInv'
  <2>1. Waiting(n) /\ frames[Frame(n)].done /\ WaitInv(n)
    BY <1>4, <1>9 DEF ProbeTake
  <2>2. Idle /\ (frames[Frame(n)].result = "found" => ProbeAddr(n) = ChipAddr)
    BY <2>1 DEF WaitInv
  <2>3. /\ UNCHANGED <<worker, frames>>
        /\ pc' \in {"header", "probe2", "failed"}
        /\ actual_address' \in {actual_address, ChipAddr}
    BY <1>9, <2>2 DEF ProbeTake
  <2>4. \A m \in 1..2 : ~Waiting(m)'
    BY <2>3 DEF Waiting
  <2>5. Idle'
    BY <2>2, <2>3 DEF Idle
  <2>6. QED
    BY <1>1, <1>4, <2>3, <2>4, <2>5 DEF ProbeInv
<1>10. ASSUME NEW n \in 1..2, ProbeTimeout(n)
       PROVE  ProbeInv'
  BY <1>3, <1>10 DEF ProbeTimeout
<1>11. CASE WorkStart
  <2>1. PICK n \in 1..2 : /\ Waiting(n) /\ WaitInv(n)
                          /\ \A m \in 1..2 : Waiting(m) => m = n
    BY <1>3, <1>11, ItsOwn DEF WorkStart, Idle
  <2> DEFINE f == Frame(n)
  <2>2. /\ worker.pending = <<f>> /\ ~frames[f].done
        /\ frames[f].addr = ProbeAddr(n)
    BY <1>11, <2>1 DEF WorkStart, WaitInv, Idle
  <2>3. Head(worker.pending) = f /\ Tail(worker.pending) = <<>>
    BY <2>2
  <2>4. Live(f)
    BY <2>1 DEF Live
  <2>5. /\ worker' = [pending |-> <<>>, running |-> f, addr |-> ProbeAddr(n)]
        /\ pc' = pc /\ UNCHANGED <<frames, actual_address>>
    BY <1>11, <2>2, <2>3, <2>4 DEF WorkStart
  <2>6. WaitInv(n)'
    BY <1>1, <2>2, <2>5 DEF WaitInv, ProbeAddr
  <2>7. \A m \in 1..2 : Waiting(m)' <=> Waiting(m)
    BY <2>5 DEF Waiting
  <2>8. QED
    BY <1>1, <1>4, <2>1, <2>5, <2>6, <2>7 DEF ProbeInv
<1>12. CASE WorkEnd
  <2>1. PICK n \in 1..2 : /\ Waiting(n) /\ WaitInv(n)
                          /\ \A m \in 1..2 : Waiting(m) => m = n
    BY <1>3, <1>12, ItsOwn DEF WorkEnd, Idle
  <2> DEFINE f == Frame(n)
  <2>2. /\ worker.pending = <<>> /\ worker.running = f
        /\ worker.addr = ProbeAddr(n) /\ frames[f].addr = ProbeAddr(n)
    BY <1>12, <2>1 DEF WorkEnd, WaitInv, Idle
  <2>3. Live(f)
    BY <2>1 DEF Live
  <2>4. PICK ok \in Transfer(worker.addr) :
          frames' = [frames EXCEPT ![worker.running].result =
                                     IF ok THEN "found" ELSE "nothing",
                                   ![worker.running].done = TRUE]
    BY <1>12 DEF WorkEnd
  <2>5. /\ frames'[f].addr = ProbeAddr(n) /\ frames'[f].done
        /\ frames'[f].result = "found" => ok
    BY <1>5, <1>6, <2>2, <2>4
  <2>6. ok => ProbeAddr(n) = ChipAddr
    BY <2>2, TransferFacts
  <2>7. /\ worker'.pending = <<>> /\ worker'.running = None
        /\ pc' = pc /\ UNCHANGED actual_address
    BY <1>5, <1>12, <2>2, <2>3 DEF WorkEnd
  <2>8. WaitInv(n)'
    BY <1>1, <2>5, <2>6, <2>7 DEF WaitInv, Idle, ProbeAddr
  <2>9. \A m \in 1..2 : Waiting(m)' <=> Waiting(m)
    BY <2>7 DEF Waiting
  <2>10. QED
    BY <1>1, <1>4, <2>1, <2>7, <2>8, <2>9 DEF ProbeInv
<1>13. CASE \/ ChipUp \/ ChipDown \/ UNCHANGED vars
            \/ \E m \in Messages \ {"reset"} : ChipReports(m)
  BY <1>7, <1>13 DEF ChipUp, ChipDown, ChipReports, vars
<1>14. CASE Start \/ ReadHeader \/ ReadBlock \/ CrcStep \/ CrcCompare
  BY <1>7, <1>14 DEF Start, ReadHeader, ReadBlock, CrcStep, CrcCompare, Goto,
     Waiting
<1>15. CASE ParseStep \/ ParseEnd \/ ReadT7 \/ SendReset \/ Poll
  BY <1>7, <1>15 DEF ParseStep, ParseEnd, ReadT7, SendReset, Poll, StartDrain,
     Goto, Waiting
<1>16. CASE PollTimeout \/ PollMessage \/ Drain
  BY <1>7, <1>16 DEF PollTimeout, PollMessage, Drain, StartDrain, Goto, Waiting
<1>17. CASE ReadNumtch \/ WriteNumtch \/ ReadChgMode \/ WriteChgMode
  BY <1>7, <1>17 DEF ReadNumtch, WriteNumtch, ReadChgMode, WriteChgMode,
     AfterT100, Goto, Waiting
<1>18. QED
  BY <1>8, <1>9, <1>10, <1>11, <1>12, <1>13, <1>14, <1>15, <1>16, <1>17
  DEF Next, InitStep

\* As long as no probe times out, its work item is over when it returns, the
\* stack frame it points to is not used afterwards, and the address it reports
\* is the controller's.
THEOREM ProbeIsSafe == Spec => []ProbeIsSafeInTime
<1>1. Init => ProbeInv
  BY DEF Init, ProbeInv, Idle, Waiting
<1>2. RangeInv /\ ProbeInv /\ [Next]_vars => ProbeInv'
  BY ProbeKept
<1>3. ProbeInv => ProbeIsSafeInTime
  BY DEF ProbeInv, ProbeIsSafeInTime
<1>4. QED
  BY <1>1, <1>2, <1>3, RangeCorrect, PTL DEF Spec
-----------------------------------------------------------------------------

\* The checksum of three bytes is that of no other three.
LEMMA StoredDetermines ==
  ASSUME NEW a0 \in Bytes, NEW a1 \in Bytes, NEW a2 \in Bytes,
         NEW b0 \in Bytes, NEW b1 \in Bytes, NEW b2 \in Bytes,
         StoredCrc(a0, a1, a2) = StoredCrc(b0, b1, b2)
  PROVE  a0 = b0 /\ a1 = b1 /\ a2 = b2
<1>1. /\ \A k \in 0..7 : k \in Bits(a0) <=> k \in Bits(b0)
      /\ \A k \in 0..7 : k \in Bits(a1) <=> k \in Bits(b1)
      /\ \A k \in 0..7 : k \in Bits(a2) <=> k \in Bits(b2)
  BY StoredBits
<1>2. Bits(a0) = Bits(b0) /\ Bits(a1) = Bits(b1) /\ Bits(a2) = Bits(b2)
  BY <1>1, BitsOf
<1>3. QED
  BY <1>2, BitsDetermine

\* The length of an object table.
LEMMA ListedLength ==
  ASSUME NEW t \in Listed
  PROVE  t \in Seq(ObjectRecord) /\ Len(t) \in 0..255
<1>1. t \in Seq(ObjectRecord) /\ Len(t) <= 255
  BY DEF Listed
<1>2. Len(t) \in Nat
  BY <1>1, LenProperties
<1>3. \A k \in Nat : k <= 255 => k \in 0..255
  OBVIOUS
<1>4. QED
  BY <1>1, <1>2, <1>3

\* What the controller's memory is, and where the driver looks for its parts if
\* it has the number of objects.
LEMMA MemoryFacts ==
  ASSUME GivenOK, num_objects = Len(table)
  PROVE  /\ table \in Listed /\ Len(table) \in 0..255
         /\ Len(InfoBody(table)) = 7 + 6 * Len(table)
         /\ BlockSize = Len(InfoBody(table)) + 3
         /\ memory \in [1..BlockSize -> Bytes] /\ Len(memory) = BlockSize
         /\ \A p \in 1..Len(InfoBody(table)) : memory[p] = InfoBody(table)[p]
<1>1. table \in Listed
  BY InitAssumption DEF GivenOK, Listed
<1>2. Len(table) \in 0..255
  BY <1>1, ListedLength
<1>3. Len(InfoBody(table)) = 7 + 6 * Len(table)
  <2>1. Len(InfoBody(table)) = InfoSize + Len(table) * ObjectSize
    BY <1>1, BodyBytes
  <2>2. \A n \in 0..255 : InfoSize + n * ObjectSize = 7 + 6 * n
    BY DEF InfoSize, ObjectSize
  <2>3. QED
    BY <1>2, <2>1, <2>2, Zenon
<1>4. BlockSize = Len(InfoBody(table)) + 3
  BY <1>2, <1>3 DEF BlockSize, InfoSize, ObjectSize, ChecksumSize
<1>5. QED
  BY <1>1, <1>2, <1>3, <1>4, BlockBytes DEF GivenOK, ChecksumSize

\* A transfer inverts one bit at most.
LEMMA DeliveredOnce ==
  ASSUME GivenOK, num_objects = Len(table), NEW bytes \in Delivered(BlockSize)
  PROVE  \A p, q \in 1..BlockSize :
           bytes[p] # memory[p] /\ bytes[q] # memory[q] => p = q
<1> DEFINE first == [p \in 1..BlockSize |->
                       IF p <= Len(memory) THEN memory[p] ELSE 0]
<1>1. \A p \in 1..BlockSize : first[p] = memory[p]
  BY MemoryFacts
<1>2. \/ bytes = first
      \/ \E at \in Flips : at[1] <= BlockSize /\ bytes = FlipBit(first, at)
  BY DEF Delivered
<1>3. first = [p \in 1..BlockSize |-> first[p]]
  OBVIOUS
<1> HIDE DEF first
<1>4. CASE bytes = first
  BY <1>1, <1>4
<1>5. ASSUME NEW at \in Flips, bytes = FlipBit(first, at)
      PROVE  \A p \in 1..BlockSize : p # at[1] => bytes[p] = memory[p]
  <2>1. \E v : bytes = [first EXCEPT ![at[1]] = v]
    BY <1>5 DEF FlipBit
  <2>2. QED
    BY <1>1, <1>3, <2>1
<1>6. QED
  BY <1>2, <1>4, <1>5

\* Without noise the header says how many objects there are.
LEMMA HeaderTells ==
  ASSUME GivenOK, ~Noise, NEW bytes \in Delivered(InfoSize)
  PROVE  bytes[InfoSize] = Len(table)
<1>1. table \in Listed
  BY InitAssumption DEF GivenOK, Listed
<1>2. Len(table) \in 0..255
  BY <1>1, ListedLength
<1>3. Len(InfoBody(table)) = 7 + 6 * Len(table)
  BY <1>1, <1>2, BodyBytes DEF InfoSize, ObjectSize
<1>4. memory[InfoSize] = Len(table) /\ InfoSize <= Len(memory)
  BY <1>1, <1>2, <1>3, BlockBytes, BodyBytes
  DEF GivenOK, InfoSize, ChecksumSize
<1>5. bytes = [p \in 1..InfoSize |->
                 IF p <= Len(memory) THEN memory[p] ELSE 0]
  BY DEF Delivered
<1>6. QED
  BY <1>4, <1>5 DEF InfoSize

\* Where the loop of the CRC is after w of the n words of a buffer.
LEMMA WordPlaces ==
  ASSUME NEW len \in Nat, NEW n, n = (len + 1) \div 2,
         NEW w \in 0..n, NEW i, i = 2 * w + 1
  PROVE  /\ i <= len => /\ i \in 1..len /\ w + 1 \in 1..n /\ (w + 1) - 1 = w
                        /\ i < len => i + 1 \in 1..len
                        /\ 2 * (w + 1) - 1 = i /\ 2 * (w + 1) = i + 1
                        /\ 2 * (w + 1) + 1 = i + 2
         /\ i > len => w = n /\ \A p \in 1..len : p < i
<1>1. n \in Nat /\ 2 * n <= len + 1 /\ len < 2 * n + 1
  OBVIOUS
<1>2. QED
  BY <1>1

\* One word into the register.
LEMMA SumStep ==
  ASSUME RangeInv, num_objects = Len(table), CrcStep, SumInv
  PROVE  SumInv'
<1> DEFINE body == InfoBody(table)
           offset == Len(body)
           same(p) == block[p] = memory[p]
           second(b) == IF index < offset THEN b[index + 1] ELSE 0
           read == Word(block[index], second(block))
           kept == Word(memory[index], second(memory))
           low == crc \cap 0..23
<1>1. /\ offset = 7 + 6 * Len(table) /\ Len(table) \in 0..255
      /\ BlockSize = offset + 3
      /\ memory \in [1..BlockSize -> Bytes]
      /\ \A p \in 1..offset : memory[p] = body[p]
  BY MemoryFacts DEF RangeInv
<1>2. block \in [1..BlockSize -> Bytes] /\ crc \in SUBSET (0..31)
  BY DEF RangeInv, BlockRange, CrcStep
<1>3. CrcOffset = offset
  BY <1>1, <1>2 DEF CrcOffset, ChecksumSize
<1>4. PICK w \in 0..Words(body) :
        /\ index = 2 * w + 1
        /\ (low = RunningCrc(body, w)) <=>
             (\A p \in 1..offset : p < index => same(p))
  BY <1>3 DEF SumInv
<1>5. \A p, q \in 1..BlockSize : ~same(p) /\ ~same(q) => p = q
  BY DEF SumInv
<1>6. /\ index \in 1..offset /\ offset \in 1..BlockSize
      /\ w + 1 \in 1..Words(body) /\ (w + 1) - 1 = w
      /\ index < offset => index + 1 \in 1..offset
      /\ 2 * (w + 1) - 1 = index /\ 2 * (w + 1) = index + 1
      /\ 2 * (w + 1) + 1 = index + 2
  <2>1. index <= offset /\ offset \in Nat /\ Words(body) = (offset + 1) \div 2
    BY <1>1, <1>3 DEF CrcStep, Words
  <2>2. offset \in 1..BlockSize
    BY <1>1
  <2> DEFINE words == Words(body)
  <2>3. w \in 0..words /\ index = 2 * w + 1 /\ words = (offset + 1) \div 2
    BY <1>4, <2>1
  <2> HIDE DEF offset, words
  <2>4. w \in Nat /\ index \in 1..offset /\ w + 1 \in 1..words
    BY <2>1, <2>2, <2>3
  <2>5. QED
    BY <2>1, <2>2, <2>3, <2>4 DEF words
<1>7. /\ crc' = Crc24Step(crc, block[index], second(block))
      /\ index' = index + 2 /\ UNCHANGED <<block, num_objects, table, memory>>
  BY <1>3 DEF CrcStep, Goto, given, blockVars, dataVars
<1>8. crc' \cap 0..23 = Stepped(low, read)
  BY <1>2, <1>7, CrcStepped, WordBits
<1>9. RunningCrc(body, w + 1) = Stepped(RunningCrc(body, w), kept)
  <2>1. /\ memory[index] = body[index]
        /\ index < offset => memory[index + 1] = body[index + 1]
    BY <1>1, <1>6
  <2>2. 2 * (w + 1) - 1 <= offset /\ (2 * (w + 1) <= offset <=> index < offset)
    BY <1>6
  <2>3. BufWord(body, w + 1) = kept
    BY <1>6, <2>1, <2>2, Zenon DEF BufWord
  <2>4. QED
    BY <1>1, <1>6, <2>3, RunningCrcSteps
<1>10. /\ RunningCrc(body, w) \in SUBSET (0..23) /\ low \in SUBSET (0..23)
       /\ read \in SUBSET (0..15) /\ kept \in SUBSET (0..15)
  <2>1. RunningCrc(body, w) \in SUBSET (0..23)
    <3>1. Len(body) \in Nat
      BY <1>1
    <3> HIDE DEF body
    <3>2. QED
      BY <3>1, RunningCrcSteps
  <2>2. read \in SUBSET (0..15) /\ kept \in SUBSET (0..15)
    BY WordBits
  <2>3. QED
    BY <2>1, <2>2
<1>11. read = kept <=> same(index) /\ (index < offset => same(index + 1))
  <2>1. /\ index \in 1..BlockSize /\ 0 \in Bytes
        /\ index < offset => index + 1 \in 1..BlockSize
    BY <1>1, <1>6 DEF Bytes
  <2>2. /\ block[index] \in Bytes /\ second(block) \in Bytes
        /\ memory[index] \in Bytes /\ second(memory) \in Bytes
    BY <1>1, <1>2, <2>1
  <2>3. read = kept => /\ block[index] = memory[index]
                       /\ second(block) = second(memory)
    BY <2>2, WordDetermines
  <2>4. QED
    BY <2>3
<1> DEFINE before == \A p \in 1..offset : p < index => same(p)
<1>12. (\A p \in 1..offset : p < index + 2 => same(p)) <=>
         before /\ read = kept
  <2>1. index \in 1..offset /\ offset \in Int
    BY <1>1, <1>6
  <2> HIDE DEF offset, same, read, kept
  <2>2. \A p \in 1..offset :
          p < index + 2 <=> p < index \/ p = index \/ p = index + 1
    BY <2>1
  <2>3. /\ index < offset => index + 1 \in 1..offset
        /\ \A p \in 1..offset : p = index + 1 => index < offset
    BY <2>1
  <2>4. (\A p \in 1..offset : p < index + 2 => same(p)) <=>
          before /\ same(index) /\ (index < offset => same(index + 1))
    BY <2>1, <2>2, <2>3, Zenon
  <2>5. QED
    BY <1>11, <2>4
<1>13. ~before => read = kept
  <2>1. /\ 1..offset \subseteq 1..BlockSize /\ index \in 1..offset
        /\ index < offset => index + 1 \in 1..offset
    BY <1>1, <1>6
  <2> HIDE DEF offset, same, read, kept
  <2>2. SUFFICES ASSUME NEW p \in 1..offset, p < index, ~same(p)
                 PROVE  read = kept
    BY DEF before
  <2>3. p # index /\ p # index + 1
    BY <2>1, <2>2
  <2>4. same(index) /\ (index < offset => same(index + 1))
    BY <1>5, <2>1, <2>2, <2>3, Zenon
  <2>5. QED
    BY <1>11, <2>4
<1> HIDE DEF low, read, kept, before, same, second, body
<1>14. (crc' \cap 0..23 = RunningCrc(body, w + 1)) <=> before /\ read = kept
  <2>1. CASE before
    BY <1>4, <1>8, <1>9, <1>10, <2>1, StepSeesError DEF before
  <2>2. CASE ~before
    BY <1>4, <1>8, <1>9, <1>10, <1>13, <2>2, StepKeepsError DEF before
  <2>3. QED
    BY <2>1, <2>2
<1>15. QED
  <2>1. BlockSize' = BlockSize /\ CrcOffset' = CrcOffset
    BY <1>7 DEF BlockSize, CrcOffset
  <2>2. index' = 2 * (w + 1) + 1 /\ w + 1 \in 0..Words(body)
    BY <1>4, <1>6, <1>7
  <2>3. (crc' \cap 0..23 = RunningCrc(body, w + 1)) <=>
          (\A p \in 1..offset : p < index' => same(p))
    BY <1>7, <1>12, <1>14
  <2>4. QED
    BY <1>3, <1>5, <1>7, <2>1, <2>2, <2>3 DEF SumInv, body, same

\* The stored checksum is right only for the table's own block.
LEMMA SumEnd ==
  ASSUME RangeInv, num_objects = Len(table), SumInv, pc = "crc",
         index > CrcOffset, CrcMatches
  PROVE  block = memory
<1> DEFINE body == InfoBody(table)
           offset == Len(body)
           same(p) == block[p] = memory[p]
<1>1. /\ offset = 7 + 6 * Len(table) /\ Len(table) \in 0..255
      /\ BlockSize = offset + 3 /\ table \in Listed
      /\ memory \in [1..BlockSize -> Bytes]
  BY MemoryFacts DEF RangeInv
<1>2. block \in [1..BlockSize -> Bytes]
  BY DEF RangeInv, BlockRange
<1>3. CrcOffset = offset
  BY <1>1, <1>2 DEF CrcOffset, ChecksumSize
<1>4. PICK w \in 0..Words(body) :
        /\ index = 2 * w + 1
        /\ (crc \cap 0..23 = RunningCrc(body, w)) <=>
             (\A p \in 1..offset : p < index => same(p))
  BY <1>3 DEF SumInv
<1>5. w = Words(body) /\ \A p \in 1..offset : p < index
  <2>1. index > offset /\ offset \in Nat /\ Words(body) = (offset + 1) \div 2
    BY <1>1, <1>3 DEF Words
  <2> HIDE DEF offset
  <2>2. QED
    BY <1>4, <2>1, WordPlaces, SMTT(30)
<1>6. (crc \cap 0..23 = ReferenceCrc(body)) <=> \A p \in 1..offset : same(p)
  BY <1>4, <1>5 DEF RunningCrc, ReferenceCrc
<1>7. StoredCrc(memory[offset + 1], memory[offset + 2], memory[offset + 3]) =
        ReferenceCrc(body)
  BY <1>1, BlockBytes DEF RangeInv, GivenOK
<1>8. crc \cap 0..23 =
        StoredCrc(block[offset + 1], block[offset + 2], block[offset + 3])
  BY <1>3 DEF CrcMatches
<1>9. \A p, q \in 1..BlockSize : ~same(p) /\ ~same(q) => p = q
  BY DEF SumInv
<1>10. \A p \in 1..offset : same(p)
  <2>1. SUFFICES ASSUME NEW q \in 1..offset, ~same(q) PROVE FALSE
    OBVIOUS
  <2>2. same(offset + 1) /\ same(offset + 2) /\ same(offset + 3)
    BY <1>1, <1>9, <2>1
  <2>3. QED
    BY <1>6, <1>7, <1>8, <2>1, <2>2
<1>11. same(offset + 1) /\ same(offset + 2) /\ same(offset + 3)
  <2>1. /\ offset + 1 \in 1..BlockSize /\ offset + 2 \in 1..BlockSize
        /\ offset + 3 \in 1..BlockSize
    <3>1. offset \in Nat
      BY <1>1
    <3> HIDE DEF offset
    <3>2. QED
      BY <1>1, <3>1
  <2>2. /\ block[offset + 1] \in Bytes /\ block[offset + 2] \in Bytes
        /\ block[offset + 3] \in Bytes
    BY <1>2, <2>1
  <2>3. /\ memory[offset + 1] \in Bytes /\ memory[offset + 2] \in Bytes
        /\ memory[offset + 3] \in Bytes
    BY <1>1, <2>1
  <2>4. StoredCrc(memory[offset + 1], memory[offset + 2], memory[offset + 3]) =
        StoredCrc(block[offset + 1], block[offset + 2], block[offset + 3])
    BY <1>6, <1>7, <1>8, <1>10, Zenon
  <2> DEFINE m(k) == memory[offset + k]
             b(k) == block[offset + k]
  <2>5. /\ m(1) \in Bytes /\ m(2) \in Bytes /\ m(3) \in Bytes
        /\ b(1) \in Bytes /\ b(2) \in Bytes /\ b(3) \in Bytes
        /\ StoredCrc(m(1), m(2), m(3)) = StoredCrc(b(1), b(2), b(3))
    BY <2>2, <2>3, <2>4
  <2>6. m(1) = b(1) /\ m(2) = b(2) /\ m(3) = b(3)
    <3> HIDE DEF m, b
    <3>1. QED
      BY <2>5, StoredDetermines
  <2>7. QED
    BY <2>6
<1>12. \A p \in 1..BlockSize : same(p)
  <2>1. \A p \in 1..BlockSize : \/ p \in 1..offset
                               \/ p \in {offset + 1, offset + 2, offset + 3}
    <3>1. offset \in Nat /\ BlockSize = offset + 3
      BY <1>1
    <3> HIDE DEF offset
    <3>2. QED
      BY <3>1
  <2>2. QED
    BY <1>10, <1>11, <2>1
<1>13. QED
  BY <1>1, <1>2, <1>12

\* The table is read back from the block as it was written.
LEMMA ObjectsRead ==
  ASSUME NEW t \in Listed, NEW i \in 1..Len(t)
  PROVE  ObjectAt(InfoBlock(t), i) = t[i]
<1> DEFINE at(k) == InfoSize + (i - 1) * ObjectSize + k
           b == ObjectBytes(t[i])
<1>1. t[i] \in ObjectRecord /\ Len(t) \in 0..255
  BY ListedLength, ElementOfSeq
<1>2. Len(InfoBody(t)) = InfoSize + Len(t) * ObjectSize
  BY BodyBytes
<1>3. \A k \in 1..6 : at(k) \in 1..Len(InfoBody(t))
  BY <1>1, <1>2 DEF InfoSize, ObjectSize
<1>4. \A k \in 1..6 : InfoBlock(t)[at(k)] = b[k]
  BY <1>3, BodyBytes, BlockBytes
<1> HIDE DEF b
<1>5. /\ InfoBlock(t)[at(1)] = b[1] /\ InfoBlock(t)[at(2)] = b[2]
      /\ InfoBlock(t)[at(3)] = b[3] /\ InfoBlock(t)[at(4)] = b[4]
      /\ InfoBlock(t)[at(5)] = b[5] /\ InfoBlock(t)[at(6)] = b[6]
  BY <1>4
<1>6. t[i] = [type |-> b[1], address |-> b[2] + 256 * b[3],
              size_minus_one |-> b[4], instances_minus_one |-> b[5],
              num_report_ids |-> b[6]]
  BY <1>1, ObjectBytesAre DEF b
<1>7. QED
  BY <1>5, <1>6, Zenon DEF ObjectAt

\* What should be made of the objects is made of them one by one.
LEMMA ParsedUnfolds ==
  ASSUME NEW t \in Listed
  PROVE  /\ ParsedObjects(t, 0) = NothingParsed
         /\ \A i \in 0..Len(t) : ParsedObjects(t, i) \in InfoRecord
         /\ \A i \in 1..Len(t) :
              ParsedObjects(t, i) = ParseObject(ParsedObjects(t, i - 1), t[i])
<1> DEFINE n == Len(t)
           step == [i \in 1..n |-> [d \in InfoRecord |-> ParseObject(d, t[i])]]
           is(f) == f = [i \in 0..n |-> IF i = 0 THEN NothingParsed
                                        ELSE ParseObject(f[i - 1], t[i])]
<1>0. n \in Nat /\ \A i \in 1..n : t[i] \in ObjectRecord
  BY ListedLength, ElementOfSeq
<1> HIDE DEF n
<1>1. \A i \in 1..n : \A d \in InfoRecord : ParseObject(d, t[i]) \in InfoRecord
  BY <1>0, ParseObjectRange
<1>2. step \in [1..n -> [InfoRecord -> InfoRecord]]
  BY <1>1
<1>3. \A i \in 1..n : \A d \in InfoRecord : step[i][d] = ParseObject(d, t[i])
  OBVIOUS
<1> HIDE DEF step
<1>4. \A i \in 0..n : i # 0 => i \in 1..n /\ i - 1 \in 0..n
  BY <1>0
<1>5. NothingParsed \in InfoRecord
  BY DEF NothingParsed, InfoRecord, Bytes, Uint16
<1>6. \E f : is(f)
  <2>1. Iterations(n, InfoRecord, NothingParsed, step) # {}
    BY <1>0, <1>2, <1>5, Iterated
  <2>2. PICK f \in [0..n -> InfoRecord] :
          f[0] = NothingParsed /\ \A i \in 1..n : f[i] = step[i][f[i - 1]]
    BY <2>1 DEF Iterations
  <2>3. \A i \in 1..n : f[i] = ParseObject(f[i - 1], t[i])
    BY <1>0, <1>3, <2>2
  <2>4. is(f)
    BY <1>4, <2>2, <2>3
  <2>5. QED
    BY <2>4
<1> DEFINE parsed == CHOOSE f : is(f)
<1>7. is(parsed) /\ \A i : ParsedObjects(t, i) = parsed[i]
  <2>1. \A i : ParsedObjects(t, i) = parsed[i]
    BY Zenon DEF ParsedObjects, n
  <2> HIDE DEF is
  <2>2. QED
    BY <1>6, <2>1, Zenon
<1> HIDE DEF parsed
<1>8. /\ parsed[0] = NothingParsed
      /\ \A i \in 1..n : parsed[i] = ParseObject(parsed[i - 1], t[i])
  <2>1. parsed = [i \in 0..n |-> IF i = 0 THEN NothingParsed
                                 ELSE ParseObject(parsed[i - 1], t[i])]
    BY <1>7
  <2>2. 0 \in 0..n /\ \A i \in 1..n : i \in 0..n /\ i # 0
    BY <1>0
  <2>3. QED
    BY <2>1, <2>2
<1>9. \A i \in 0..n : parsed[i] \in InfoRecord
  <2>1. parsed[0] \in InfoRecord
    BY <1>5, <1>8
  <2>2. \A i \in 1..n :
          parsed[i - 1] \in InfoRecord => parsed[i] \in InfoRecord
    BY <1>1, <1>8
  <2>3. QED
    BY <1>0, <2>1, <2>2, StaysIn
<1>10. QED
  BY <1>7, <1>8, <1>9 DEF n

\* The first report ids of the objects follow one another.
LEMMA FirstIdUnfolds ==
  ASSUME NEW t \in Listed
  PROVE  /\ FirstId(t, 1) = 1
         /\ \A i \in 1..(Len(t) + 1) : FirstId(t, i) \in Nat
         /\ \A i \in 1..Len(t) :
              FirstId(t, i + 1) =
                FirstId(t, i) + t[i].num_report_ids * Instances(t[i])
<1> DEFINE n == Len(t)
           ids(i) == t[i].num_report_ids * Instances(t[i])
           step == [i \in 1..n |-> [k \in Nat |-> k + ids(i)]]
           is(f) == f = [i \in 0..n |-> IF i = 0 THEN 1 ELSE f[i - 1] + ids(i)]
<1>0. n \in Nat /\ \A i \in 1..n : t[i] \in ObjectRecord
  BY ListedLength, ElementOfSeq
<1> HIDE DEF n
<1>1. \A i \in 1..n : ids(i) \in Nat
  <2>1. \A i \in 1..n : /\ t[i].num_report_ids \in Nat
                        /\ t[i].instances_minus_one + 1 \in Nat
    <3>1. \A i \in 1..n : /\ t[i].num_report_ids \in Bytes
                          /\ t[i].instances_minus_one \in Bytes
      BY <1>0 DEF ObjectRecord
    <3>2. \A b \in Bytes : b \in Nat /\ b + 1 \in Nat
      BY DEF Bytes
    <3>3. QED
      BY <3>1, <3>2
  <2>2. \A a, b \in Nat : a * b \in Nat
    OBVIOUS
  <2>3. QED
    BY <2>1, <2>2 DEF Instances
<1> HIDE DEF ids
<1>2. step \in [1..n -> [Nat -> Nat]]
  BY <1>1
<1>3. \A i \in 1..n : \A k \in Nat : step[i][k] = k + ids(i)
  OBVIOUS
<1> HIDE DEF step
<1>4. \A i \in 0..n : i # 0 => i \in 1..n /\ i - 1 \in 0..n
  BY <1>0
<1>6. \E f : is(f)
  <2>1. Iterations(n, Nat, 1, step) # {}
    BY <1>0, <1>2, Iterated
  <2>2. PICK f \in [0..n -> Nat] :
          f[0] = 1 /\ \A i \in 1..n : f[i] = step[i][f[i - 1]]
    BY <2>1 DEF Iterations
  <2>3. \A i \in 1..n : f[i] = f[i - 1] + ids(i)
    BY <1>0, <1>3, <2>2
  <2>4. is(f)
    BY <1>4, <2>2, <2>3
  <2>5. QED
    BY <2>4
<1> DEFINE next == CHOOSE f : is(f)
<1>7. is(next) /\ \A i : FirstId(t, i) = next[i - 1]
  <2>1. \A i : FirstId(t, i) = next[i - 1]
    BY Zenon DEF FirstId, n, ids
  <2> HIDE DEF is
  <2>2. QED
    BY <1>6, <2>1, Zenon
<1> HIDE DEF next
<1>8. next[0] = 1 /\ \A i \in 1..n : next[i] = next[i - 1] + ids(i)
  <2>1. next = [i \in 0..n |-> IF i = 0 THEN 1 ELSE next[i - 1] + ids(i)]
    BY <1>7
  <2>2. 0 \in 0..n /\ \A i \in 1..n : i \in 0..n /\ i # 0
    BY <1>0
  <2>3. QED
    BY <2>1, <2>2
<1>9. \A i \in 0..n : next[i] \in Nat
  <2>1. next[0] \in Nat
    BY <1>8
  <2>2. \A i \in 1..n : next[i - 1] \in Nat => next[i] \in Nat
    BY <1>1, <1>8
  <2>3. QED
    BY <1>0, <2>1, <2>2, StaysIn
<1>10. FirstId(t, 1) = 1
  <2>1. 1 - 1 = 0
    OBVIOUS
  <2>2. QED
    BY <1>7, <1>8, <2>1
<1>11. \A i \in 1..(n + 1) : FirstId(t, i) \in Nat
  <2>1. \A i \in 1..(n + 1) : i - 1 \in 0..n
    BY <1>0
  <2>2. QED
    BY <1>7, <1>9, <2>1
<1>12. \A i \in 1..n : FirstId(t, i + 1) = FirstId(t, i) + ids(i)
  <2>1. \A i \in 1..n : (i + 1) - 1 = i
    OBVIOUS
  <2>2. QED
    BY <1>7, <1>8, <2>1
<1>13. QED
  BY <1>10, <1>11, <1>12 DEF n, ids

\* The read of the block before its CRC.
LEMMA SumStart ==
  ASSUME RangeInv, RangeInv', num_objects = Len(table), ReadBlock, crc = {},
         pc' = "crc"
  PROVE  SumInv'
<1>1. UNCHANGED <<num_objects, table, memory, crc>> /\ index' = 1
  BY DEF ReadBlock, Goto, given, dataVars
<1>2. BlockSize' = BlockSize /\ InfoBody(table)' = InfoBody(table)
  BY <1>1 DEF BlockSize
<1>3. block' \in Delivered(BlockSize)
  BY DEF ReadBlock, Goto
<1>4. \A p, q \in 1..BlockSize :
        block'[p] # memory[p] /\ block'[q] # memory[q] => p = q
  BY <1>3, DeliveredOnce DEF RangeInv
<1>5. Len(InfoBody(table)) \in Nat
  <2>1. Len(table) \in 0..255 /\ Len(InfoBody(table)) = 7 + 6 * Len(table)
    BY MemoryFacts DEF RangeInv
  <2>2. QED
    BY <2>1
<1>6. RunningCrc(InfoBody(table), 0) = {} /\ 0 \in 0..Words(InfoBody(table))
  BY <1>5, RunningCrcSteps DEF Words
<1>7. block' \in [1..BlockSize -> Bytes] /\ BlockSize \in Nat
  <2>1. block' \in [1..BlockSize -> Bytes]
    BY <1>2 DEF RangeInv, BlockRange
  <2>2. num_objects \in Nat
    BY DEF RangeInv, BlockRange, Bytes
  <2>3. QED
    BY <2>1, <2>2 DEF BlockSize, InfoSize, ObjectSize, ChecksumSize
<1>8. CrcOffset' \in Int
  BY <1>7 DEF CrcOffset, ChecksumSize
<1>9. \A p \in 1..CrcOffset' : ~ (p < 1)
  BY <1>8
<1>10. QED
  BY <1>1, <1>2, <1>4, <1>6, <1>9 DEF SumInv

\* Every step keeps the register, the block and the parsed objects those of
\* the table.
LEMMA TableKept ==
  ASSUME RangeInv, RangeInv', TableInv, [Next]_vars
  PROVE  TableInv'
<1>0. UNCHANGED given
  BY GivenKept
<1>1. Noise' = Noise /\ table' = table /\ memory' = memory
  BY <1>0 DEF given, Noise
<1> DEFINE Counted == {"block", "crc", "parse", "t7"}
<1>2. ASSUME UNCHANGED <<num_objects, info, crc>>, pc' = pc,
             pc \in {"crc", "parse"} => UNCHANGED <<block, index>>
      PROVE  TableInv'
  <2>1. pc = "crc" => (SumInv <=> SumInv')
    BY <1>1, <1>2 DEF SumInv, BlockSize, CrcOffset
  <2>2. QED
    BY <1>1, <1>2, <2>1 DEF TableInv
<1>3. ASSUME UNCHANGED <<num_objects, info, crc>>,
             pc \in Unread,
             pc' \in Unread \ {"block"} \/ pc' \notin Unread \cup Counted
      PROVE  TableInv'
  BY <1>1, <1>3 DEF TableInv, Unread
<1>4. ASSUME pc' \notin Unread \cup Counted
      PROVE  TableInv'
  BY <1>4 DEF TableInv, Unread
<1> USE DEF localVars, dataVars, blockVars
<1>5. CASE \/ ChipUp \/ ChipDown \/ UNCHANGED vars
           \/ \E m \in Messages \ {"reset"} : ChipReports(m)
  BY <1>2, <1>5 DEF ChipUp, ChipDown, ChipReports, vars
<1>6. CASE WorkStart \/ WorkEnd
  <2>1. UNCHANGED <<num_objects, info, crc, block, index>>
    BY <1>6 DEF WorkStart, WorkEnd
  <2>2. pc' = pc \/ pc' = "undefined"
    BY <1>6 DEF WorkStart, WorkEnd
  <2>3. QED
    BY <1>2, <1>4, <2>1, <2>2 DEF Unread
<1>7. CASE \/ Start
           \/ \E n \in 1..2 : ProbeSubmit(n) \/ ProbeTake(n) \/ ProbeTimeout(n)
  <2>1. UNCHANGED <<num_objects, info, crc>>
    BY <1>7 DEF Start, ProbeSubmit, ProbeTake, ProbeTimeout
  <2>2. /\ pc \in Unread
        /\ pc' \in {"probe1", "wait1", "probe2", "wait2", "header", "failed",
                    "undefined"}
    BY <1>7 DEF Start, ProbeSubmit, ProbeTake, ProbeTimeout, Waiting, Goto,
       Unread
  <2>3. QED
    BY <1>3, <2>1, <2>2 DEF Unread
<1>8. CASE ReadHeader
  <2>1. PICK bytes \in Delivered(InfoSize) :
          pc' = "failed" \/ (pc' = "block" /\ num_objects' = bytes[InfoSize])
    BY <1>8 DEF ReadHeader, Goto
  <2>2. ~Noise => bytes[InfoSize] = Len(table)
    BY HeaderTells DEF RangeInv
  <2>3. pc = "header" /\ UNCHANGED <<info, crc>>
    BY <1>8 DEF ReadHeader
  <2>4. QED
    BY <1>1, <2>1, <2>2, <2>3 DEF TableInv, Unread
<1>9. CASE ReadBlock
  <2>1. /\ pc = "block" /\ pc' \in {"crc", "failed"}
        /\ UNCHANGED <<num_objects, info, crc>>
    BY <1>9 DEF ReadBlock, Goto
  <2>2. crc = {} /\ info = NothingParsed
    BY <2>1 DEF TableInv, Unread
  <2>3. pc' = "crc" /\ num_objects = Len(table) => SumInv'
    BY <1>9, <2>2, SumStart
  <2>4. QED
    BY <1>1, <2>1, <2>2, <2>3 DEF TableInv, Unread
<1>10. CASE CrcStep
  <2>1. pc = "crc" /\ pc' = "crc" /\ UNCHANGED <<num_objects, info>>
    BY <1>10 DEF CrcStep, Goto
  <2>2. num_objects = Len(table) => SumInv'
    BY <1>10, <2>1, SumStep DEF TableInv
  <2>3. QED
    BY <1>1, <2>1, <2>2 DEF TableInv, Unread
<1>11. CASE CrcCompare
  <2>1. /\ pc = "crc" /\ index > CrcOffset
        /\ UNCHANGED <<num_objects, info, block>>
        /\ pc' \in {"parse", "failed"} /\ index' = 1
        /\ pc' = "parse" => CrcMatches
    BY <1>11 DEF CrcCompare, Goto
  <2>2. info = NothingParsed
    BY <2>1 DEF TableInv
  <2>3. ASSUME pc' = "parse", num_objects = Len(table)
        PROVE  /\ block = memory /\ index' <= Len(table) + 1
               /\ info = ParsedObjects(table, index' - 1)
    <3>1. block = memory
      BY <2>1, <2>3, SumEnd DEF TableInv
    <3>2. table \in Listed /\ Len(table) \in 0..255
      BY <2>3, MemoryFacts DEF RangeInv
    <3>3. info = ParsedObjects(table, 0)
      BY <2>2, <3>2, ParsedUnfolds
    <3>4. index' - 1 = 0 /\ index' <= Len(table) + 1
      BY <2>1, <3>2
    <3>5. QED
      BY <3>1, <3>3, <3>4
  <2>4. QED
    BY <1>1, <2>1, <2>3 DEF TableInv, Unread
<1>12. CASE ParseStep
  <2>1. /\ pc = "parse" /\ pc' = "parse" /\ UNCHANGED <<num_objects, block>>
        /\ index <= num_objects /\ index' = index + 1
        /\ info' = ParseObject(info, ObjectAt(block, index))
    BY <1>12 DEF ParseStep, Goto
  <2>2. ASSUME num_objects = Len(table)
        PROVE  /\ block = memory /\ index' <= Len(table) + 1
               /\ info' = ParsedObjects(table, index' - 1)
    <3>1. block = memory /\ info = ParsedObjects(table, index - 1)
      BY <2>1, <2>2 DEF TableInv
    <3>2. /\ table \in Listed /\ Len(table) \in 0..255
          /\ memory = InfoBlock(table)
      BY <2>2, MemoryFacts DEF RangeInv, GivenOK
    <3>3. index \in Nat \ {0}
      BY DEF RangeInv, BlockRange
    <3>4. /\ index \in 1..Len(table) /\ index' - 1 = index
          /\ index' <= Len(table) + 1
      BY <2>1, <2>2, <3>2, <3>3
    <3>5. ObjectAt(block, index) = table[index]
      BY <3>1, <3>2, <3>4, ObjectsRead
    <3>6. info' = ParsedObjects(table, index)
      BY <2>1, <3>1, <3>2, <3>4, <3>5, ParsedUnfolds
    <3>7. QED
      BY <3>1, <3>4, <3>6
  <2>3. QED
    BY <1>1, <2>1, <2>2 DEF TableInv, Unread
<1>13. CASE ParseEnd
  <2>1. /\ pc = "parse" /\ pc' \in {"t7", "failed"} /\ UNCHANGED num_objects
        /\ index > num_objects /\ (pc' = "t7" => info' = Limited(info))
    BY <1>13 DEF ParseEnd, Goto
  <2>2. ASSUME num_objects = Len(table), pc' = "t7"
        PROVE  info' = Parsed(table)
    <3>1. index <= Len(table) + 1 /\ info = ParsedObjects(table, index - 1)
      BY <2>1, <2>2 DEF TableInv
    <3>2. Len(table) \in 0..255
      BY <2>2, MemoryFacts DEF RangeInv
    <3>3. index \in Nat \ {0} /\ index > Len(table)
      BY <2>1, <2>2 DEF RangeInv, BlockRange
    <3>4. index - 1 = Len(table)
      BY <3>1, <3>2, <3>3
    <3>5. info = ParsedObjects(table, Len(table))
      BY <3>1, <3>4
    <3>6. QED
      BY <2>1, <2>2, <3>5 DEF Parsed
  <2>3. QED
    BY <1>1, <2>1, <2>2 DEF TableInv, Unread
<1>14. CASE \/ ReadT7 \/ SendReset \/ Poll \/ PollTimeout \/ PollMessage
            \/ Drain \/ ReadNumtch \/ WriteNumtch \/ ReadChgMode \/ WriteChgMode
  <2>1. pc' \in {"reset", "failed", "poll", "drain", "messages", "t100",
                 "t100_write", "t18", "t18_write", "ready"}
    BY <1>14 DEF ReadT7, SendReset, Poll, PollTimeout, PollMessage, Drain,
       ReadNumtch, WriteNumtch, ReadChgMode, WriteChgMode, StartDrain, AfterT100,
       Goto
  <2>2. QED
    BY <1>4, <2>1 DEF Unread
<1>15. QED
  BY <1>5, <1>6, <1>7, <1>8, <1>9, <1>10, <1>11, <1>12, <1>13, <1>14
  DEF Next, InitStep

\* What is parsed is always the table.
LEMMA TableCorrect == Spec => []TableInv
<1>1. Init => TableInv
  BY DEF Init, TableInv, Unread
<1>2. RangeInv /\ RangeInv' /\ TableInv /\ [Next]_vars => TableInv'
  BY TableKept
<1>3. QED
  BY <1>1, <1>2, RangeCorrect, PTL DEF Spec

\* A block with an inverted bit is never taken for the table: the CRC of any
\* table tells, if the number of objects was read right, as it is on a bus that
\* inverts none.
THEOREM CorruptBlock ==
  Spec => []((Noise => num_objects = Len(table)) => CorruptBlockRejected)
<1>1. TableInv => ((Noise => num_objects = Len(table)) => CorruptBlockRejected)
  BY DEF TableInv, CorruptBlockRejected
<1>2. QED
  BY <1>1, TableCorrect, PTL
-----------------------------------------------------------------------------

\* What a turn of the loop does to the report ids.
LEMMA ParseObjectIds ==
  ASSUME NEW d \in InfoRecord, NEW obj \in ObjectRecord
  PROVE  LET e == ParseObject(d, obj)
         IN /\ e.reportid = Byte(d.reportid + IdsOf(obj))
            /\ e.t6_reportid =
                 IF obj.type = 6 THEN d.reportid ELSE d.t6_reportid
            /\ e.t100_reportid_min =
                 IF obj.type = 100 THEN d.reportid ELSE d.t100_reportid_min
            /\ e.t100_reportid_max =
                 IF obj.type = 100
                   THEN Byte(d.reportid + obj.num_report_ids - 1)
                   ELSE d.t100_reportid_max
<1> DEFINE size == Byte(Byte(obj.size_minus_one + 1) - 1)
           last == Byte(d.reportid + obj.num_report_ids - 1)
           touches == Byte(obj.num_report_ids - 2)
           ids == IdsOf(obj)
           kept ==
      CASE obj.type = 5 -> [d EXCEPT !.t5_address = obj.address,
                                     !.t5_msg_size = size]
        [] obj.type = 6 -> [d EXCEPT !.t6_address = obj.address,
                                     !.t6_reportid = d.reportid]
        [] obj.type = 7 -> [d EXCEPT !.t7_address = obj.address]
        [] obj.type = 18 -> [d EXCEPT !.t18_address = obj.address]
        [] obj.type = 44 -> [d EXCEPT !.t44_address = obj.address]
        [] obj.type = 100 ->
             [d EXCEPT !.t100_address = obj.address,
                       !.t100_reportid_min = d.reportid,
                       !.num_touchids = touches,
                       !.t100_reportid_max = last]
        [] OTHER -> d
           Ids(e, r, six, low, high) ==
             /\ e.reportid = r /\ e.t6_reportid = six
             /\ e.t100_reportid_min = low /\ e.t100_reportid_max = high
<1>1. ParseObject(d, obj) = [kept EXCEPT !.reportid = Byte(@ + ids)]
  BY DEF ParseObject
<1> HIDE DEF ids, size, last, touches
<1>2. /\ Ids(kept, d.reportid,
             IF obj.type = 6 THEN d.reportid ELSE d.t6_reportid,
             IF obj.type = 100 THEN d.reportid ELSE d.t100_reportid_min,
             IF obj.type = 100 THEN last ELSE d.t100_reportid_max)
      /\ DOMAIN kept = DOMAIN d
  <2>1. CASE obj.type = 5
    <3>1. kept = [d EXCEPT !.t5_address = obj.address, !.t5_msg_size = size]
      BY <2>1
    <3> HIDE DEF kept
    <3>2. QED
      BY <2>1, <3>1 DEF InfoRecord
  <2>2. CASE obj.type = 6
    <3>1. kept = [d EXCEPT !.t6_address = obj.address,
                           !.t6_reportid = d.reportid]
      BY <2>2
    <3> HIDE DEF kept
    <3>2. QED
      BY <2>2, <3>1 DEF InfoRecord
  <2>3. CASE obj.type = 7
    <3>1. kept = [d EXCEPT !.t7_address = obj.address]
      BY <2>3
    <3> HIDE DEF kept
    <3>2. QED
      BY <2>3, <3>1 DEF InfoRecord
  <2>4. CASE obj.type = 18
    <3>1. kept = [d EXCEPT !.t18_address = obj.address]
      BY <2>4
    <3> HIDE DEF kept
    <3>2. QED
      BY <2>4, <3>1 DEF InfoRecord
  <2>5. CASE obj.type = 44
    <3>1. kept = [d EXCEPT !.t44_address = obj.address]
      BY <2>5
    <3> HIDE DEF kept
    <3>2. QED
      BY <2>5, <3>1 DEF InfoRecord
  <2>6. CASE obj.type = 100
    <3>1. kept = [d EXCEPT !.t100_address = obj.address,
                           !.t100_reportid_min = d.reportid,
                           !.num_touchids = touches,
                           !.t100_reportid_max = last]
      BY <2>6
    <3> HIDE DEF kept
    <3>2. QED
      BY <2>6, <3>1 DEF InfoRecord
  <2>7. CASE obj.type \notin {5, 6, 7, 18, 44, 100}
    BY <2>7
  <2>8. QED
    BY <2>1, <2>2, <2>3, <2>4, <2>5, <2>6, <2>7
<1> HIDE DEF kept
<1>3. "reportid" \in DOMAIN kept
  BY <1>2 DEF InfoRecord
<1>4. Ids(ParseObject(d, obj), Byte(kept.reportid + ids), kept.t6_reportid,
          kept.t100_reportid_min, kept.t100_reportid_max)
  BY <1>1, <1>3
<1>5. QED
  BY <1>2, <1>4 DEF ids, last

\* Eight bits are enough for a table that needs no more ids.
LEMMA IdsInByte ==
  ASSUME NEW obj \in ObjectRecord, NEW r \in Nat \ {0},
         r + obj.num_report_ids * Instances(obj) <= 255
  PROVE  Byte(r + IdsOf(obj)) = r + obj.num_report_ids * Instances(obj)
<1> DEFINE num == obj.num_report_ids
           more == obj.instances_minus_one
<1>1. num \in Bytes /\ more \in Bytes
  BY DEF ObjectRecord
<1>2. r + num * (more + 1) <= 255
  BY DEF Instances
<1> HIDE DEF num, more
<1>3. \A n, m \in Nat : n * m \in Nat
  OBVIOUS
<1>4. num * Byte(more + 1) = num * (more + 1)
  <2>1. CASE more # 255
    BY <1>1, <2>1 DEF Byte, Bytes
  <2>2. CASE more = 255
    <3>1. num = 0
      BY <1>1, <1>2, <2>2 DEF Bytes
    <3>2. \A m \in Nat : 0 * m = 0
      OBVIOUS
    <3>3. Byte(more + 1) \in Nat /\ more + 1 \in Nat
      BY <2>2 DEF Byte
    <3>4. QED
      BY <3>1, <3>2, <3>3
  <2>3. QED
    BY <2>1, <2>2
<1>5. num * (more + 1) \in Nat
  BY <1>1, <1>3 DEF Bytes
<1>6. \A n \in Nat : r + n <= 255 => Byte(r + n) = r + n
  BY DEF Byte
<1>7. QED
  BY <1>2, <1>4, <1>5, <1>6 DEF IdsOf, Instances, num, more

\* If the last id fits in a byte, all do.
LEMMA FirstIdsInByte ==
  ASSUME NEW t \in Listed, FirstId(t, Len(t) + 1) <= 255
  PROVE  \A i \in 1..(Len(t) + 1) : FirstId(t, i) \in 1..255
<1> DEFINE n == Len(t)
           first(i) == FirstId(t, i)
           ids(i) == t[i].num_report_ids * Instances(t[i])
           low == {k \in 0..n : first(k + 1) >= 1}
           high == {k \in 0..n : first(n + 1 - k) <= 255}
<1>1. n \in Nat
  BY ListedLength
<1>2. \A i \in 1..n : ids(i) \in Nat
  <2>1. \A i \in 1..n : t[i] \in ObjectRecord
    BY ListedLength, ElementOfSeq
  <2>2. \A i \in 1..n : /\ t[i].num_report_ids \in Bytes
                        /\ t[i].instances_minus_one \in Bytes
    BY <2>1 DEF ObjectRecord
  <2>3. \A b \in Bytes : b \in Nat /\ b + 1 \in Nat
    BY DEF Bytes
  <2>4. \A a, b \in Nat : a * b \in Nat
    OBVIOUS
  <2>5. QED
    BY <2>2, <2>3, <2>4 DEF Instances
<1>3. /\ first(1) = 1 /\ first(n + 1) <= 255
      /\ \A i \in 1..(n + 1) : first(i) \in Nat
      /\ \A i \in 1..n : first(i + 1) = first(i) + ids(i)
  BY FirstIdUnfolds
<1> HIDE DEF n, first, ids
<1>4. \A i \in 1..n : first(i) <= first(i + 1)
  BY <1>1, <1>2, <1>3
<1>5. 0..n \subseteq low
  <2>1. 0 \in low
    BY <1>1, <1>3
  <2>2. \A k \in 1..n : k - 1 \in low => k \in low
    BY <1>1, <1>3, <1>4
  <2> HIDE DEF low
  <2>3. QED
    BY <1>1, <2>1, <2>2, UpTo
<1>6. 0..n \subseteq high
  <2>1. 0 \in high
    BY <1>1, <1>3
  <2>2. \A k \in 1..n : k - 1 \in high => k \in high
    <3>1. SUFFICES ASSUME NEW k \in 1..n, first(n + 1 - (k - 1)) <= 255
                   PROVE  first(n + 1 - k) <= 255
      BY <1>1
    <3>2. /\ n + 1 - k \in 1..n /\ n + 1 - k \in 1..(n + 1)
          /\ (n + 1 - k) + 1 = n + 1 - (k - 1)
          /\ (n + 1 - k) + 1 \in 1..(n + 1)
      BY <1>1
    <3>3. QED
      BY <1>3, <1>4, <3>1, <3>2
  <2> HIDE DEF high
  <2>3. QED
    BY <1>1, <2>1, <2>2, UpTo
<1>7. ASSUME NEW i \in 1..(n + 1)
      PROVE  first(i) \in 1..255
  <2>1. i - 1 \in 0..n /\ n + 1 - i \in 0..n
    BY <1>1
  <2>2. i - 1 \in low /\ n + 1 - i \in high
    BY <1>5, <1>6, <2>1, Zenon
  <2>3. (i - 1) + 1 = i /\ n + 1 - (n + 1 - i) = i
    BY <1>1
  <2>4. first(i) >= 1 /\ first(i) <= 255
    BY <2>2, <2>3
  <2>5. first(i) \in Nat
    BY <1>3
  <2>6. \A k \in Nat : k >= 1 /\ k <= 255 => k \in 1..255
    OBVIOUS
  <2>7. QED
    BY <2>4, <2>5, <2>6
<1>8. QED
  BY <1>7 DEF n, first

\* What the first objects leave of their report ids: the next one, the T6's, the
\* first and the last of the T100's.
IdsKept(t, k) ==
  LET d == ParsedObjects(t, k)
  IN /\ d.reportid = FirstId(t, k + 1)
     /\ \A i \in 1..k : t[i].type = 6 => d.t6_reportid = FirstId(t, i)
     /\ (\A i \in 1..k : t[i].type # 6) => d.t6_reportid = 0
     /\ \A i \in 1..k : t[i].type = 100 =>
          /\ d.t100_reportid_min = FirstId(t, i)
          /\ d.t100_reportid_max = FirstId(t, i) + t[i].num_report_ids - 1
     /\ (\A i \in 1..k : t[i].type # 100) =>
          d.t100_reportid_min = 0 /\ d.t100_reportid_max = 0

\* What IdsFit says of a table of n objects, for the prover.
LEMMA FitFacts ==
  ASSUME NEW t \in Listed, IdsFit(t)
  PROVE  /\ \A i \in 1..Len(t) :
              /\ t[i] \in ObjectRecord
              /\ FirstId(t, i) \in 1..255
              /\ FirstId(t, i) + t[i].num_report_ids * Instances(t[i]) <= 255
         /\ \A i \in 1..Len(t) : t[i].type = 6 => t[i].num_report_ids = 1
         /\ \A i \in 1..Len(t) : t[i].type = 100 =>
              /\ t[i].num_report_ids \in 2..(MaxTouches + 2)
              /\ t[i].num_report_ids \in 2..18
              /\ FirstId(t, i) + t[i].num_report_ids <= 255
         /\ \A i, j \in 1..Len(t) : t[i].type = 6 /\ t[j].type = 6 => i = j
         /\ \A i, j \in 1..Len(t) : t[i].type = 100 /\ t[j].type = 100 => i = j
<1>1. DOMAIN t = 1..Len(t) /\ Len(t) \in 0..255
  BY ListedLength, LenProperties
<1>2. FirstId(t, Len(t) + 1) <= 255
  BY DEF IdsFit
<1>3. \A i \in 1..Len(t) : t[i] \in ObjectRecord
  BY ListedLength, ElementOfSeq
<1>4. \A i \in 1..Len(t) : i + 1 \in 1..(Len(t) + 1) /\ i \in 1..(Len(t) + 1)
  BY <1>1
<1>5. \A i \in 1..Len(t) :
        /\ FirstId(t, i) \in 1..255
        /\ FirstId(t, i) + t[i].num_report_ids * Instances(t[i]) <= 255
  <2>1. \A i \in 1..(Len(t) + 1) : FirstId(t, i) \in 1..255
    BY <1>2, FirstIdsInByte
  <2>2. \A k \in 1..255 : k <= 255
    OBVIOUS
  <2>3. \A i \in 1..Len(t) : FirstId(t, i + 1) <= 255
    BY <1>4, <2>1, <2>2, Zenon
  <2>4. QED
    BY <1>4, <2>1, <2>3, FirstIdUnfolds
<1>6. /\ \A i \in 1..Len(t) : t[i].type = 6 => t[i].num_report_ids = 1
      /\ \A i \in 1..Len(t) : t[i].type = 100 =>
           t[i].num_report_ids \in 2..(MaxTouches + 2)
  BY <1>1 DEF IdsFit
<1>7. /\ \A i, j \in 1..Len(t) : t[i].type = 6 /\ t[j].type = 6 => i = j
      /\ \A i, j \in 1..Len(t) : t[i].type = 100 /\ t[j].type = 100 => i = j
  <2>1. \A i, j \in DOMAIN t :
          t[i].type = t[j].type /\ t[i].type \in {6, 100} => i = j
    BY DEF IdsFit
  <2>2. \A i, j \in 1..Len(t) :
          t[i].type = t[j].type /\ t[i].type \in {6, 100} => i = j
    BY <1>1, <2>1, ZenonT(40)
  <2>3. ASSUME NEW i \in 1..Len(t), NEW j \in 1..Len(t),
               \/ t[i].type = 6 /\ t[j].type = 6
               \/ t[i].type = 100 /\ t[j].type = 100
        PROVE  i = j
    <3>1. t[i].type = t[j].type /\ t[i].type \in {6, 100}
      BY <2>3
    <3>2. QED
      BY <2>2, <3>1, Zenon
  <2>4. QED
    BY <2>3, ZenonT(40)
<1>8. ASSUME NEW i \in 1..Len(t), t[i].type = 100
      PROVE  /\ FirstId(t, i) + t[i].num_report_ids <= 255
             /\ t[i].num_report_ids \in 2..18
  <2>1. /\ t[i].num_report_ids \in 2..18
        /\ Instances(t[i]) \in 1..256
    <3>1. t[i].instances_minus_one \in Bytes
      BY <1>3 DEF ObjectRecord
    <3>2. \A m \in 1..16 : \A k \in 2..(m + 2) : k \in 2..18
      OBVIOUS
    <3>3. \A k \in Bytes : k + 1 \in 1..256
      BY DEF Bytes
    <3>4. MaxTouches \in 1..16 /\ t[i].num_report_ids \in 2..(MaxTouches + 2)
      BY <1>6, <1>8, InfoAssumption
    <3>5. t[i].num_report_ids \in 2..18
      BY <3>2, <3>4, Zenon
    <3>6. QED
      BY <3>1, <3>3, <3>5, Zenon DEF Instances
  <2>2. \A num \in 2..18 : \A m \in 1..256 : num <= num * m
    OBVIOUS
  <2>3. \A num \in 2..18 : \A m \in 1..256 : num \in Nat /\ num * m \in Nat
    OBVIOUS
  <2> DEFINE num == t[i].num_report_ids
             all == num * Instances(t[i])
             first == FirstId(t, i)
  <2>4. num \in Nat /\ all \in Nat /\ num <= all
    BY <2>1, <2>2, <2>3
  <2>5. first \in 1..255 /\ first + all <= 255
    BY <1>5
  <2> HIDE DEF num, all, first
  <2>6. first + num <= 255
    BY <2>4, <2>5
  <2>7. QED
    BY <2>1, <2>6 DEF num, first
<1>9. QED
  BY <1>3, <1>5, <1>6, <1>7, <1>8

\* All objects of a table that fits leave its report ids.
LEMMA IdsKeptByAll ==
  ASSUME NEW t \in Listed, IdsFit(t)
  PROVE  IdsKept(t, Len(t))
<1> DEFINE n == Len(t)
           first(i) == FirstId(t, i)
           d(k) == ParsedObjects(t, k)
           inside == {k \in 0..n : IdsKept(t, k)}
<1>1. n \in Nat
  BY ListedLength
<1>2. /\ d(0) = NothingParsed
      /\ \A k \in 0..n : d(k) \in InfoRecord
      /\ \A k \in 1..n : d(k) = ParseObject(d(k - 1), t[k])
  BY ParsedUnfolds
<1>3. first(1) = 1 /\ \A i \in 1..n :
        first(i + 1) = first(i) + t[i].num_report_ids * Instances(t[i])
  BY FirstIdUnfolds
<1>4. 0 \in inside
  <2>1. IdsKept(t, 0)
    BY <1>2, <1>3 DEF IdsKept, NothingParsed
  <2>2. QED
    BY <1>1, <2>1
<1>5. ASSUME NEW k \in 1..n, IdsKept(t, k - 1)
      PROVE  IdsKept(t, k)
  <2> DEFINE e == d(k - 1)
             obj == t[k]
  <2>1. /\ e \in InfoRecord /\ obj \in ObjectRecord
        /\ first(k) \in 1..255 /\ (k - 1) + 1 = k
        /\ first(k) + obj.num_report_ids * Instances(obj) <= 255
    <3>1. k - 1 \in 0..n /\ (k - 1) + 1 = k
      BY <1>1
    <3>2. e \in InfoRecord
      BY <1>2, <3>1
    <3>3. QED
      BY <3>1, <3>2, FitFacts
  <2>2. e.reportid = first(k)
    BY <1>5, <2>1 DEF IdsKept
  <2>3. /\ d(k).reportid = Byte(e.reportid + IdsOf(obj))
        /\ d(k).t6_reportid =
             IF obj.type = 6 THEN e.reportid ELSE e.t6_reportid
        /\ d(k).t100_reportid_min =
             IF obj.type = 100 THEN e.reportid ELSE e.t100_reportid_min
        /\ d(k).t100_reportid_max =
             IF obj.type = 100 THEN Byte(e.reportid + obj.num_report_ids - 1)
                               ELSE e.t100_reportid_max
    <3>1. d(k) = ParseObject(e, obj)
      BY <1>2
    <3> HIDE DEF d, e, obj
    <3>2. QED
      BY <2>1, <3>1, ParseObjectIds
  <2>4. d(k).reportid = first(k + 1)
    <3>1. d(k).reportid = Byte(first(k) + IdsOf(obj))
      BY <2>2, <2>3, Zenon
    <3>2. first(k) \in Nat \ {0}
      <4>1. \A j \in 1..255 : j \in Nat \ {0}
        OBVIOUS
      <4>2. QED
        BY <2>1, <4>1, Zenon
    <3>3. Byte(first(k) + IdsOf(obj)) =
            first(k) + obj.num_report_ids * Instances(obj)
      BY <2>1, <3>2, IdsInByte
    <3>4. QED
      BY <1>3, <3>1, <3>3
  <2>5. /\ d(k).t6_reportid = IF obj.type = 6 THEN first(k) ELSE e.t6_reportid
        /\ d(k).t100_reportid_min =
             IF obj.type = 100 THEN first(k) ELSE e.t100_reportid_min
        /\ d(k).t100_reportid_max =
             IF obj.type = 100 THEN Byte(first(k) + obj.num_report_ids - 1)
                               ELSE e.t100_reportid_max
    BY <2>2, <2>3
  <2>6. obj.type = 100 => Byte(first(k) + obj.num_report_ids - 1) =
                            first(k) + obj.num_report_ids - 1
    <3>1. obj.type = 100 => /\ first(k) + obj.num_report_ids <= 255
                            /\ obj.num_report_ids \in 2..18
      BY FitFacts
    <3>2. \A a \in 1..255 : \A b \in 2..18 :
            a + b <= 255 => Byte(a + b - 1) = a + b - 1
      BY DEF Byte
    <3>3. QED
      BY <2>1, <3>1, <3>2
  <2>7. \A i \in 1..k : i = k \/ i \in 1..(k - 1)
    BY <1>1
  <2>8. 1..(k - 1) \subseteq 1..k /\ k \in 1..k /\ 1..k \subseteq 1..n
    BY <1>1
  <2>9. /\ \A i \in 1..(k - 1) : t[i].type = 6 => obj.type # 6
        /\ \A i \in 1..(k - 1) : t[i].type = 100 => obj.type # 100
    <3>1. \A i \in 1..(k - 1) : i # k /\ i \in 1..n
      BY <1>1
    <3>2. QED
      BY <3>1, FitFacts
  <2>10. /\ \A i \in 1..k : t[i].type = 6 => d(k).t6_reportid = first(i)
         /\ (\A i \in 1..k : t[i].type # 6) => d(k).t6_reportid = 0
    <3>1. /\ \A i \in 1..(k - 1) : t[i].type = 6 => e.t6_reportid = first(i)
          /\ (\A i \in 1..(k - 1) : t[i].type # 6) => e.t6_reportid = 0
      BY <1>5 DEF IdsKept
    <3> HIDE DEF first, d, e
    <3>2. QED
      BY <2>5, <2>7, <2>8, <2>9, <3>1
  <2>11. /\ \A i \in 1..k : t[i].type = 100 =>
              /\ d(k).t100_reportid_min = first(i)
              /\ d(k).t100_reportid_max = first(i) + t[i].num_report_ids - 1
         /\ (\A i \in 1..k : t[i].type # 100) =>
              d(k).t100_reportid_min = 0 /\ d(k).t100_reportid_max = 0
    <3>1. /\ \A i \in 1..(k - 1) : t[i].type = 100 =>
               /\ e.t100_reportid_min = first(i)
               /\ e.t100_reportid_max = first(i) + t[i].num_report_ids - 1
          /\ (\A i \in 1..(k - 1) : t[i].type # 100) =>
               e.t100_reportid_min = 0 /\ e.t100_reportid_max = 0
      BY <1>5 DEF IdsKept
    <3> HIDE DEF first, d, e
    <3>2. QED
      BY <2>5, <2>6, <2>7, <2>8, <2>9, <3>1
  <2>12. QED
    BY <2>4, <2>10, <2>11, Zenon DEF IdsKept
<1>6. \A k \in 1..n : k - 1 \in inside => k \in inside
  BY <1>1, <1>5
<1> HIDE DEF inside
<1>7. 0..n \subseteq inside
  BY <1>1, <1>4, <1>6, UpTo
<1>8. QED
  BY <1>1, <1>7 DEF inside

\* Dispatch, for the ids that are one.
LEMMA DispatchOf ==
  ASSUME NEW d, NEW r \in 1..254
  PROVE  LET start == Byte(d.t100_reportid_min + 2)
         IN Dispatch(d, r) =
              IF r = d.t6_reportid THEN <<"t6">>
              ELSE IF /\ r >= start /\ r <= d.t100_reportid_max
                      /\ r - start < MaxTouches
                     THEN Touch(r - start)
                     ELSE Ignored
<1>1. r \notin {0, 255}
  OBVIOUS
<1> DEFINE start == Byte(d.t100_reportid_min + 2)
           touch == /\ r >= start /\ r <= d.t100_reportid_max
                    /\ r - start < MaxTouches
<1>2. CASE r = d.t6_reportid
  BY <1>1, <1>2 DEF Dispatch
<1>3. CASE r # d.t6_reportid /\ touch
  BY <1>1, <1>3 DEF Dispatch
<1>4. CASE r # d.t6_reportid /\ ~touch
  BY <1>1, <1>4 DEF Dispatch
<1>5. QED
  BY <1>2, <1>3, <1>4

\* The places of an id in a T6's one and in a T100's ids.
LEMMA OneId ==
  ASSUME NEW r \in 1..254, NEW f \in 1..255
  PROVE  r >= f /\ r < f + 1 <=> r = f
OBVIOUS

\* .. where no sum of a touch id wraps.
LEMMA TouchIds ==
  ASSUME NEW r \in 1..254, NEW f \in 1..255, NEW m \in 1..16,
         NEW k \in 2..(m + 2), f + k <= 255
  PROVE  /\ Byte(f + 2) = f + 2 /\ r - Byte(f + 2) = r - f - 2
         /\ r >= f + 2 => r >= f
         /\ (r >= Byte(f + 2) /\ r <= f + k - 1 /\ r - Byte(f + 2) < m)
              <=> (r >= f + 2 /\ r < f + k)
<1>1. Byte(f + 2) = f + 2
  BY DEF Byte
<1>2. QED
  BY <1>1

\* What the driver makes of an id is what the controller means by it.
LEMMA IdsAgree ==
  ASSUME NEW t \in Listed, IdsFit(t), NEW r \in 1..254
  PROVE  Dispatch(Parsed(t), r) = Meaning(t, r)
<1> DEFINE n == Len(t)
           p == ParsedObjects(t, n)
           d == Parsed(t)
           first(i) == FirstId(t, i)
           num(i) == t[i].num_report_ids
           of(type) == {i \in DOMAIN t :
                          /\ t[i].type = type
                          /\ r >= first(i) /\ r < first(i) + num(i)}
<1>1. n \in Nat /\ DOMAIN t = 1..n
  BY ListedLength, LenProperties
<1>2. /\ d.t6_reportid = p.t6_reportid
      /\ d.t100_reportid_min = p.t100_reportid_min
      /\ d.t100_reportid_max = p.t100_reportid_max
  <2>1. p \in InfoRecord
    BY <1>1, ParsedUnfolds
  <2> HIDE DEF p
  <2>2. \E k : Limited(p) = [p EXCEPT !.num_touchids = k]
    BY DEF Limited
  <2>3. d = Limited(p)
    BY DEF Parsed, p
  <2> HIDE DEF d
  <2>4. QED
    BY <2>1, <2>2, <2>3 DEF InfoRecord
<1>3. /\ \A i \in 1..n : t[i].type = 6 => d.t6_reportid = first(i)
      /\ (\A i \in 1..n : t[i].type # 6) => d.t6_reportid = 0
      /\ \A i \in 1..n : t[i].type = 100 =>
           /\ d.t100_reportid_min = first(i)
           /\ d.t100_reportid_max = first(i) + num(i) - 1
      /\ (\A i \in 1..n : t[i].type # 100) =>
           d.t100_reportid_min = 0 /\ d.t100_reportid_max = 0
  <2>1. IdsKept(t, n)
    BY IdsKeptByAll
  <2> HIDE DEF d
  <2>2. QED
    BY <1>2, <2>1, Zenon DEF IdsKept
<1>4. /\ \A i \in 1..n : first(i) \in 1..255
      /\ \A i \in 1..n : t[i].type = 6 => num(i) = 1
      /\ \A i \in 1..n : t[i].type = 100 =>
           /\ num(i) \in 2..(MaxTouches + 2) /\ num(i) \in 2..18
           /\ first(i) + num(i) <= 255
      /\ \A i, j \in 1..n : t[i].type = 100 /\ t[j].type = 100 => i = j
  BY FitFacts
<1>5. Meaning(t, r) =
        IF of(6) # {} THEN <<"t6">>
        ELSE IF \E i \in of(100) : r >= first(i) + 2
               THEN Touch(r - first(CHOOSE i \in of(100) : TRUE) - 2)
               ELSE Ignored
  BY Zenon DEF Meaning
<1> DEFINE start == Byte(d.t100_reportid_min + 2)
<1>6. Dispatch(d, r) =
        IF r = d.t6_reportid THEN <<"t6">>
        ELSE IF /\ r >= start /\ r <= d.t100_reportid_max
                /\ r - start < MaxTouches
               THEN Touch(r - start)
               ELSE Ignored
  BY DispatchOf
<1> SUFFICES Dispatch(d, r) = Meaning(t, r)
  OBVIOUS
<1> HIDE DEF d, first, num
<1>7. of(6) # {} <=> r = d.t6_reportid
  <2>1. ASSUME NEW i \in 1..n, t[i].type = 6
        PROVE  (r >= first(i) /\ r < first(i) + num(i)) <=> r = d.t6_reportid
    <3>1. first(i) \in 1..255 /\ num(i) = 1 /\ d.t6_reportid = first(i)
      BY <1>3, <1>4, <2>1
    <3>2. (r >= first(i) /\ r < first(i) + 1) <=> r = first(i)
      BY <3>1, OneId, Zenon
    <3>3. QED
      BY <3>1, <3>2, Zenon
  <2>2. r # 0
    OBVIOUS
  <2>3. CASE \E i \in 1..n : t[i].type = 6
    BY <1>1, <2>1, <2>3
  <2>4. CASE \A i \in 1..n : t[i].type # 6
    BY <1>1, <1>3, <2>2, <2>4
  <2>5. QED
    BY <2>3, <2>4
<1>8. CASE of(6) # {}
  BY <1>5, <1>6, <1>7, <1>8
<1>9. CASE of(6) = {} /\ \A i \in 1..n : t[i].type # 100
  <2>1. of(100) = {}
    BY <1>1, <1>9
  <2>2. d.t100_reportid_min = 0 /\ d.t100_reportid_max = 0
    BY <1>3, <1>9
  <2>3. ~ (r <= d.t100_reportid_max)
    BY <2>2
  <2>4. QED
    BY <1>5, <1>6, <1>7, <1>9, <2>1, <2>3
<1>10. ASSUME of(6) = {}, NEW j \in 1..n, t[j].type = 100
       PROVE  Dispatch(d, r) = Meaning(t, r)
  <2>1. /\ first(j) \in 1..255 /\ num(j) \in 2..(MaxTouches + 2)
        /\ num(j) \in 2..18 /\ first(j) + num(j) <= 255
        /\ d.t100_reportid_min = first(j)
        /\ d.t100_reportid_max = first(j) + num(j) - 1
    BY <1>3, <1>4, <1>10
  <2>2. /\ start = Byte(first(j) + 2) /\ MaxTouches \in 1..16
    BY <2>1, InfoAssumption
  <2>3. \A i : i \in of(100) <=>
          i = j /\ r >= first(j) /\ r < first(j) + num(j)
    BY <1>1, <1>4, <1>10
  <2> HIDE DEF of, start
  <2> DEFINE low == r >= first(j)
             high == r < first(j) + num(j)
             mid == r >= first(j) + 2
  <2>4. /\ r - start = r - first(j) - 2 /\ (mid => low)
        /\ (/\ r >= start /\ r <= d.t100_reportid_max
            /\ r - start < MaxTouches) <=> mid /\ high
    <3>1. /\ r - Byte(first(j) + 2) = r - first(j) - 2
          /\ r >= first(j) + 2 => r >= first(j)
          /\ (/\ r >= Byte(first(j) + 2) /\ r <= first(j) + num(j) - 1
              /\ r - Byte(first(j) + 2) < MaxTouches)
                <=> (r >= first(j) + 2 /\ r < first(j) + num(j))
      BY <2>1, <2>2, TouchIds, ZenonT(40)
    <3>2. QED
      BY <2>1, <2>2, <3>1, Zenon
  <2>5. \A i : i \in of(100) <=> i = j /\ low /\ high
    BY <2>3
  <2> HIDE DEF low, high
  <2>6. (\E i \in of(100) : r >= first(i) + 2) <=> mid /\ high
    BY <2>4, <2>5
  <2> HIDE DEF mid
  <2>7. CASE mid /\ high
    <3>1. of(100) = {j}
      BY <2>4, <2>5, <2>7
    <3>2. (CHOOSE i \in of(100) : TRUE) = j
      BY <3>1
    <3>3. Meaning(t, r) = Touch(r - first(j) - 2)
      BY <1>5, <1>10, <2>6, <2>7, <3>2, Zenon
    <3>4. Dispatch(d, r) = Touch(r - start)
      BY <1>6, <1>7, <1>10, <2>4, <2>7, Zenon
    <3>5. QED
      BY <2>4, <3>3, <3>4, Zenon
  <2>8. CASE ~ (mid /\ high)
    <3>1. Meaning(t, r) = Ignored
      BY <1>5, <1>10, <2>6, <2>8, Zenon
    <3>2. Dispatch(d, r) = Ignored
      BY <1>6, <1>7, <1>10, <2>4, <2>8, Zenon
    <3>3. QED
      BY <3>1, <3>2, Zenon
  <2>9. QED
    BY <2>7, <2>8
<1>11. QED
  BY <1>8, <1>9, <1>10

\* The driver's eight-bit counting of report ids, of which it keeps the first and
\* the last, gives every id of every table that fits the meaning it has for the
\* controller.
THEOREM IdsMatch ==
  Spec => []((Noise => num_objects = Len(table)) => IdsMatchTable)
<1>1. RangeInv /\ TableInv =>
        ((Noise => num_objects = Len(table)) => IdsMatchTable)
  <2>1. SUFFICES ASSUME RangeInv, TableInv, Noise => num_objects = Len(table),
                        pc = "t7", IdsFit(table), NEW r \in 1..254
                 PROVE  Dispatch(info, r) = Meaning(table, r)
    BY DEF IdsMatchTable
  <2>2. info = Parsed(table)
    BY <2>1 DEF TableInv
  <2>3. table \in Listed
    BY <2>1, InitAssumption DEF RangeInv, GivenOK, Listed
  <2>4. QED
    BY <2>1, <2>2, <2>3, IdsAgree
<1>2. QED
  BY <1>1, RangeCorrect, TableCorrect, PTL
=============================================================================
