-------------------------- MODULE TouchPathProofs --------------------------
(***************************************************************************)
(* From the panel to the table, for every number of fingers, every bound   *)
(* and every build: the composition runs the drain of MxtDrain and the     *)
(* function of MxtTouch, so that what is proved of them holds of it, and   *)
(* implements TouchFeed.                                                   *)
(*                                                                         *)
(* Of all its steps only four kinds matter to the reports on their way: a  *)
(* report comes in (Arrives), is looked at (Learns), is dropped (Drops),   *)
(* or nothing happens to them (Stays).  PathMoves says so once; the        *)
(* invariant and the refinement follow from it.                            *)
(***************************************************************************)
EXTENDS TouchPath, MxtTouchProofs, SequenceTheorems

\* MxtDrain again, with the theorems about it.
D == INSTANCE MxtDrainProofs WITH pending <- Len(queue)

\* The thread is in mxt_process_messages while the function runs, and has not
\* been there before it is created.
ThreadInv ==
  /\ phase # "idle" => pc = "process"
  /\ pc = "unborn" => prev_touches = <<>>

\* Without power management only init discards, before the driver has learned
\* anything.
LostInv ==
  ~Drain!PmBuild =>
    \A i \in lost : SaysNothing(Waiting, i) /\ Known[i] = Up

-----------------------------------------------------------------------------

\* Both instances of MxtDrain are the same specification, so that what is proved
\* of one holds of the other.
LEMMA SameInit == Drain!Init => D!Init
  BY DEF Drain!Init, D!Init, Drain!PullUp, D!PullUp, Drain!LatchesMasked,
     D!LatchesMasked

LEMMA SameStep == [Drain!Next]_Drain!vars => [D!Next]_D!vars
<1> USE DEF Drain!chipVars, D!chipVars, Drain!irqVars, D!irqVars,
      Drain!threadVars, D!threadVars, Drain!ctlVars, D!ctlVars, Drain!vars,
      D!vars, Drain!InterruptBuild, D!InterruptBuild, Drain!PmBuild,
      D!PmBuild, Drain!HasIrqGpio, D!HasIrqGpio, Drain!PullUp, D!PullUp,
      Drain!LatchesMasked, D!LatchesMasked, Drain!ChgAsserted, D!ChgAsserted,
      Drain!Falls, D!Falls, Drain!Mask, D!Mask, Drain!Unmask, D!Unmask,
      Drain!AtMost, D!AtMost, Drain!StartWakeups, D!StartWakeups,
      Drain!AfterDrain, D!AfterDrain
<1>1. Drain!Next => D!Next
  BY DEF Drain!Next, D!Next, Drain!DrainThread, D!DrainThread, Drain!Control,
     D!Control, Drain!Arrive, D!Arrive, Drain!SpuriousEdge, D!SpuriousEdge,
     Drain!IrqHandler, D!IrqHandler, Drain!TimerHandler, D!TimerHandler,
     Drain!TakeSem, D!TakeSem, Drain!Lock, D!Lock, Drain!ReadFails,
     D!ReadFails, Drain!ReadT44, D!ReadT44, Drain!ReadT5, D!ReadT5,
     Drain!Process, D!Process, Drain!EndPassPolling, D!EndPassPolling,
     Drain!EndPass, D!EndPass, Drain!CheckChg, D!CheckChg, Drain!Arm, D!Arm,
     Drain!BootArm, D!BootArm, Drain!BootFails, D!BootFails,
     Drain!BootSpawn, D!BootSpawn, Drain!SuspendT7, D!SuspendT7,
     Drain!SuspendIrq, D!SuspendIrq, Drain!ResumeT7, D!ResumeT7,
     Drain!ResumeIrq, D!ResumeIrq, Drain!DrainRead, D!DrainRead,
     Drain!DrainEmpty, D!DrainEmpty, Drain!DrainStops, D!DrainStops
<1>2. UNCHANGED Drain!vars => UNCHANGED D!vars
  OBVIOUS
<1>3. QED
  BY <1>1, <1>2

LEMMA DrainTypes == Drain!Spec => []Drain!TypeOK
<1>1. D!Spec => []D!TypeOK
  BY D!TypeCorrect, PathAssumption DEF D!BoundsAssumption,
     D!BuildsAssumption, Drain!BoundsAssumption, Drain!BuildsAssumption,
     D!Options, Drain!Options
<1>2. D!TypeOK => Drain!TypeOK
  BY DEF D!TypeOK, Drain!TypeOK, D!FlagsOK, D!CountersOK, Drain!FlagsOK,
     Drain!CountersOK, Drain!LabelsOK, D!LabelsOK, D!Labels, Drain!Labels,
     D!CtlLabels, Drain!CtlLabels
<1>9. QED
  BY <1>1, <1>2, SameInit, SameStep, PTL DEF D!Spec, Drain!Spec

-----------------------------------------------------------------------------

\* The reports of a batch and of the FIFO behind it, seen as one sequence.
LEMMA OneSequence ==
  ASSUME NEW S, NEW a \in Seq(S), NEW q \in Seq(S)
  PROVE  /\ a \o q \in Seq(S) /\ Len(a \o q) = Len(a) + Len(q)
         /\ \A k \in 1..Len(q) : (a \o q)[Len(a) + k] = q[k]
         /\ <<>> \o q = q
         /\ \A e \in S : a \o Append(q, e) = Append(a \o q, e)
         /\ a # <<>> => /\ Tail(a) \o q = Tail(a \o q)
                        /\ Head(a \o q) = Head(a) /\ a \o q # <<>>
         /\ \A n \in 0..Len(q) :
              SubSeq(q, 1, n) \o SubSeq(q, n + 1, Len(q)) = q
<1>1. /\ a \o q \in Seq(S) /\ Len(a \o q) = Len(a) + Len(q)
      /\ \A k \in 1..Len(q) : (a \o q)[Len(a) + k] = q[k]
  OBVIOUS
<1>2. <<>> \o q = q
  OBVIOUS
<1>3. ASSUME NEW e \in S
      PROVE  a \o Append(q, e) = Append(a \o q, e)
  OBVIOUS
<1>4. ASSUME a # <<>>
      PROVE  /\ Tail(a) \o q = Tail(a \o q)
             /\ Head(a \o q) = Head(a) /\ a \o q # <<>>
  BY <1>4
<1>5. ASSUME NEW n \in 0..Len(q)
      PROVE  SubSeq(q, 1, n) \o SubSeq(q, n + 1, Len(q)) = q
  <2>1. /\ Len(q) \in Nat /\ n \in Nat
        /\ 1 \in 1..(Len(q) + 1) /\ n \in 1 - 1..Len(q) /\ Len(q) \in n..Len(q)
    OBVIOUS
  <2>2. SubSeq(q, 1, n) \o SubSeq(q, n + 1, Len(q)) = SubSeq(q, 1, Len(q))
    BY <2>1, ConcatAdjacentSubSeq
  <2>3. QED
    BY <2>2, SubSeqFull
<1>6. QED
  BY <1>1, <1>2, <1>3, <1>4, <1>5

\* Taking one element out moves those behind it by one.
LEMMA Removal ==
  ASSUME NEW S, NEW w \in Seq(S), NEW k \in 1..Len(w)
  PROVE  /\ RemoveAt(w, k) \in Seq(S) /\ Len(RemoveAt(w, k)) = Len(w) - 1
         /\ \A i \in 1..(Len(w) - 1) :
              RemoveAt(w, k)[i] = IF i < k THEN w[i] ELSE w[i + 1]
<1> DEFINE u == SubSeq(w, 1, k - 1)
           v == SubSeq(w, k + 1, Len(w))
<1>1. RemoveAt(w, k) = u \o v
  BY DEF RemoveAt
<1>2. u \in Seq(S) /\ Len(u) = k - 1 /\ \A i \in 1..(k - 1) : u[i] = w[i]
  OBVIOUS
<1>3. /\ v \in Seq(S) /\ Len(v) = Len(w) - k
      /\ \A i \in 1..(Len(w) - k) : v[i] = w[k + i]
  OBVIOUS
<1> HIDE DEF u, v
<1>4. /\ u \o v \in Seq(S) /\ Len(u \o v) = Len(w) - 1
      /\ \A i \in 1..(Len(w) - 1) :
           (u \o v)[i] = IF i < k THEN u[i] ELSE v[i - (k - 1)]
  <2>1. /\ u \o v \in Seq(S) /\ Len(u \o v) = Len(u) + Len(v)
        /\ \A i \in 1..Len(u) + Len(v) :
             (u \o v)[i] = IF i <= Len(u) THEN u[i] ELSE v[i - Len(u)]
    BY <1>2, <1>3, ConcatProperties
  <2>2. Len(w) \in Nat /\ k \in Nat /\ Len(u) + Len(v) = Len(w) - 1
    BY <1>2, <1>3
  <2>3. QED
    BY <1>2, <2>1, <2>2
<1>5. \A i \in 1..(Len(w) - 1) :
        IF i < k THEN u[i] = w[i] ELSE v[i - (k - 1)] = w[i + 1]
  BY <1>2, <1>3
<1>6. QED
  BY <1>1, <1>4, <1>5

\* The first element of the FIFO comes behind those of the batch.
LEMMA Dropping ==
  ASSUME NEW S, NEW a \in Seq(S), NEW q \in Seq(S), q # <<>>
  PROVE  a \o Tail(q) = RemoveAt(a \o q, Len(a) + 1)
<1> DEFINE w == a \o q
           k == Len(a) + 1
<1>1. w \in Seq(S) /\ k \in 1..Len(w) /\ Len(w) = Len(a) + Len(q)
  OBVIOUS
<1>2. /\ \A i \in 1..Len(a) : w[i] = a[i]
      /\ \A i \in 1..Len(q) : w[Len(a) + i] = q[i]
  OBVIOUS
<1>3. /\ a \o Tail(q) \in Seq(S) /\ Len(a \o Tail(q)) = Len(w) - 1
      /\ \A i \in 1..(Len(w) - 1) :
           (a \o Tail(q))[i] = IF i < k THEN a[i] ELSE q[i + 1 - Len(a)]
  OBVIOUS
<1> HIDE DEF w
<1>4. /\ RemoveAt(w, k) \in Seq(S) /\ Len(RemoveAt(w, k)) = Len(w) - 1
      /\ \A i \in 1..(Len(w) - 1) :
           RemoveAt(w, k)[i] = IF i < k THEN w[i] ELSE w[i + 1]
  BY <1>1, Removal
<1>5. \A i \in 1..(Len(w) - 1) : (a \o Tail(q))[i] = RemoveAt(w, k)[i]
  <2>1. SUFFICES ASSUME NEW i \in 1..(Len(w) - 1)
                 PROVE  (a \o Tail(q))[i] = RemoveAt(w, k)[i]
    OBVIOUS
  <2>2. /\ (a \o Tail(q))[i] = IF i < k THEN a[i] ELSE q[i + 1 - Len(a)]
        /\ RemoveAt(w, k)[i] = IF i < k THEN w[i] ELSE w[i + 1]
    BY <1>3, <1>4
  <2>3. Len(a) \in Nat /\ Len(q) \in Nat /\ i \in Nat
    OBVIOUS
  <2>4. CASE i < k
    <3>1. w[i] = a[i]
      BY <1>2, <2>3, <2>4
    <3>2. QED
      BY <2>2, <2>4, <3>1
  <2>5. CASE ~(i < k)
    <3>1. /\ i + 1 - Len(a) \in 1..Len(q)
          /\ Len(a) + (i + 1 - Len(a)) = i + 1
      BY <1>1, <2>3, <2>5
    <3>2. w[i + 1] = q[i + 1 - Len(a)]
      BY <1>2, <3>1
    <3>3. QED
      BY <2>2, <2>5, <3>2
  <2>6. QED
    BY <2>4, <2>5
<1>6. a \o Tail(q) = RemoveAt(w, k)
  BY <1>1, <1>3, <1>4, <1>5, SeqEqual
<1>7. QED
  BY <1>6 DEF w

-----------------------------------------------------------------------------

\* What a table without doubles says of a finger.
LEMMA PlaceFacts ==
  ASSUME NEW table \in Seq(Touch), UniqueIds(table), NEW i
  PROVE  /\ \A s \in DOMAIN table :
              table[s].id = i /\ table[s].active
                => PlaceIn(table, i) = table[s].pos
         /\ (\A s \in DOMAIN table : ~(table[s].id = i /\ table[s].active))
              => PlaceIn(table, i) = Up
         /\ PlaceIn(table, i) \in Positions \cup {Up}
         /\ PlaceIn(table, i) # Up
              => \E s \in DOMAIN table : table[s].id = i /\ table[s].active
<1> DEFINE entries == {s \in DOMAIN table : table[s].id = i /\ table[s].active}
           place == table[CHOOSE s \in entries : TRUE].pos
<1>1. PlaceIn(table, i) = IF entries = {} THEN Up ELSE place
  BY DEF PlaceIn
<1>2. \A r, s \in entries : r = s
  BY DEF UniqueIds
<1>3. \A s \in DOMAIN table : table[s].pos \in Positions
  <2>1. \A s \in DOMAIN table : table[s] \in Touch
    OBVIOUS
  <2>2. QED
    BY <2>1 DEF Touch
<1>4. \A s \in entries : place = table[s].pos /\ place \in Positions
  BY <1>2, <1>3
<1>5. QED
  BY <1>1, <1>4

\* Two tables with the same pressed touches say the same.
LEMMA SamePlace ==
  ASSUME NEW t \in Seq(Touch), UniqueIds(t), NEW u \in Seq(Touch), UniqueIds(u),
         NEW i,
         \A s \in DOMAIN t : t[s].id = i /\ t[s].active =>
           \E r \in DOMAIN u :
             u[r].id = i /\ u[r].active /\ u[r].pos = t[s].pos,
         \A r \in DOMAIN u : u[r].id = i /\ u[r].active =>
           \E s \in DOMAIN t : t[s].id = i /\ t[s].active
  PROVE  PlaceIn(t, i) = PlaceIn(u, i)
<1>1. CASE \E s \in DOMAIN t : t[s].id = i /\ t[s].active
  <2>1. PICK s \in DOMAIN t : t[s].id = i /\ t[s].active
    BY <1>1
  <2>2. PICK r \in DOMAIN u :
          u[r].id = i /\ u[r].active /\ u[r].pos = t[s].pos
    BY <2>1
  <2>3. PlaceIn(t, i) = t[s].pos
    BY <2>1, PlaceFacts
  <2>4. PlaceIn(u, i) = u[r].pos
    BY <2>2, PlaceFacts
  <2>5. QED
    BY <2>2, <2>3, <2>4
<1>2. CASE ~ \E s \in DOMAIN t : t[s].id = i /\ t[s].active
  <2>1. PlaceIn(t, i) = Up
    BY <1>2, PlaceFacts
  <2>2. PlaceIn(u, i) = Up
    BY <1>2, PlaceFacts
  <2>3. QED
    BY <2>1, <2>2
<1>3. QED
  BY <1>1, <1>2

\* A table of different ids below MaxTouches has room for one it has not.
LEMMA RoomInTable ==
  ASSUME TouchInv, NEW id \in TouchIds, id < MaxTouches,
         \A s \in DOMAIN touches : touches[s].id # id
  PROVE  Len(touches) < MaxTouches
<1> DEFINE n == Len(touches)
           T == (0..(MaxTouches - 1)) \ {id}
<1>1. /\ n \in Nat /\ DOMAIN touches = 1..n /\ n <= MaxTouches
      /\ \A s \in 1..n : touches[s].id \in Nat /\ touches[s].id < MaxTouches
      /\ MaxTouches \in Nat \ {0} /\ id \in Nat /\ UniqueIds(touches)
  BY TableFacts, TouchAssumption DEF TouchInv, TablesAreSound, LoopInv
<1>2. SUFFICES ASSUME n = MaxTouches PROVE FALSE
  BY <1>1
<1>3. IsFiniteSet(1..n) /\ Cardinality(1..n) = MaxTouches
  <2>1. 1 \in Int /\ n \in Int
    BY <1>1
  <2>2. /\ IsFiniteSet(1..n)
        /\ Cardinality(1..n) = IF 1 > n THEN 0 ELSE n - 1 + 1
    BY <2>1, FS_Interval
  <2>3. QED
    BY <1>1, <1>2, <2>2
<1>4. /\ IsFiniteSet(0..(MaxTouches - 1))
      /\ Cardinality(0..(MaxTouches - 1)) = MaxTouches
  <2>1. 0 \in Int /\ MaxTouches - 1 \in Int
    BY <1>1
  <2>2. /\ IsFiniteSet(0..(MaxTouches - 1))
        /\ Cardinality(0..(MaxTouches - 1))
             = IF 0 > MaxTouches - 1 THEN 0 ELSE MaxTouches - 1 - 0 + 1
    BY <2>1, FS_Interval
  <2>3. QED
    BY <1>1, <2>2
<1>5. IsFiniteSet(T) /\ Cardinality(T) = MaxTouches - 1
  <2>1. id \in 0..(MaxTouches - 1)
    BY <1>1
  <2>2. QED
    BY <1>4, <2>1, FS_RemoveElement
<1> DEFINE f == [s \in 1..n |-> touches[s].id]
<1>6. f \in [1..n -> T]
  BY <1>1
<1>7. Cardinality(T) < Cardinality(1..n)
  BY <1>1, <1>3, <1>5
<1> HIDE DEF T, f
<1>8. \E r, s \in 1..n : r # s /\ f[r] = f[s]
  BY <1>3, <1>5, <1>6, <1>7, FS_PigeonHole
<1>9. QED
  BY <1>1, <1>8 DEF f, UniqueIds

\* The slot of an id is the entry that has it.
LEMMA SlotIsEntry ==
  ASSUME NEW table \in Seq(Touch), UniqueIds(table),
         NEW s \in DOMAIN table, NEW id, table[s].id = id
  PROVE  SlotsOf(table, id) # {} /\ SlotOf(table, id) = s
<1>1. s \in SlotsOf(table, id) /\ \A r \in SlotsOf(table, id) : r = s
  BY DEF SlotsOf, UniqueIds
<1>2. s <= s
  OBVIOUS
<1>3. QED
  BY <1>1, <1>2 DEF SlotOf

\* A report is a message, and of a finger.
LEMMA ReportFacts ==
  /\ Reports = [id : TouchIds, pos : Positions \cup {Up}]
  /\ Reports \subseteq Messages
  /\ \A m \in Reports : /\ m # Other /\ m.id \in TouchIds /\ m.id \in Nat
                        /\ m.pos \in Positions \cup {Up}
  BY PathAssumption, TouchAssumption DEF Reports, Messages

\* Looking at a report of a tracked finger makes the table say what it says.
LEMMA ScanLearns ==
  ASSUME TouchInv, Scan, Head(msg_buf) \in Reports, NEW i \in TouchIds
  PROVE  PlaceIn(touches', i) = IF i = Head(msg_buf).id /\ i < MaxTouches
                                  THEN Head(msg_buf).pos
                                  ELSE PlaceIn(touches, i)
<1> DEFINE id == Head(msg_buf).id
           pos == Head(msg_buf).pos
<1>1. /\ touches \in Seq(Touch) /\ UniqueIds(touches)
      /\ touches' \in Seq(Touch) /\ UniqueIds(touches')
      /\ Len(touches) \in Nat /\ DOMAIN touches = 1..Len(touches)
      /\ \A s \in DOMAIN touches : touches[s].id \in Nat
  BY ScanTable, TableFacts DEF TouchInv, TouchTypeOK, TablesAreSound
<1>2. id \in TouchIds /\ id \in Nat /\ pos \in Positions \cup {Up}
      /\ Head(msg_buf) # Other
  BY ReportFacts
<1>3. IF id >= MaxTouches
        THEN UNCHANGED touches
        ELSE IF pos = Up THEN Release(id) ELSE Detect(id, pos)
  BY <1>2 DEF Scan
<1> HIDE DEF id, pos
<1>4. CASE id >= MaxTouches
  <2>1. ~(i = id /\ i < MaxTouches)
    BY <1>2, <1>4, TouchAssumption
  <2>2. QED
    BY <1>3, <1>4, <2>1 DEF id
<1>5. ASSUME i # id,
             \A s \in DOMAIN touches :
               s \in DOMAIN touches' /\ (touches[s].id # id =>
                                           touches'[s] = touches[s]),
             \A s \in DOMAIN touches' :
               touches'[s].id # id =>
                 s \in DOMAIN touches /\ touches'[s] = touches[s]
      PROVE  PlaceIn(touches', i) = PlaceIn(touches, i)
  <2>1. \A s \in DOMAIN touches : touches[s].id = i /\ touches[s].active =>
          \E r \in DOMAIN touches' : /\ touches'[r].id = i /\ touches'[r].active
                                     /\ touches'[r].pos = touches[s].pos
    BY <1>5
  <2>2. \A r \in DOMAIN touches' : touches'[r].id = i /\ touches'[r].active =>
          \E s \in DOMAIN touches : touches[s].id = i /\ touches[s].active
    BY <1>5
  <2>3. PlaceIn(touches, i) = PlaceIn(touches', i)
    BY <1>1, <2>1, <2>2, SamePlace
  <2>4. QED
    BY <2>3
<1>6. CASE id < MaxTouches /\ \A s \in DOMAIN touches : touches[s].id # id
  <2>1. SlotsOf(touches, id) = {}
    BY <1>6 DEF SlotsOf
  <2>2. CASE pos = Up
    <3>1. touches' = touches
      BY <1>2, <1>3, <1>6, <2>1, <2>2, TouchAssumption DEF Release
    <3>2. PlaceIn(touches, id) = Up
      BY <1>1, <1>6, PlaceFacts
    <3>3. QED
      BY <2>2, <3>1, <3>2 DEF id, pos
  <2>3. CASE pos # Up
    <3> DEFINE new == [id |-> id, pos |-> pos, active |-> TRUE]
               n == Len(touches) + 1
    <3>1. Len(touches) < MaxTouches
      BY <1>2, <1>6, RoomInTable
    <3>2. touches' = Append(touches, new)
      BY <1>2, <1>3, <1>6, <2>1, <2>3, <3>1, TouchAssumption DEF Detect
    <3>3. new.id = id /\ new.pos = pos /\ new.active
      OBVIOUS
    <3> HIDE DEF new
    <3>4. /\ n \in DOMAIN touches' /\ touches'[n] = new
          /\ \A s \in DOMAIN touches :
               s \in DOMAIN touches' /\ touches'[s] = touches[s]
          /\ \A s \in DOMAIN touches' : s = n \/ s \in DOMAIN touches
      BY <1>1, <3>2
    <3>5. CASE i = id
      <4>1. PlaceIn(touches', i) = pos
        BY <1>1, <3>3, <3>4, <3>5, PlaceFacts
      <4>2. QED
        BY <1>6, <3>5, <4>1 DEF id, pos
    <3>6. CASE i # id
      <4>1. PlaceIn(touches', i) = PlaceIn(touches, i)
        BY <1>5, <3>3, <3>4, <3>6
      <4>2. QED
        BY <3>6, <4>1 DEF id
    <3>7. QED
      BY <3>5, <3>6
  <2>4. QED
    BY <2>2, <2>3
<1>7. CASE id < MaxTouches /\ \E s \in DOMAIN touches : touches[s].id = id
  <2>1. PICK s \in DOMAIN touches : touches[s].id = id
    BY <1>7
  <2>2. SlotsOf(touches, id) # {} /\ SlotOf(touches, id) = s
    BY <1>1, <2>1, SlotIsEntry
  <2> DEFINE new == [id |-> id,
                     pos |-> IF pos = Up THEN touches[s].pos ELSE pos,
                     active |-> (pos # Up)]
  <2>3. touches' = [touches EXCEPT ![s] = new]
    <3>1. CASE pos = Up
      <4>1. new = [id |-> touches[s].id, pos |-> touches[s].pos,
                   active |-> FALSE]
        BY <2>1, <3>1
      <4>2. Release(id)
        BY <1>2, <1>3, <1>7, <3>1, TouchAssumption
      <4>3. touches' = [touches EXCEPT ![s] =
                         [id |-> touches[s].id, pos |-> touches[s].pos,
                          active |-> FALSE]]
        BY <2>2, <4>2 DEF Release
      <4>4. QED
        BY <4>1, <4>3
    <3>2. CASE pos # Up
      <4>1. new = [id |-> id, pos |-> pos, active |-> TRUE]
        BY <3>2
      <4>2. Detect(id, pos)
        BY <1>2, <1>3, <1>7, <3>2, TouchAssumption
      <4>3. touches' = [touches EXCEPT ![s] =
                         [id |-> id, pos |-> pos, active |-> TRUE]]
        BY <2>2, <4>2 DEF Detect
      <4>4. QED
        BY <4>1, <4>3
    <3>3. QED
      BY <3>1, <3>2
  <2>4. /\ new.id = id /\ (new.active <=> pos # Up)
        /\ pos # Up => new.pos = pos
    OBVIOUS
  <2> HIDE DEF new
  <2>5. /\ DOMAIN touches' = DOMAIN touches /\ touches'[s] = new
        /\ \A r \in DOMAIN touches : r # s => touches'[r] = touches[r]
        /\ \A r \in DOMAIN touches : touches[r].id = id => r = s
    BY <1>1, <2>1, <2>3 DEF UniqueIds
  <2>6. CASE i = id
    <3>1. CASE pos = Up
      <4>1. \A r \in DOMAIN touches' :
              ~(touches'[r].id = id /\ touches'[r].active)
        BY <2>4, <2>5, <3>1
      <4>2. PlaceIn(touches', id) = Up
        BY <1>1, <4>1, PlaceFacts
      <4>3. QED
        BY <1>7, <2>6, <3>1, <4>2 DEF id, pos
    <3>2. CASE pos # Up
      <4>1. touches'[s].id = id /\ touches'[s].active /\ touches'[s].pos = pos
            /\ s \in DOMAIN touches'
        BY <2>1, <2>4, <2>5, <3>2
      <4>2. PlaceIn(touches', id) = pos
        BY <1>1, <4>1, PlaceFacts
      <4>3. QED
        BY <1>7, <2>6, <4>2 DEF id, pos
    <3>3. QED
      BY <3>1, <3>2
  <2>7. CASE i # id
    <3>1. PlaceIn(touches', i) = PlaceIn(touches, i)
      BY <1>5, <2>1, <2>4, <2>5, <2>7
    <3>2. QED
      BY <2>7, <3>1 DEF id
  <2>8. QED
    BY <2>6, <2>7
<1>8. QED
  BY <1>2, <1>4, <1>6, <1>7, TouchAssumption

-----------------------------------------------------------------------------

\* Of the function's steps only a report looked at changes what the driver has
\* of a finger; saving the pressed touches keeps every place.
LEMMA BeginKnown ==
  ASSUME NEW batch, Begin(batch)
  PROVE  Known' = Known /\ phase = "idle" /\ msg_buf' = batch
<1>1. Table' = Table
  BY DEF Begin, Table
<1>2. QED
  BY <1>1 DEF Known, Begin

LEMMA QuietKnown ==
  ASSUME TouchInv, EndScan \/ Report \/ EndLoop \/ CopyTouch \/ Save
  PROVE  Known' = Known /\ msg_buf' = msg_buf /\ phase # "idle"
<1>1. msg_buf' = msg_buf /\ phase # "idle"
  BY DEF EndScan, Report, EndLoop, CopyTouch, Save
<1>2. CASE EndScan \/ Report \/ EndLoop \/ CopyTouch
  <2>1. Table' = Table
    BY <1>2 DEF EndScan, Report, EndLoop, CopyTouch, Table
  <2>2. QED
    BY <1>1, <2>1 DEF Known
<1>3. CASE Save
  <2>1. Table = touches /\ Table' = prev_touches
    BY <1>3 DEF Save, Table
  <2>2. /\ touches \in Seq(Touch) /\ UniqueIds(touches)
        /\ prev_touches \in Seq(Touch) /\ UniqueIds(prev_touches)
    BY DEF TouchInv, TouchTypeOK, TablesAreSound
  <2>3. \A s \in Active : \E k \in DOMAIN prev_touches :
          prev_touches[k] = touches[s]
    <3>1. \A s \in Active : s <= at
      BY <1>3, TableFacts DEF TouchInv, Save, Ahead, Active
    <3>2. QED
      BY <1>3, <3>1 DEF TouchInv, CopyInv, Save
  <2>4. \A k \in DOMAIN prev_touches : \E s \in Active :
          touches[s] = prev_touches[k]
    BY <1>3 DEF TouchInv, CopyInv, Save
  <2>5. \A i \in TouchIds : PlaceIn(touches, i) = PlaceIn(prev_touches, i)
    <3>1. SUFFICES ASSUME NEW i \in TouchIds
                   PROVE  PlaceIn(touches, i) = PlaceIn(prev_touches, i)
      OBVIOUS
    <3>2. \A s \in DOMAIN touches : touches[s].id = i /\ touches[s].active =>
            \E k \in DOMAIN prev_touches :
              /\ prev_touches[k].id = i /\ prev_touches[k].active
              /\ prev_touches[k].pos = touches[s].pos
      BY <2>3 DEF Active
    <3>3. \A k \in DOMAIN prev_touches :
            prev_touches[k].id = i /\ prev_touches[k].active =>
              \E s \in DOMAIN touches : touches[s].id = i /\ touches[s].active
      BY <2>4 DEF Active
    <3>4. QED
      BY <2>2, <3>2, <3>3, SamePlace
  <2>6. QED
    BY <1>1, <2>1, <2>5 DEF Known
<1>4. QED
  BY <1>2, <1>3

LEMMA ScanKnown ==
  ASSUME TouchInv, Scan, Head(msg_buf) \in Reports
  PROVE  /\ phase # "idle" /\ msg_buf # <<>> /\ msg_buf' = Tail(msg_buf)
         /\ Known' = IF Head(msg_buf).id \in TrackedIds
                       THEN [Known EXCEPT ![Head(msg_buf).id]
                                            = Head(msg_buf).pos]
                       ELSE Known
<1>1. /\ phase = "scan" /\ phase' = "scan" /\ msg_buf # <<>>
      /\ msg_buf' = Tail(msg_buf)
  BY DEF Scan
<1>2. Table = touches /\ Table' = touches'
  BY <1>1 DEF Table
<1>3. Head(msg_buf).id \in TouchIds
  BY ReportFacts
<1>4. \A i \in TouchIds :
        PlaceIn(touches', i) = IF i = Head(msg_buf).id /\ i < MaxTouches
                                 THEN Head(msg_buf).pos
                                 ELSE PlaceIn(touches, i)
  BY ScanLearns
<1>5. QED
  BY <1>1, <1>2, <1>3, <1>4 DEF Known, TrackedIds

-----------------------------------------------------------------------------

LEMMA PathStepDrains == [PathNext]_pathVars => [Drain!Next]_(Drain!vars)
<1>1. SUFFICES ASSUME [PathNext]_pathVars PROVE [Drain!Next]_(Drain!vars)
  OBVIOUS
<1>2. ASSUME UNCHANGED <<panelVars, drainVars>> PROVE UNCHANGED Drain!vars
  BY <1>2 DEF panelVars, drainVars, Drain!vars, Drain!chipVars,
              Drain!irqVars, Drain!threadVars, Drain!ctlVars
<1>3. CASE UNCHANGED pathVars
  BY <1>2, <1>3 DEF pathVars
<1>4. CASE PathNext
  <2>1. ASSUME NEW id \in TouchIds, NEW pos \in Positions \cup {Up},
               ReportFinger(id, pos)
        PROVE  Drain!Next
    BY <2>1 DEF ReportFinger, Drain!Next
  <2>2. CASE FetchBatch
    BY <2>2 DEF FetchBatch, Drain!Next, Drain!DrainThread
  <2>3. CASE ProcessStep
    BY <1>2, <2>3 DEF ProcessStep
  <2>4. CASE Processed
    BY <2>4 DEF Processed, Drain!Next, Drain!DrainThread
  <2>5. CASE DiscardMessage
    BY <2>5 DEF DiscardMessage, Drain!Next, Drain!Control
  <2>6. CASE Schedule
    BY <2>6 DEF Schedule, Drain!Next, Drain!DrainThread, Drain!Control
  <2>7. QED
    BY <1>4, <2>1, <2>2, <2>3, <2>4, <2>5, <2>6 DEF PathNext
<1>5. QED
  BY <1>1, <1>3, <1>4

\* The threads, interrupt and power management of the composition are those of
\* MxtDrain.
THEOREM PathRunsDrain == PathSpec => Drain!Spec
<1>1. PathInit => Drain!Init
  BY DEF PathInit
<1>2. QED
  BY <1>1, PathStepDrains, PTL DEF PathSpec, Drain!Spec

\* The FIFO and the batch hold reports.
FifoOK ==
  /\ fingers \in [TouchIds -> Positions \cup {Up}]
  /\ queue \in Seq(Reports) /\ msg_buf \in Seq(Reports)
  /\ lost \subseteq TouchIds

\* Before init the FIFO holds one report of every finger that is down.
LEMMA RestingQueue ==
  ASSUME PathInit
  PROVE  /\ FifoOK
         /\ \A k \in DOMAIN queue : queue[k] \in RestingReports
         /\ \A m \in RestingReports : \E k \in DOMAIN queue : queue[k] = m
         /\ \A k, l \in DOMAIN queue : k # l => queue[k] # queue[l]
<1> DEFINE R == RestingReports
           n == Cardinality(R)
           downs == {j \in TouchIds : fingers[j] # Up}
           F == [i \in downs |-> [id |-> i, pos |-> fingers[i]]]
<1>1. fingers \in [TouchIds -> Positions \cup {Up}] /\ queue \in SetToSeqs(R)
      /\ lost = {} /\ msg_buf = <<>>
  BY DEF PathInit, TouchInit
<1>2. R \subseteq Reports
  BY <1>1, ReportFacts DEF RestingReports
<1>3. IsFiniteSet(R)
  <2>1. IsFiniteSet(downs)
    BY PathAssumption, FS_Subset
  <2>2. F \in Surjection(downs, R)
    BY DEF Surjection, RestingReports
  <2>3. QED
    BY <2>1, <2>2, FS_Surjection
<1>4. n \in Nat
  BY <1>3, FS_CardinalityType
<1>5. /\ queue \in [1..n -> R]
      /\ \A k, l \in 1..n : k # l => queue[k] # queue[l]
  BY <1>1 DEF SetToSeqs
<1> HIDE DEF R, n
<1>6. queue \in Seq(R) /\ DOMAIN queue = 1..n
  BY <1>4, <1>5
<1>7. queue \in Seq(Reports) /\ <<>> \in Seq(Reports)
  BY <1>2, <1>6
<1>8. \A m \in R : \E k \in 1..n : queue[k] = m
  <2>1. queue \in Injection(1..n, R)
    BY <1>5 DEF Injection, IsInjective
  <2>2. IsFiniteSet(1..n) /\ Cardinality(1..n) = n
    <3>1. 1 \in Int /\ n \in Int
      BY <1>4
    <3>2. /\ IsFiniteSet(1..n)
          /\ Cardinality(1..n) = IF 1 > n THEN 0 ELSE n - 1 + 1
      BY <3>1, FS_Interval
    <3>3. QED
      BY <1>4, <3>2
  <2>3. Cardinality(1..n) = Cardinality(R)
    BY <2>2 DEF n
  <2>4. queue \in Surjection(1..n, R)
    BY <1>3, <2>1, <2>3, FS_Injection
  <2>5. QED
    BY <2>4 DEF Surjection
<1>9. QED
  BY <1>1, <1>5, <1>6, <1>7, <1>8 DEF FifoOK, R

\* A T5 read takes the oldest messages, at most a batch of them.
LEMMA FetchFacts ==
  ASSUME FifoOK, Drain!TypeOK, FetchBatch
  PROVE  /\ Fetched \in 0..Len(queue) /\ Len(queue) \in Nat
         /\ SubSeq(queue, 1, Fetched) \in Seq(Reports)
         /\ queue' = SubSeq(queue, Fetched + 1, Len(queue))
         /\ queue' \in Seq(Reports)
         /\ IF Fetched > 0
              THEN /\ SubSeq(queue, 1, Fetched) \in Batches
                   /\ Begin(SubSeq(queue, 1, Fetched))
              ELSE Fetched = 0 /\ UNCHANGED touchVars
         /\ UNCHANGED <<fingers, lost>>
<1>1. queue \in Seq(Reports) /\ Len(queue) \in Nat
  BY DEF FifoOK
<1>2. /\ Fetched \in 0..Len(queue) /\ Fetched <= MaxBatch
      /\ MaxBatch \in Nat \ {0}
  BY <1>1, PathAssumption DEF Fetched, Drain!AtMost, Drain!TypeOK,
     Drain!CountersOK, Drain!BoundsAssumption
<1>3. /\ queue' = SubSeq(queue, Fetched + 1, Len(queue))
      /\ IF Fetched > 0 THEN Begin(SubSeq(queue, 1, Fetched))
                        ELSE UNCHANGED touchVars
      /\ UNCHANGED <<fingers, lost>>
  BY DEF FetchBatch
<1> DEFINE n == Fetched
<1> HIDE DEF n
<1>4. n \in 0..Len(queue) /\ n <= MaxBatch
  BY <1>2 DEF n
<1>5. /\ SubSeq(queue, 1, n) \in Seq(Reports)
      /\ Len(SubSeq(queue, 1, n)) = n
      /\ SubSeq(queue, n + 1, Len(queue)) \in Seq(Reports)
  BY <1>1, <1>4
<1>6. n > 0 => SubSeq(queue, 1, n) \in Batches
  <2>1. SUFFICES ASSUME n > 0 PROVE SubSeq(queue, 1, n) \in Batches
    OBVIOUS
  <2>2. SubSeq(queue, 1, n) \in [1..n -> Messages]
    <3>1. \A b \in Seq(Reports) : b \in [1..Len(b) -> Reports]
      OBVIOUS
    <3>2. SubSeq(queue, 1, n) \in [1..n -> Reports]
      BY <1>5, <3>1
    <3>3. QED
      BY <3>2, ReportFacts
  <2>3. n \in 1..MaxBatch
    BY <1>2, <1>4, <2>1
  <2>4. QED
    BY <2>2, <2>3 DEF Batches
<1>7. QED
  BY <1>1, <1>2, <1>3, <1>4, <1>5, <1>6 DEF n

\* A step of the composition is one of the function's, or leaves it alone, and
\* moves reports only.
LEMMA FifoKept ==
  ASSUME FifoOK, Drain!TypeOK, [PathNext]_pathVars
  PROVE  FifoOK' /\ [TouchNext]_touchVars
<1>1. CASE UNCHANGED pathVars
  BY <1>1 DEF pathVars, panelVars, touchVars, FifoOK
<1>2. ASSUME NEW id \in TouchIds, NEW pos \in Positions \cup {Up},
             ReportFinger(id, pos)
      PROVE  FifoOK' /\ [TouchNext]_touchVars
  <2>1. [id |-> id, pos |-> pos] \in Reports
    BY ReportFacts
  <2>2. /\ fingers' = [fingers EXCEPT ![id] = pos]
        /\ queue' = Append(queue, [id |-> id, pos |-> pos])
        /\ lost' = lost \ {id} /\ UNCHANGED touchVars
    BY <1>2 DEF ReportFinger
  <2>3. msg_buf' = msg_buf /\ lost' \subseteq TouchIds
    BY <2>2 DEF touchVars, FifoOK
  <2>4. queue' \in Seq(Reports)
    BY <2>1, <2>2 DEF FifoOK
  <2>5. fingers' \in [TouchIds -> Positions \cup {Up}]
    BY <2>2 DEF FifoOK
  <2>6. QED
    BY <2>2, <2>3, <2>4, <2>5 DEF FifoOK
<1>3. CASE FetchBatch
  <2>1. /\ SubSeq(queue, 1, Fetched) \in Seq(Reports)
        /\ queue' \in Seq(Reports) /\ UNCHANGED <<fingers, lost>>
        /\ IF Fetched > 0
             THEN /\ SubSeq(queue, 1, Fetched) \in Batches
                  /\ Begin(SubSeq(queue, 1, Fetched))
             ELSE UNCHANGED touchVars
    BY <1>3, FetchFacts
  <2>2. msg_buf' \in Seq(Reports)
    BY <2>1 DEF Begin, touchVars, FifoOK
  <2>3. [TouchNext]_touchVars
    BY <2>1 DEF TouchNext
  <2>4. QED
    BY <2>1, <2>2, <2>3 DEF FifoOK
<1>4. CASE ProcessStep
  <2>1. TouchStep /\ UNCHANGED panelVars
    BY <1>4 DEF ProcessStep
  <2>2. msg_buf' = msg_buf \/ (msg_buf # <<>> /\ msg_buf' = Tail(msg_buf))
    BY <2>1 DEF TouchStep, Scan, EndScan, Report, EndLoop, CopyTouch, Save
  <2>3. msg_buf' \in Seq(Reports)
    BY <2>2 DEF FifoOK
  <2>4. QED
    BY <2>1, <2>3 DEF FifoOK, panelVars, TouchNext
<1>5. CASE DiscardMessage
  <2>1. /\ queue # <<>> /\ queue' = Tail(queue)
        /\ UNCHANGED <<fingers, touchVars>>
        /\ lost' = lost \/ lost' = lost \cup {Head(queue).id}
    BY <1>5 DEF DiscardMessage
  <2>2. Head(queue) \in Reports /\ Tail(queue) \in Seq(Reports)
    BY <2>1 DEF FifoOK
  <2>3. Head(queue).id \in TouchIds
    BY <2>2, ReportFacts
  <2>4. QED
    BY <2>1, <2>2, <2>3 DEF FifoOK, touchVars
<1>6. CASE Processed \/ Schedule
  BY <1>6 DEF Processed, Schedule, FifoOK, panelVars, touchVars
<1>7. QED
  BY <1>1, <1>2, <1>3, <1>4, <1>5, <1>6 DEF PathNext

LEMMA FifoCorrect == PathSpec => [](FifoOK /\ Drain!TypeOK)
<1>1. PathSpec => []Drain!TypeOK
  BY PathRunsDrain, DrainTypes, PTL
<1>2. PathInit => FifoOK
  BY RestingQueue
<1>3. FifoOK /\ Drain!TypeOK /\ [PathNext]_pathVars => FifoOK'
  BY FifoKept
<1>4. QED
  BY <1>1, <1>2, <1>3, PTL DEF PathSpec

\* What the drain thread does to mxt_process_messages is to call it with one
\* batch after the other (:671, :691): what is proved of the function holds
\* here.
THEOREM PathRunsDriver == PathSpec => TouchSpec
<1>1. PathInit => TouchInit
  BY DEF PathInit
<1>2. FifoOK /\ Drain!TypeOK /\ [PathNext]_pathVars => [TouchNext]_touchVars
  BY FifoKept
<1>3. QED
  BY <1>1, <1>2, FifoCorrect, PTL DEF PathSpec, TouchSpec

-----------------------------------------------------------------------------

\* What the parts bring along.
PartsInv ==
  FifoOK /\ Drain!TypeOK /\ TouchInv /\ D!SpawnInv /\ D!OneShotInv

LEMMA PartsCorrect == PathSpec => []PartsInv
<1>1. D!Spec => []D!ReadInv
  BY D!ReadsCorrect, PathAssumption DEF D!BoundsAssumption,
     D!BuildsAssumption, Drain!BoundsAssumption, Drain!BuildsAssumption,
     D!Options, Drain!Options
<1>2. D!Spec => []D!OneShotInv
  BY D!OneShotCorrect, PathAssumption DEF D!BoundsAssumption,
     D!BuildsAssumption, Drain!BoundsAssumption, Drain!BuildsAssumption,
     D!Options, Drain!Options
<1>3. Drain!Spec => D!Spec
  BY SameInit, SameStep, PTL DEF D!Spec, Drain!Spec
<1>4. D!ReadInv => D!SpawnInv
  BY DEF D!ReadInv
<1>5. QED
  BY <1>1, <1>2, <1>3, <1>4, PathRunsDriver, PathRunsDrain, FifoCorrect,
     TouchInvariance, PTL DEF PartsInv

\* While the function runs the drain thread is in it.
LEMMA ThreadKept ==
  ASSUME PartsInv, ThreadInv, [PathNext]_pathVars
  PROVE  ThreadInv'
<1>1. CASE UNCHANGED pathVars
  BY <1>1 DEF pathVars, drainVars, touchVars, ThreadInv
<1>2. ASSUME NEW id \in TouchIds, NEW pos \in Positions \cup {Up},
             ReportFinger(id, pos)
      PROVE  ThreadInv'
  BY <1>2 DEF ReportFinger, Drain!Arrive, Drain!threadVars, touchVars,
              ThreadInv
<1>3. CASE FetchBatch
  <2>1. /\ pc = "t5" /\ phase = "idle" /\ Len(queue) \in Nat
        /\ pc' = IF Fetched = 0 THEN "pass" ELSE "process"
    BY <1>3 DEF FetchBatch, ThreadInv, Drain!ReadT5, Fetched, PartsInv, FifoOK
  <2>2. CASE Fetched > 0
    <3>1. pc' = "process"
      BY <1>3, <2>1, <2>2, FetchFacts DEF PartsInv
    <3>2. QED
      BY <3>1 DEF ThreadInv
  <2>3. CASE ~(Fetched > 0)
    <3>1. UNCHANGED touchVars /\ pc' = "pass"
      BY <1>3, <2>1, <2>3, FetchFacts DEF PartsInv
    <3>2. QED
      BY <2>1, <3>1 DEF ThreadInv, touchVars
  <2>4. QED
    BY <2>2, <2>3
<1>4. CASE ProcessStep
  BY <1>4 DEF ProcessStep, drainVars, ThreadInv
<1>5. CASE Processed
  BY <1>5 DEF Processed, Drain!Process, touchVars, ThreadInv
<1>6. CASE DiscardMessage
  BY <1>6 DEF DiscardMessage, Drain!DrainRead, Drain!threadVars, touchVars,
              ThreadInv
<1>7. CASE Schedule
  <2>1. UNCHANGED touchVars
    BY <1>7 DEF Schedule
  <2>2. pc' = pc \/ (pc = "unborn" /\ pc' # "unborn")
          \/ (pc \notin {"process", "unborn"} /\ pc' # "unborn")
    BY <1>7 DEF Schedule, PartsInv, D!SpawnInv, D!Booting,
       Drain!SpuriousEdge, Drain!IrqHandler, Drain!TimerHandler,
       Drain!TakeSem, Drain!Lock, Drain!ReadFails, Drain!ReadT44,
       Drain!EndPassPolling, Drain!EndPass, Drain!CheckChg, Drain!Arm,
       Drain!BootArm, Drain!BootFails, Drain!BootSpawn, Drain!SuspendT7,
       Drain!SuspendIrq, Drain!ResumeT7, Drain!ResumeIrq, Drain!DrainEmpty,
       Drain!DrainStops,
       Drain!threadVars
  <2>3. QED
    BY <2>1, <2>2 DEF ThreadInv, touchVars
<1>8. QED
  BY <1>1, <1>2, <1>3, <1>4, <1>5, <1>6, <1>7 DEF PathNext

-----------------------------------------------------------------------------

\* The four things a step can do to the reports on their way.
Arrives(i, p) ==
  /\ fingers' = [fingers EXCEPT ![i] = p]
  /\ lost' = lost \ {i}
  /\ Waiting' = Append(Waiting, [id |-> i, pos |-> p])
  /\ Known' = Known /\ ctl' = ctl

Learns ==
  /\ Waiting # <<>> /\ Waiting' = Tail(Waiting)
  /\ Known' = IF Head(Waiting).id \in TrackedIds
                THEN [Known EXCEPT ![Head(Waiting).id] = Head(Waiting).pos]
                ELSE Known
  /\ UNCHANGED <<fingers, lost, ctl>>

Drops(k) ==
  /\ ctl \in {"boot_drain", "res_drain"} /\ k = Len(msg_buf) + 1
  /\ Waiting' = RemoveAt(Waiting, k)
  /\ lost' = IF \E l \in DOMAIN Waiting :
                   l > k /\ Waiting[l].id = Waiting[k].id
               THEN lost ELSE lost \cup {Waiting[k].id}
  /\ UNCHANGED <<fingers, Known, ctl>>

Stays == UNCHANGED <<fingers, lost, Waiting, Known>>

\* No batch is being looked at when the next one is fetched.
LEMMA FetchStays == ASSUME PartsInv, FetchBatch PROVE Stays
<1>1. /\ Fetched \in 0..Len(queue) /\ Len(queue) \in Nat
      /\ queue \in Seq(Reports)
      /\ queue' = SubSeq(queue, Fetched + 1, Len(queue))
      /\ UNCHANGED <<fingers, lost>>
  BY FetchFacts DEF PartsInv, FifoOK
<1>2. CASE Fetched > 0
  <2>1. Begin(SubSeq(queue, 1, Fetched))
    BY <1>2, FetchFacts DEF PartsInv
  <2>2. /\ Known' = Known /\ phase = "idle"
        /\ msg_buf' = SubSeq(queue, 1, Fetched)
    BY <2>1, BeginKnown
  <2>3. msg_buf = <<>>
    BY <2>2 DEF PartsInv, TouchInv, LoopInv
  <2>4. Waiting' = queue
    BY <1>1, <2>2, OneSequence DEF Waiting
  <2>5. Waiting = queue
    BY <1>1, <2>3, OneSequence DEF Waiting
  <2>6. QED
    BY <1>1, <2>2, <2>4, <2>5 DEF Stays
<1>3. CASE ~(Fetched > 0)
  <2>1. Fetched = 0 /\ UNCHANGED touchVars
    BY <1>3, FetchFacts DEF PartsInv
  <2>2. queue' = queue
    BY <1>1, <2>1, SubSeqFull
  <2>3. Table' = Table /\ msg_buf' = msg_buf
    BY <2>1 DEF touchVars, Table
  <2>4. QED
    BY <1>1, <2>2, <2>3 DEF Stays, Waiting, Known
<1>4. QED
  BY <1>2, <1>3

\* Every step is one of the four.
LEMMA PathMoves ==
  ASSUME PartsInv, [PathNext]_pathVars
  PROVE  \/ \E i \in TouchIds, p \in Positions \cup {Up} : Arrives(i, p)
         \/ Learns
         \/ \E k \in DOMAIN Waiting : Drops(k)
         \/ Stays
<1>1. /\ queue \in Seq(Reports) /\ msg_buf \in Seq(Reports) /\ TouchInv
      /\ Waiting \in Seq(Reports) /\ Len(Waiting) = Len(msg_buf) + Len(queue)
      /\ \A k \in 1..Len(queue) : Waiting[Len(msg_buf) + k] = queue[k]
      /\ Len(queue) \in Nat /\ Len(msg_buf) \in Nat
      /\ DOMAIN Waiting = 1..Len(Waiting) /\ DOMAIN queue = 1..Len(queue)
  BY OneSequence DEF PartsInv, FifoOK, Waiting
<1>2. ASSUME UNCHANGED touchVars
      PROVE  Known' = Known /\ msg_buf' = msg_buf
  <2>1. Table' = Table /\ msg_buf' = msg_buf
    BY <1>2 DEF touchVars, Table
  <2>2. QED
    BY <2>1 DEF Known
<1>3. ASSUME UNCHANGED <<panelVars, touchVars>> PROVE Stays
  BY <1>2, <1>3 DEF Stays, Waiting, panelVars
<1>4. ASSUME NEW i \in TouchIds, NEW p \in Positions \cup {Up},
             ReportFinger(i, p)
      PROVE  Arrives(i, p)
  <2>1. [id |-> i, pos |-> p] \in Reports
    BY ReportFacts
  <2>2. /\ fingers' = [fingers EXCEPT ![i] = p] /\ lost' = lost \ {i}
        /\ queue' = Append(queue, [id |-> i, pos |-> p])
        /\ UNCHANGED touchVars /\ ctl' = ctl
    BY <1>4 DEF ReportFinger, Drain!Arrive, Drain!ctlVars
  <2>3. msg_buf \o queue' = Append(msg_buf \o queue, [id |-> i, pos |-> p])
    BY <1>1, <2>1, <2>2, OneSequence
  <2>4. QED
    BY <1>2, <2>2, <2>3 DEF Arrives, Waiting
<1>5. ASSUME ProcessStep PROVE Learns \/ Stays
  <2>1. /\ queue' = queue /\ fingers' = fingers /\ lost' = lost
        /\ TouchStep /\ ctl' = ctl
    BY <1>5 DEF ProcessStep, panelVars, drainVars
  <2>2. CASE Scan
    <3>1. Head(msg_buf) \in Reports
      BY <1>1, <2>2 DEF Scan
    <3>2. /\ msg_buf # <<>> /\ msg_buf' = Tail(msg_buf)
          /\ Known' = IF Head(msg_buf).id \in TrackedIds
                        THEN [Known EXCEPT ![Head(msg_buf).id]
                                             = Head(msg_buf).pos]
                        ELSE Known
      BY <1>1, <2>2, <3>1, ScanKnown
    <3>3. /\ Tail(msg_buf) \o queue = Tail(msg_buf \o queue)
          /\ Head(msg_buf \o queue) = Head(msg_buf)
          /\ msg_buf \o queue # <<>>
      BY <1>1, <3>2, OneSequence
    <3>4. QED
      BY <2>1, <3>2, <3>3 DEF Learns, Waiting
  <2>3. CASE EndScan \/ Report \/ EndLoop \/ CopyTouch \/ Save
    <3>1. Known' = Known /\ msg_buf' = msg_buf
      BY <1>1, <2>3, QuietKnown
    <3>2. QED
      BY <2>1, <3>1 DEF Stays, Waiting
  <2>4. QED
    BY <2>1, <2>2, <2>3 DEF TouchStep
<1>6. ASSUME DiscardMessage PROVE \E k \in DOMAIN Waiting : Drops(k)
  <2> DEFINE k == Len(msg_buf) + 1
             later == \E l \in DOMAIN queue :
                        l > 1 /\ queue[l].id = Head(queue).id
  <2>1. /\ queue # <<>> /\ queue' = Tail(queue)
        /\ fingers' = fingers /\ UNCHANGED touchVars
        /\ lost' = IF later THEN lost ELSE lost \cup {Head(queue).id}
        /\ ctl \in {"boot_drain", "res_drain"} /\ ctl' = ctl
    BY <1>6 DEF DiscardMessage, Drain!DrainRead
  <2>2. Head(queue) = queue[1] /\ 1 \in 1..Len(queue)
    BY <1>1, <2>1
  <2>3. k \in DOMAIN Waiting /\ Waiting[k] = Head(queue)
    BY <1>1, <2>2
  <2>4. later <=> \E l \in DOMAIN Waiting :
                    l > k /\ Waiting[l].id = Waiting[k].id
    <3>1. ASSUME NEW l \in DOMAIN queue, l > 1,
                 queue[l].id = Head(queue).id
          PROVE  \E m \in DOMAIN Waiting :
                    m > k /\ Waiting[m].id = Waiting[k].id
      <4>1. /\ Len(msg_buf) + l \in DOMAIN Waiting /\ Len(msg_buf) + l > k
            /\ Waiting[Len(msg_buf) + l] = queue[l]
        BY <1>1, <3>1
      <4>2. QED
        BY <2>3, <3>1, <4>1
    <3>2. ASSUME NEW m \in DOMAIN Waiting, m > k,
                 Waiting[m].id = Waiting[k].id
          PROVE  later
      <4>1. PICK l \in 1..Len(queue) : m = Len(msg_buf) + l /\ l > 1
        <5>1. m - Len(msg_buf) \in 1..Len(queue)
          BY <1>1, <3>2
        <5>2. m = Len(msg_buf) + (m - Len(msg_buf)) /\ m - Len(msg_buf) > 1
          BY <1>1, <3>2
        <5>3. QED
          BY <5>1, <5>2
      <4>2. queue[l] = Waiting[m]
        BY <1>1, <4>1
      <4>3. QED
        BY <1>1, <2>3, <3>2, <4>1, <4>2
    <3>3. QED
      BY <3>1, <3>2
  <2>5. Waiting' = RemoveAt(Waiting, k)
    <3>1. msg_buf \o Tail(queue) = RemoveAt(msg_buf \o queue, k)
      BY <1>1, <2>1, Dropping
    <3>2. QED
      BY <1>2, <2>1, <3>1 DEF Waiting
  <2> HIDE DEF later
  <2>6. Drops(k)
    BY <1>2, <2>1, <2>3, <2>4, <2>5 DEF Drops
  <2>7. QED
    BY <2>3, <2>6
<1>7. CASE UNCHANGED pathVars
  BY <1>3, <1>7 DEF pathVars
<1>8. CASE Processed \/ Schedule
  BY <1>3, <1>8 DEF Processed, Schedule
<1>9. QED
  BY <1>4, <1>5, <1>6, <1>7, <1>8, FetchStays DEF PathNext

-----------------------------------------------------------------------------

\* What a sequence of reports says of a finger last, when one comes in, is
\* looked at or is dropped.
LEMMA SaysAppend ==
  ASSUME NEW w \in Seq(Reports), NEW e \in Reports
  PROVE  /\ SaysLast(Append(w, e), e.id, e.pos)
         /\ \A j : j # e.id =>
              /\ \A q : SaysLast(w, j, q) => SaysLast(Append(w, e), j, q)
              /\ SaysNothing(w, j) => SaysNothing(Append(w, e), j)
<1> DEFINE v == Append(w, e)
           n == Len(w)
<1>1. /\ n \in Nat /\ DOMAIN w = 1..n /\ DOMAIN v = 1..(n + 1)
      /\ v[n + 1] = e /\ \A k \in 1..n : v[k] = w[k]
  OBVIOUS
<1> HIDE DEF v, n
<1>2. SaysLast(v, e.id, e.pos)
  BY <1>1 DEF SaysLast
<1>3. ASSUME NEW j, j # e.id, NEW q, SaysLast(w, j, q)
      PROVE  SaysLast(v, j, q)
  <2>1. PICK k \in 1..n : /\ w[k].id = j /\ w[k].pos = q
                          /\ \A l \in 1..n : w[l].id = j => l <= k
    BY <1>1, <1>3 DEF SaysLast
  <2>2. \A l \in 1..(n + 1) : v[l].id = j => l <= k
    BY <1>1, <1>3, <2>1
  <2>3. k \in 1..(n + 1) /\ v[k].id = j /\ v[k].pos = q
    BY <1>1, <2>1
  <2>4. QED
    BY <1>1, <2>2, <2>3 DEF SaysLast
<1>4. ASSUME NEW j, j # e.id, SaysNothing(w, j)
      PROVE  SaysNothing(v, j)
  BY <1>1, <1>4 DEF SaysNothing
<1>5. QED
  BY <1>2, <1>3, <1>4 DEF v

LEMMA SaysTail ==
  ASSUME NEW w \in Seq(Reports), w # <<>>
  PROVE  /\ Head(w) \in Reports
         /\ \A j, q : SaysLast(w, j, q) =>
              \/ SaysLast(Tail(w), j, q)
              \/ SaysNothing(Tail(w), j) /\ Head(w).id = j /\ Head(w).pos = q
         /\ \A j : SaysNothing(w, j) =>
              SaysNothing(Tail(w), j) /\ Head(w).id # j
<1> DEFINE v == Tail(w)
           n == Len(w)
<1>1. /\ n \in Nat \ {0} /\ DOMAIN w = 1..n /\ DOMAIN v = 1..(n - 1)
      /\ Head(w) = w[1] /\ \A k \in 1..(n - 1) : v[k] = w[k + 1]
      /\ Head(w) \in Reports
  OBVIOUS
<1> HIDE DEF v, n
<1>2. ASSUME NEW j, NEW q, SaysLast(w, j, q)
      PROVE  \/ SaysLast(v, j, q)
             \/ SaysNothing(v, j) /\ Head(w).id = j /\ Head(w).pos = q
  <2>1. PICK k \in 1..n : /\ w[k].id = j /\ w[k].pos = q
                          /\ \A l \in 1..n : w[l].id = j => l <= k
    BY <1>1, <1>2 DEF SaysLast
  <2>2. CASE k = 1
    <3>1. \A l \in 1..(n - 1) : v[l].id # j
      BY <1>1, <2>1, <2>2
    <3>2. QED
      BY <1>1, <2>1, <2>2, <3>1 DEF SaysNothing
  <2>3. CASE k # 1
    <3>1. k - 1 \in 1..(n - 1) /\ v[k - 1] = w[k]
      BY <1>1, <2>1, <2>3
    <3>2. \A l \in 1..(n - 1) : v[l].id = j => l <= k - 1
      BY <1>1, <2>1
    <3>3. QED
      BY <1>1, <2>1, <3>1, <3>2 DEF SaysLast
  <2>4. QED
    BY <2>2, <2>3
<1>3. ASSUME NEW j, SaysNothing(w, j)
      PROVE  SaysNothing(v, j) /\ Head(w).id # j
  BY <1>1, <1>3 DEF SaysNothing
<1>4. QED
  BY <1>1, <1>2, <1>3 DEF v

LEMMA SaysRemove ==
  ASSUME NEW w \in Seq(Reports), NEW k \in 1..Len(w)
  PROVE  /\ \A j, q :
              /\ SaysLast(w, j, q)
              /\ w[k].id # j \/ \E l \in DOMAIN w : l > k /\ w[l].id = w[k].id
              => SaysLast(RemoveAt(w, k), j, q)
         /\ \A j : SaysNothing(w, j) => SaysNothing(RemoveAt(w, k), j)
         /\ \A j : (\A l \in DOMAIN w : w[l].id = j => l = k)
                     => SaysNothing(RemoveAt(w, k), j)
<1> DEFINE v == RemoveAt(w, k)
           n == Len(w)
<1>1. /\ n \in Nat /\ DOMAIN w = 1..n /\ k \in 1..n
      /\ v \in Seq(Reports) /\ Len(v) = n - 1
      /\ \A i \in 1..(n - 1) : v[i] = IF i < k THEN w[i] ELSE w[i + 1]
  BY Removal
<1>2. DOMAIN v = 1..(n - 1)
  BY <1>1
<1> HIDE DEF v, n
<1>3. ASSUME NEW j, NEW q, SaysLast(w, j, q),
             w[k].id # j \/ \E l \in DOMAIN w : l > k /\ w[l].id = w[k].id
      PROVE  SaysLast(v, j, q)
  <2>1. PICK m \in 1..n : /\ w[m].id = j /\ w[m].pos = q
                          /\ \A l \in 1..n : w[l].id = j => l <= m
    BY <1>1, <1>3 DEF SaysLast
  <2>2. m # k
    BY <1>1, <1>3, <2>1
  <2>3. CASE m < k
    <3>1. m \in 1..(n - 1) /\ v[m] = w[m]
      BY <1>1, <2>3
    <3>2. \A l \in 1..(n - 1) : v[l].id = j => l <= m
      BY <1>1, <2>1, <2>3
    <3>3. QED
      BY <1>2, <2>1, <3>1, <3>2 DEF SaysLast
  <2>4. CASE m > k
    <3>1. m - 1 \in 1..(n - 1) /\ v[m - 1] = w[m]
      BY <1>1, <2>4
    <3>2. \A l \in 1..(n - 1) : v[l].id = j => l <= m - 1
      BY <1>1, <2>1, <2>4
    <3>3. QED
      BY <1>2, <2>1, <3>1, <3>2 DEF SaysLast
  <2>5. QED
    BY <1>1, <2>2, <2>3, <2>4
<1>4. ASSUME NEW j, \/ SaysNothing(w, j)
                    \/ \A l \in DOMAIN w : w[l].id = j => l = k
      PROVE  SaysNothing(v, j)
  <2>1. \A l \in 1..n : w[l].id = j => l = k
    BY <1>1, <1>4 DEF SaysNothing
  <2>2. \A i \in 1..(n - 1) : v[i].id # j
    BY <1>1, <2>1
  <2>3. QED
    BY <1>2, <2>2 DEF SaysNothing
<1>5. QED
  BY <1>3, <1>4 DEF v

-----------------------------------------------------------------------------

PathInv == PartsInv /\ ThreadInv /\ LostInv /\ PendingExplainsPanel

\* At first the driver has no finger, and the FIFO holds a report of each that
\* is down.
LEMMA PathInitInv ==
  ASSUME PathInit
  PROVE  ThreadInv /\ LostInv /\ PendingExplainsPanel
<1>1. /\ prev_touches = <<>> /\ msg_buf = <<>> /\ phase = "idle"
      /\ lost = {} /\ queue \in Seq(Reports)
      /\ fingers \in [TouchIds -> Positions \cup {Up}]
  BY RestingQueue DEF PathInit, TouchInit, FifoOK
<1>2. Waiting = queue
  BY <1>1, OneSequence DEF Waiting
<1>3. \A i \in TouchIds : Known[i] = Up
  BY <1>1 DEF Known, Table, PlaceIn
<1>4. ASSUME NEW i \in TouchIds
      PROVE  \/ SaysLast(queue, i, fingers[i])
             \/ SaysNothing(queue, i) /\ fingers[i] = Up
  <2>1. /\ \A k \in DOMAIN queue : queue[k] \in RestingReports
        /\ \A m \in RestingReports : \E k \in DOMAIN queue : queue[k] = m
        /\ \A k, l \in DOMAIN queue : k # l => queue[k] # queue[l]
    BY RestingQueue
  <2>2. \A k \in DOMAIN queue : /\ k \in Nat /\ queue[k].id \in TouchIds
                                /\ queue[k].pos = fingers[queue[k].id]
                                /\ queue[k].pos # Up
                                /\ queue[k] = [id |-> queue[k].id,
                                               pos |-> queue[k].pos]
    BY <1>1, <2>1 DEF RestingReports
  <2>3. CASE fingers[i] = Up
    BY <2>2, <2>3 DEF SaysNothing
  <2>4. CASE fingers[i] # Up
    <3>1. [id |-> i, pos |-> fingers[i]] \in RestingReports
      BY <2>4 DEF RestingReports
    <3>2. PICK k \in DOMAIN queue :
            queue[k] = [id |-> i, pos |-> fingers[i]]
      BY <2>1, <3>1
    <3>3. \A l \in DOMAIN queue : queue[l].id = i => l = k
      BY <2>1, <2>2, <3>2
    <3>4. QED
      BY <2>2, <3>2, <3>3 DEF SaysLast
  <2>5. QED
    BY <2>3, <2>4
<1>5. PendingExplainsPanel
  BY <1>2, <1>3, <1>4 DEF PendingExplainsPanel, TrackedIds
<1>6. QED
  BY <1>1, <1>5 DEF ThreadInv, LostInv

\* What is pending explains the panel whichever of the four things happens.
LEMMA PanelKept ==
  ASSUME PartsInv, PendingExplainsPanel, [PathNext]_pathVars
  PROVE  PendingExplainsPanel'
<1>1. /\ Waiting \in Seq(Reports) /\ DOMAIN Waiting = 1..Len(Waiting)
      /\ fingers \in [TouchIds -> Positions \cup {Up}]
      /\ DOMAIN Known = TouchIds
  BY OneSequence DEF PartsInv, FifoOK, Waiting, Known
<1>2. SUFFICES ASSUME NEW i \in TrackedIds, i \notin lost'
               PROVE  \/ SaysLast(Waiting', i, fingers'[i])
                      \/ SaysNothing(Waiting', i) /\ Known'[i] = fingers'[i]
  BY DEF PendingExplainsPanel, TrackedIds, SaysLast, SaysNothing
<1>3. i \in TouchIds
  BY DEF TrackedIds
<1>4. i \notin lost => \/ SaysLast(Waiting, i, fingers[i])
                       \/ SaysNothing(Waiting, i) /\ Known[i] = fingers[i]
  BY DEF PendingExplainsPanel
<1>5. ASSUME NEW j \in TouchIds, NEW p \in Positions \cup {Up}, Arrives(j, p)
      PROVE  \/ SaysLast(Waiting', i, fingers'[i])
             \/ SaysNothing(Waiting', i) /\ Known'[i] = fingers'[i]
  <2> DEFINE e == [id |-> j, pos |-> p]
  <2>1. e \in Reports /\ e.id = j /\ e.pos = p
    BY ReportFacts
  <2>2. /\ Waiting' = Append(Waiting, e) /\ Known' = Known
        /\ fingers' = [fingers EXCEPT ![j] = p] /\ lost' = lost \ {j}
    BY <1>5 DEF Arrives
  <2> HIDE DEF e
  <2>3. CASE i = j
    <3>1. fingers'[i] = p
      BY <1>1, <1>3, <2>2, <2>3
    <3>2. QED
      BY <1>1, <2>1, <2>2, <2>3, <3>1, SaysAppend
  <2>4. CASE i # j
    <3>1. fingers'[i] = fingers[i] /\ i \notin lost
      BY <1>1, <1>2, <1>3, <2>2, <2>4
    <3>2. QED
      BY <1>1, <1>4, <2>1, <2>2, <2>4, <3>1, SaysAppend
  <2>5. QED
    BY <2>3, <2>4
<1>6. CASE Learns
  <2>1. /\ Waiting # <<>> /\ Waiting' = Tail(Waiting)
        /\ Known' = IF Head(Waiting).id \in TrackedIds
                      THEN [Known EXCEPT ![Head(Waiting).id]
                                           = Head(Waiting).pos]
                      ELSE Known
        /\ fingers' = fingers /\ lost' = lost
    BY <1>6 DEF Learns
  <2>2. CASE SaysLast(Waiting, i, fingers[i])
    <3>1. \/ SaysLast(Tail(Waiting), i, fingers[i])
          \/ /\ SaysNothing(Tail(Waiting), i) /\ Head(Waiting).id = i
             /\ Head(Waiting).pos = fingers[i]
      BY <1>1, <2>1, <2>2, SaysTail
    <3>2. QED
      BY <1>1, <1>3, <2>1, <3>1
  <2>3. CASE SaysNothing(Waiting, i) /\ Known[i] = fingers[i]
    <3>1. SaysNothing(Tail(Waiting), i) /\ Head(Waiting).id # i
      BY <1>1, <2>1, <2>3, SaysTail
    <3>2. QED
      BY <1>1, <1>3, <2>1, <2>3, <3>1
  <2>4. QED
    BY <1>2, <1>4, <2>1, <2>2, <2>3
<1>7. ASSUME NEW k \in DOMAIN Waiting, Drops(k)
      PROVE  \/ SaysLast(Waiting', i, fingers'[i])
             \/ SaysNothing(Waiting', i) /\ Known'[i] = fingers'[i]
  <2>1. /\ Waiting' = RemoveAt(Waiting, k) /\ Known' = Known
        /\ fingers' = fingers
        /\ lost' = IF \E l \in DOMAIN Waiting :
                         l > k /\ Waiting[l].id = Waiting[k].id
                     THEN lost ELSE lost \cup {Waiting[k].id}
    BY <1>7 DEF Drops
  <2>2. /\ i \notin lost
        /\ \/ Waiting[k].id # i
           \/ \E l \in DOMAIN Waiting : l > k /\ Waiting[l].id = Waiting[k].id
    BY <1>2, <2>1
  <2>3. k \in 1..Len(Waiting)
    BY <1>1
  <2>4. QED
    BY <1>1, <1>4, <2>1, <2>2, <2>3, SaysRemove
<1>8. CASE Stays
  BY <1>2, <1>4, <1>8 DEF Stays
<1>9. QED
  BY <1>5, <1>6, <1>7, <1>8, PathMoves

\* Without power management only init drops reports, while the thread is not
\* there and the driver has learned nothing.
LEMMA LostKept ==
  ASSUME PartsInv, ThreadInv, LostInv, [PathNext]_pathVars
  PROVE  LostInv'
<1>1. /\ Waiting \in Seq(Reports) /\ DOMAIN Waiting = 1..Len(Waiting)
      /\ lost \subseteq TouchIds /\ DOMAIN Known = TouchIds
      /\ queue \in Seq(Reports)
  BY OneSequence DEF PartsInv, FifoOK, Waiting, Known
<1>2. build' = build
  <2>1. [Drain!Next]_(Drain!vars)
    BY PathStepDrains
  <2>2. [D!Next]_(D!vars)
    BY <2>1, SameStep
  <2>3. QED
    BY <2>2, D!BuildFixed, PathAssumption DEF D!BoundsAssumption,
       D!BuildsAssumption, Drain!BoundsAssumption, Drain!BuildsAssumption,
       D!Options, Drain!Options
<1>3. SUFFICES ASSUME ~Drain!PmBuild, NEW i \in lost'
               PROVE  SaysNothing(Waiting', i) /\ Known'[i] = Up
  BY <1>2 DEF LostInv, Drain!PmBuild, SaysNothing
<1>4. i \in lost => SaysNothing(Waiting, i) /\ Known[i] = Up
  BY <1>3 DEF LostInv
<1>5. ASSUME NEW j \in TouchIds, NEW p \in Positions \cup {Up}, Arrives(j, p)
      PROVE  SaysNothing(Waiting', i) /\ Known'[i] = Up
  <2> DEFINE e == [id |-> j, pos |-> p]
  <2>1. e \in Reports /\ e.id = j
    BY ReportFacts
  <2>2. /\ Waiting' = Append(Waiting, e) /\ Known' = Known
        /\ i \in lost /\ i # j
    BY <1>3, <1>5 DEF Arrives
  <2> HIDE DEF e
  <2>3. QED
    BY <1>1, <1>4, <2>1, <2>2, SaysAppend
<1>6. CASE Learns
  <2>1. /\ Waiting # <<>> /\ Waiting' = Tail(Waiting) /\ i \in lost
        /\ Known' = IF Head(Waiting).id \in TrackedIds
                      THEN [Known EXCEPT ![Head(Waiting).id]
                                           = Head(Waiting).pos]
                      ELSE Known
    BY <1>3, <1>6 DEF Learns
  <2>2. SaysNothing(Tail(Waiting), i) /\ Head(Waiting).id # i
    BY <1>1, <1>4, <2>1, SaysTail
  <2>3. QED
    BY <1>1, <1>4, <2>1, <2>2
<1>7. ASSUME NEW k \in DOMAIN Waiting, Drops(k)
      PROVE  SaysNothing(Waiting', i) /\ Known'[i] = Up
  <2>1. /\ Waiting' = RemoveAt(Waiting, k) /\ Known' = Known
        /\ k = Len(msg_buf) + 1 /\ ctl \in {"boot_drain", "res_drain"}
        /\ lost' = IF \E l \in DOMAIN Waiting :
                         l > k /\ Waiting[l].id = Waiting[k].id
                     THEN lost ELSE lost \cup {Waiting[k].id}
    BY <1>7 DEF Drops
  <2>2. pc = "unborn"
    BY <1>3, <2>1 DEF PartsInv, D!OneShotInv, D!SpawnInv, D!Booting,
                      D!PmBuild, Drain!PmBuild
  <2>3. phase = "idle" /\ prev_touches = <<>> /\ msg_buf = <<>>
    BY <2>2 DEF ThreadInv, PartsInv, TouchInv, LoopInv
  <2>4. k = 1 /\ \A j \in TouchIds : Known[j] = Up
    BY <2>1, <2>3 DEF Known, Table, PlaceIn
  <2>5. k \in 1..Len(Waiting) /\ \A l \in 1..Len(Waiting) : l = 1 \/ l > 1
    BY <1>1
  <2>6. CASE i \in lost
    BY <1>1, <1>4, <2>1, <2>5, <2>6, SaysRemove
  <2>7. CASE i \notin lost
    <3>1. /\ i = Waiting[k].id
          /\ \A l \in DOMAIN Waiting : Waiting[l].id = i => l = k
      BY <1>1, <1>3, <2>1, <2>4, <2>5, <2>7
    <3>2. i \in TouchIds
      <4>1. Waiting[k] \in Reports
        BY <1>1, <2>5
      <4>2. QED
        BY <3>1, <4>1, ReportFacts
    <3>3. QED
      BY <1>1, <2>1, <2>4, <2>5, <3>1, <3>2, SaysRemove
  <2>8. QED
    BY <2>6, <2>7
<1>8. CASE Stays
  BY <1>3, <1>4, <1>8 DEF Stays
<1>9. QED
  BY <1>5, <1>6, <1>7, <1>8, PathMoves

LEMMA PathInvariance == PathSpec => []PathInv
<1>1. PathInit => ThreadInv /\ LostInv /\ PendingExplainsPanel
  BY PathInitInv
<1>2. PathInv /\ [PathNext]_pathVars
        => ThreadInv' /\ LostInv' /\ PendingExplainsPanel'
  BY ThreadKept, LostKept, PanelKept DEF PathInv
<1>3. QED
  BY <1>1, <1>2, PartsCorrect, PTL DEF PathSpec, PathInv

-----------------------------------------------------------------------------

\* Every variable of the composition stays in its range.
THEOREM PathTypeCorrect == PathSpec => []PathTypeOK
<1>1. PathInv => PathTypeOK
  BY DEF PathInv, PartsInv, FifoOK, TouchInv, PathTypeOK
<1>2. QED
  BY <1>1, PathInvariance, PTL

\* What the driver has of a finger and the reports still on their way add up to
\* where the finger is, unless its last report was discarded.
THEOREM PanelExplained == PathSpec => []PendingExplainsPanel
  BY PathInvariance, PTL DEF PathInv

\* Without power management no finger is carried forward that is off the panel:
\* all init discards are reports of fingers the driver has not.
THEOREM NoGhost == PathSpec => []NoGhostWithoutPm
<1>1. PathInv => NoGhostWithoutPm
  <2>1. SUFFICES ASSUME PathInv, ~Drain!PmBuild, phase = "idle",
                        queue = <<>>, NEW s \in DOMAIN prev_touches
                 PROVE  fingers[prev_touches[s].id] # Up
    BY DEF NoGhostWithoutPm, CarriedFingersAreDown
  <2> DEFINE i == prev_touches[s].id
  <2>2. /\ prev_touches \in Seq(Touch) /\ UniqueIds(prev_touches)
        /\ i \in TouchIds /\ i < MaxTouches /\ prev_touches[s].active
        /\ prev_touches[s].pos \in Positions
    BY <2>1, TableFacts DEF PathInv, PartsInv, TouchInv, TouchTypeOK,
                            TablesAreSound
  <2> HIDE DEF i
  <2>3. i \in TrackedIds
    BY <2>2 DEF TrackedIds
  <2>4. Known[i] = prev_touches[s].pos
    <3>1. Known[i] = PlaceIn(prev_touches, i)
      BY <2>1, <2>2 DEF Known, Table
    <3>2. QED
      BY <2>2, <3>1, PlaceFacts DEF i
  <2>5. Known[i] # Up
    BY <2>2, <2>4, TouchAssumption
  <2>6. Waiting = <<>>
    <3>1. msg_buf = <<>>
      BY <2>1 DEF PathInv, PartsInv, TouchInv, LoopInv
    <3>2. QED
      BY <2>1, <3>1 DEF Waiting
  <2>7. i \notin lost
    BY <2>1, <2>5 DEF PathInv, LostInv
  <2>8. Known[i] = fingers[i]
    <3>1. ~SaysLast(Waiting, i, fingers[i])
      BY <2>6 DEF SaysLast
    <3>2. QED
      BY <2>1, <2>3, <2>7, <3>1 DEF PathInv, PendingExplainsPanel
  <2>9. QED
    BY <2>5, <2>8 DEF i
<1>2. QED
  BY <1>1, PathInvariance, PTL

\* Threads, interrupt, batches and tables implement TouchFeed: reports are
\* learned in the order they came in, each once, or discarded by init and
\* resume.
THEOREM FeedImplemented == PathSpec => ImplementsFeed
<1>1. PathInit => Feed!FeedInit
  <2>1. SUFFICES ASSUME PathInit PROVE Feed!FeedInit
    OBVIOUS
  <2>2. /\ prev_touches = <<>> /\ msg_buf = <<>> /\ phase = "idle"
        /\ queue \in Seq(Reports) /\ ctl = "boot_arm"
        /\ queue \in SetToSeqs(RestingReports)
        /\ fingers \in [TouchIds -> Positions \cup {Up}]
    BY <2>1, RestingQueue DEF PathInit, TouchInit, FifoOK, Drain!Init
  <2>3. Waiting = queue
    BY <2>2, OneSequence DEF Waiting
  <2>4. Known = [i \in TouchIds |-> Up]
    BY <2>2 DEF Known, Table, PlaceIn
  <2>5. Feed!SetToSeqs(Feed!RestingReports) = SetToSeqs(RestingReports)
    <3>1. Feed!RestingReports = RestingReports
      BY DEF Feed!RestingReports, RestingReports
    <3>2. ASSUME NEW S PROVE Feed!Cardinality(S) = Cardinality(S)
      BY Zenon DEF Feed!Cardinality, Cardinality
    <3>3. QED
      BY <3>1, <3>2 DEF Feed!SetToSeqs, SetToSeqs
  <2>6. Waiting \in Feed!SetToSeqs(Feed!RestingReports)
    BY <2>2, <2>3, <2>5
  <2>7. (ctl \in {"boot_drain", "res_drain"}) = FALSE
    BY <2>2
  <2>8. QED
    BY <2>2, <2>4, <2>6, <2>7 DEF Feed!FeedInit
<1>2. PartsInv /\ [PathNext]_pathVars => [Feed!FeedNext]_(Feed!feedVars)
  <2>1. SUFFICES ASSUME PartsInv, [PathNext]_pathVars
                 PROVE  [Feed!FeedNext]_(Feed!feedVars)
    OBVIOUS
  <2>2. ASSUME NEW i \in TouchIds, NEW p \in Positions \cup {Up},
               Arrives(i, p)
        PROVE  Feed!FeedNext
    <3>1. Feed!ReportFinger(i, p)
      BY <2>2 DEF Arrives, Feed!ReportFinger
    <3>2. QED
      BY <3>1 DEF Feed!FeedNext
  <2>3. CASE Learns
    <3>1. Feed!Learn
      BY <2>3 DEF Learns, Feed!Learn
    <3>2. QED
      BY <3>1 DEF Feed!FeedNext
  <2>4. ASSUME NEW k \in DOMAIN Waiting, Drops(k)
        PROVE  Feed!FeedNext
    <3>1. Feed!Discard(k)
      BY <2>4 DEF Drops, Feed!Discard, Feed!RemoveAt, RemoveAt
    <3>2. QED
      BY <3>1 DEF Feed!FeedNext
  <2>5. CASE Stays
    BY <2>5 DEF Stays, Feed!FeedNext, Feed!StartOrEndDiscarding,
                Feed!feedVars
  <2>6. QED
    BY <2>1, <2>2, <2>3, <2>4, <2>5, PathMoves
<1>3. QED
  BY <1>1, <1>2, PartsCorrect, PTL DEF PathSpec, ImplementsFeed, Feed!FeedSpec
=============================================================================
