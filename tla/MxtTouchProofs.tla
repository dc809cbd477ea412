--------------------------- MODULE MxtTouchProofs ---------------------------
(***************************************************************************)
(* mxt_process_messages for every number of touches and ids and whatever   *)
(* the batches say: its tables are sound, and a frame ends with its only   *)
(* synchronising event.                                                    *)
(*                                                                         *)
(* The invariant says where each loop is (LoopInv), what the copy of the   *)
(* pressed touches holds so far (CopyInv) and when the synchronising event *)
(* has been reported (SyncInv).                                            *)
(***************************************************************************)
EXTENDS MxtTouch, FiniteSetTheorems, WellFoundedInduction, TLAPS

\* The loops stay in the table, and start at its first entry.
LoopInv ==
  /\ at \in 0..Len(touches)
  /\ phase \in {"idle", "scan"} => at = 0
  /\ field # FirstField => phase \in {"active", "released"} /\ Ahead # {}
  /\ field # "slot" \/ MaxTouches > 1
  /\ phase = "idle" => touches = <<>>
  /\ phase = "scan" \/ msg_buf = <<>>
  /\ Len(touches) <= MaxTouches /\ Len(prev_touches) <= MaxTouches

\* The copy of the pressed touches, as far as it has come.
CopyInv ==
  phase = "save" =>
    /\ Len(prev_touches) <= at
    /\ \A k \in DOMAIN prev_touches :
         \E s \in Active : s <= at /\ touches[s] = prev_touches[k]
    /\ \A s \in Active :
         s <= at => \E k \in DOMAIN prev_touches : prev_touches[k] = touches[s]

Synced == event # NoEvent /\ event.sync

\* The synchronising event is the last one of the frame.
SyncInv ==
  /\ phase = "scan" => ~Synced
  /\ phase = "active" =>
       (Synced <=> Ahead = {} /\ Released = {} /\ Active # {})
  /\ phase = "released" => (Synced <=> Ahead = {} /\ touches # <<>>)
  /\ phase = "save" => touches = <<>> \/ Synced

TouchInv == TouchTypeOK /\ TablesAreSound /\ LoopInv /\ CopyInv /\ SyncInv

-----------------------------------------------------------------------------

\* Sets of numbers have a least element.
LEMMA LeastExists ==
  ASSUME NEW S \in SUBSET Nat, S # {}
  PROVE  \E n \in S : \A m \in S : n <= m
<1>1. PICK n \in S : \A m \in S : <<m, n>> \notin OpToRel(<, Nat)
  BY NatLessThanWellFounded, WFMin, Zenon
<1>2. \A m \in S : ~(m < n)
  BY <1>1 DEF OpToRel
<1>3. QED
  BY <1>2

\* The table as a sequence.
LEMMA TableFacts ==
  ASSUME TouchTypeOK
  PROVE  /\ Len(touches) \in Nat /\ DOMAIN touches = 1..Len(touches)
         /\ \A s \in DOMAIN touches :
              /\ s \in Nat \ {0} /\ touches[s] \in Touch
              /\ touches[s].id \in TouchIds /\ touches[s].id \in Nat
              /\ touches[s].pos \in Positions /\ touches[s].active \in BOOLEAN
         /\ Len(prev_touches) \in Nat
         /\ DOMAIN prev_touches = 1..Len(prev_touches)
         /\ \A k \in DOMAIN prev_touches :
              /\ prev_touches[k] \in Touch
              /\ prev_touches[k].id \in TouchIds /\ prev_touches[k].id \in Nat
              /\ prev_touches[k].pos \in Positions
         /\ at \in Nat
<1>1. touches \in Seq(Touch) /\ prev_touches \in Seq(Touch) /\ at \in Nat
  BY TouchAssumption DEF TouchTypeOK
<1>2. \A t \in Touch : t.id \in TouchIds /\ t.id \in Nat /\ t.pos \in Positions
                       /\ t.active \in BOOLEAN
  BY TouchAssumption DEF Touch
<1>3. QED
  BY <1>1, <1>2

\* The loops go from one entry of their kind to the next.
LEMMA EntryFacts ==
  ASSUME TouchTypeOK, Ahead # {}
  PROVE  /\ Entry \in Ahead /\ \A r \in Ahead : Entry <= r
         /\ Entry \in DOMAIN touches /\ Entry > at
         /\ touches[Entry].active <=> phase # "released"
<1>1. \A s \in Ahead : s \in DOMAIN touches /\ s \in Nat /\ s > at
                       /\ (touches[s].active <=> phase # "released")
  BY TableFacts DEF Ahead
<1>2. Ahead \in SUBSET Nat
  BY <1>1
<1>3. \E s \in Ahead : \A r \in Ahead : s <= r
  BY <1>2, LeastExists
<1>4. Entry \in Ahead /\ \A r \in Ahead : Entry <= r
  BY <1>3 DEF Entry
<1>5. QED
  BY <1>1, <1>4

\* A message adds an entry, or changes one, and takes none away.
LEMMA ScanTable ==
  ASSUME TouchInv, Scan
  PROVE  /\ touches' \in Seq(Touch) /\ Len(touches') <= MaxTouches
         /\ UniqueIds(touches')
         /\ \A s \in DOMAIN touches' : touches'[s].id < MaxTouches
         /\ \A s \in DOMAIN touches :
              s \in DOMAIN touches' /\ touches'[s].id = touches[s].id
<1>1. /\ touches \in Seq(Touch) /\ Len(touches) <= MaxTouches
      /\ UniqueIds(touches) /\ MaxTouches \in Nat
      /\ \A s \in DOMAIN touches : touches[s].id < MaxTouches
      /\ Len(touches) \in Nat /\ DOMAIN touches = 1..Len(touches)
      /\ \A s \in DOMAIN touches : touches[s] \in Touch
  BY TableFacts, TouchAssumption DEF TouchInv, TouchTypeOK, LoopInv,
                                          TablesAreSound
<1>2. CASE UNCHANGED touches
  BY <1>1, <1>2
<1>3. ASSUME NEW id \in TouchIds, NEW pos \in Positions, id < MaxTouches,
             Detect(id, pos)
      PROVE  /\ touches' \in Seq(Touch) /\ Len(touches') <= MaxTouches
             /\ UniqueIds(touches')
             /\ \A s \in DOMAIN touches' : touches'[s].id < MaxTouches
             /\ \A s \in DOMAIN touches :
                  s \in DOMAIN touches' /\ touches'[s].id = touches[s].id
  <2> DEFINE new == [id |-> id, pos |-> pos, active |-> TRUE]
  <2>1. new \in Touch /\ new.id = id
    BY DEF Touch
  <2> HIDE DEF new
  <2>2. CASE SlotsOf(touches, id) # {}
    <3>1. PICK s \in SlotsOf(touches, id) : TRUE
      BY <2>2
    <3>2. /\ s \in DOMAIN touches /\ touches[s].id = id
          /\ \A r \in SlotsOf(touches, id) : r = s
      BY <1>1, <3>1 DEF SlotsOf, UniqueIds
    <3>3. s <= s
      BY <1>1, <3>2
    <3>4. SlotOf(touches, id) = s
      BY <3>1, <3>2, <3>3 DEF SlotOf
    <3>5. touches' = [touches EXCEPT ![s] = new]
      BY <1>3, <2>2, <3>4 DEF Detect, new
    <3>6. QED
      BY <1>1, <1>3, <2>1, <3>2, <3>5 DEF UniqueIds
  <2>3. CASE SlotsOf(touches, id) = {} /\ Len(touches) < MaxTouches
    <3>1. touches' = Append(touches, new)
      BY <1>3, <2>3 DEF Detect, new
    <3>2. \A s \in DOMAIN touches : touches[s].id # id
      BY <2>3 DEF SlotsOf
    <3>3. /\ touches' \in Seq(Touch) /\ Len(touches') = Len(touches) + 1
          /\ touches'[Len(touches) + 1] = new
          /\ \A s \in 1..Len(touches) : touches'[s] = touches[s]
          /\ DOMAIN touches' = 1..(Len(touches) + 1)
      BY <1>1, <2>1, <3>1
    <3>4. \A s \in DOMAIN touches' :
            s \in DOMAIN touches \/ s = Len(touches) + 1
      BY <1>1, <3>3
    <3>5. QED
      BY <1>1, <1>3, <2>1, <2>3, <3>2, <3>3, <3>4 DEF UniqueIds
  <2>4. CASE SlotsOf(touches, id) = {} /\ ~(Len(touches) < MaxTouches)
    BY <1>2, <1>3, <2>4 DEF Detect
  <2>5. QED
    BY <2>2, <2>3, <2>4
<1>4. ASSUME NEW id \in TouchIds, Release(id)
      PROVE  /\ touches' \in Seq(Touch) /\ Len(touches') <= MaxTouches
             /\ UniqueIds(touches')
             /\ \A s \in DOMAIN touches' : touches'[s].id < MaxTouches
             /\ \A s \in DOMAIN touches :
                  s \in DOMAIN touches' /\ touches'[s].id = touches[s].id
  <2>1. CASE SlotsOf(touches, id) # {}
    <3>1. PICK s \in SlotsOf(touches, id) : TRUE
      BY <2>1
    <3>2. /\ s \in DOMAIN touches /\ touches[s].id = id
          /\ \A r \in SlotsOf(touches, id) : r = s
      BY <1>1, <3>1 DEF SlotsOf, UniqueIds
    <3>3. s <= s
      BY <1>1, <3>2
    <3>4. SlotOf(touches, id) = s
      BY <3>1, <3>2, <3>3 DEF SlotOf
    <3>5. touches' = [touches EXCEPT ![s] =
                       [id |-> touches[s].id, pos |-> touches[s].pos,
                        active |-> FALSE]]
      BY <1>4, <2>1, <3>4 DEF Release
    <3>6. [id |-> touches[s].id, pos |-> touches[s].pos, active |-> FALSE]
            \in Touch
      BY <1>1, <3>2 DEF Touch
    <3>7. QED
      BY <1>1, <3>2, <3>5, <3>6 DEF UniqueIds
  <2>2. CASE SlotsOf(touches, id) = {}
    BY <1>2, <1>4, <2>2 DEF Release
  <2>3. QED
    BY <2>1, <2>2
<1>5. Head(msg_buf) \in Messages
  BY DEF Scan, TouchInv, TouchTypeOK
<1>6. CASE Head(msg_buf) = Other \/ Head(msg_buf).id >= MaxTouches
  BY <1>2, <1>6 DEF Scan
<1>7. CASE ~(Head(msg_buf) = Other \/ Head(msg_buf).id >= MaxTouches)
  <2> DEFINE msg == Head(msg_buf)
  <2>1. msg.id \in TouchIds /\ msg.pos \in Positions \cup {Up}
    BY <1>5, <1>7 DEF Messages
  <2>2. msg.id < MaxTouches
    BY <1>1, <1>7, <2>1, TouchAssumption
  <2>3. IF msg.pos = Up THEN Release(msg.id) ELSE Detect(msg.id, msg.pos)
    BY <1>7 DEF Scan
  <2> HIDE DEF msg
  <2>4. QED
    BY <1>3, <1>4, <2>1, <2>2, <2>3
<1>8. QED
  BY <1>6, <1>7

\* The driver's invariant holds at first.
LEMMA TouchInitInv == TouchInit => TouchInv
<1>1. SUFFICES ASSUME TouchInit PROVE TouchInv
  OBVIOUS
<1>2. TouchTypeOK
  BY <1>1, TouchAssumption DEF TouchInit, TouchTypeOK, FirstField
<1>3. TablesAreSound
  BY <1>1 DEF TouchInit, TablesAreSound, UniqueIds
<1>4. LoopInv
  BY <1>1, TouchAssumption DEF TouchInit, LoopInv, FirstField
<1>5. CopyInv /\ SyncInv
  BY <1>1 DEF TouchInit, CopyInv, SyncInv
<1>6. QED
  BY <1>2, <1>3, <1>4, <1>5 DEF TouchInv

\* Every action of mxt_process_messages keeps the driver's invariant.
LEMMA BeginKeeps ==
  ASSUME TouchInv, NEW batch \in Batches, Begin(batch)
  PROVE  TouchInv'
<1>1. /\ phase = "idle" /\ msg_buf' = batch /\ touches' = prev_touches
      /\ phase' = "scan" /\ event' = NoEvent
      /\ UNCHANGED <<prev_touches, at, field>>
  BY DEF Begin
<1>2. batch \in Seq(Messages)
  BY BatchAssumption DEF Batches
<1>3. TouchTypeOK'
  BY <1>1, <1>2 DEF TouchInv, TouchTypeOK
<1>4. TablesAreSound'
  BY <1>1 DEF TouchInv, TablesAreSound, UniqueIds
<1>5. at = 0 /\ field = FirstField /\ Len(prev_touches) \in Nat
  BY <1>1, TableFacts DEF TouchInv, LoopInv
<1>6. LoopInv'
  BY <1>1, <1>5 DEF TouchInv, LoopInv, FirstField
<1>7. CopyInv' /\ SyncInv'
  BY <1>1 DEF CopyInv, SyncInv, Synced
<1>8. QED
  BY <1>3, <1>4, <1>6, <1>7 DEF TouchInv

LEMMA ScanKeeps == ASSUME TouchInv, Scan PROVE TouchInv'
<1>1. /\ phase = "scan" /\ msg_buf # <<>> /\ msg_buf' = Tail(msg_buf)
      /\ UNCHANGED <<prev_touches, phase, at, field, event>>
  BY DEF Scan
<1>2. /\ touches' \in Seq(Touch) /\ Len(touches') <= MaxTouches
      /\ UniqueIds(touches')
      /\ \A s \in DOMAIN touches' : touches'[s].id < MaxTouches
  BY ScanTable
<1>3. TouchTypeOK'
  BY <1>1, <1>2 DEF TouchInv, TouchTypeOK
<1>4. TablesAreSound'
  BY <1>1, <1>2 DEF TouchInv, TablesAreSound, UniqueIds
<1>5. at = 0 /\ field = FirstField /\ Len(touches') \in Nat
  BY <1>1, <1>2 DEF TouchInv, LoopInv
<1>6. LoopInv'
  BY <1>1, <1>2, <1>5 DEF TouchInv, LoopInv, FirstField
<1>7. CopyInv' /\ SyncInv'
  BY <1>1 DEF TouchInv, CopyInv, SyncInv, Synced
<1>8. QED
  BY <1>3, <1>4, <1>6, <1>7 DEF TouchInv

LEMMA EndScanKeeps == ASSUME TouchInv, EndScan PROVE TouchInv'
<1>1. /\ phase = "scan" /\ phase' = "active" /\ msg_buf = <<>>
      /\ UNCHANGED <<prev_touches, msg_buf, touches, at, field, event>>
  BY DEF EndScan
<1>2. TouchTypeOK' /\ TablesAreSound'
  BY <1>1 DEF TouchInv, TouchTypeOK, TablesAreSound, UniqueIds
<1>3. LoopInv'
  BY <1>1 DEF TouchInv, LoopInv, FirstField
<1>4. Ahead' = Active' /\ ~Synced'
  <2>1. at = 0 /\ ~Synced
    BY <1>1 DEF TouchInv, LoopInv, SyncInv
  <2>2. \A s \in DOMAIN touches : s > 0
    BY TableFacts DEF TouchInv
  <2>3. QED
    BY <1>1, <2>1, <2>2 DEF Ahead, Active, Synced
<1>5. CopyInv' /\ SyncInv'
  BY <1>1, <1>4 DEF CopyInv, SyncInv
<1>6. QED
  BY <1>2, <1>3, <1>5 DEF TouchInv

\* What a report says of the entry the loop is at.
ReportForm(t) ==
  /\ phase \in {"active", "released"} /\ Ahead # {}
  /\ at' = IF field = "key" THEN Entry ELSE at
  /\ UNCHANGED <<prev_touches, msg_buf, touches, phase>>
  /\ \/ /\ field = "slot" /\ field' = "x"
        /\ event' = [code |-> "slot", value |-> t.id, sync |-> FALSE]
     \/ /\ field = "x" /\ field' = "y"
        /\ event' = [code |-> "x", value |-> t.pos, sync |-> FALSE]
     \/ /\ field = "y" /\ field' = "key"
        /\ event' = [code |-> "y", value |-> t.pos, sync |-> FALSE]
     \/ /\ field = "key" /\ field' = FirstField
        /\ event' = [code |-> "key", value |-> t.active, sync |-> IsLast]

EntryForm(t) ==
  /\ Entry \in Ahead /\ \A r \in Ahead : Entry <= r
  /\ Entry \in DOMAIN touches /\ Entry > at /\ Entry \in Nat
  /\ DOMAIN touches = 1..Len(touches) /\ Len(touches) \in Nat
  /\ Len(touches) <= MaxTouches
  /\ t.active <=> phase # "released"
  /\ t.id \in TouchIds /\ t.pos \in Positions /\ t.active \in BOOLEAN

LEMMA ReportEvent ==
  ASSUME TouchInv, Report
  PROVE  /\ ReportForm(touches[Entry]) /\ EntryForm(touches[Entry])
         /\ event' \in Event /\ event' # NoEvent
<1> DEFINE t == touches[Entry]
<1>1. ReportForm(t)
  BY DEF Report, Say, ReportForm
<1>2. EntryForm(t)
  BY EntryFacts, TableFacts DEF TouchInv, LoopInv, Report, EntryForm
<1>3. CASE field = "key"
  <2>1. event' = [code |-> "key", value |-> t.active, sync |-> IsLast]
    BY <1>1, <1>3 DEF ReportForm
  <2>2. t.active \in BOOLEAN /\ IsLast \in BOOLEAN
    BY <1>2 DEF IsLast, EntryForm
  <2>3. event' \in [code : {"key"}, value : BOOLEAN, sync : BOOLEAN]
    BY <2>1, <2>2, Zenon
  <2>4. QED
    BY <1>1, <1>2, <2>3, NoEventAssumption DEF Event
<1>4. CASE field # "key"
  <2>1. \/ event' = [code |-> "slot", value |-> t.id, sync |-> FALSE]
        \/ \E c \in {"x", "y"} :
              event' = [code |-> c, value |-> t.pos, sync |-> FALSE]
    BY <1>1, <1>4 DEF ReportForm
  <2>2. [code |-> "slot", value |-> t.id, sync |-> FALSE]
          \in [code : {"slot"}, value : TouchIds, sync : {FALSE}]
    BY <1>2, Zenon DEF EntryForm
  <2>3. \A c \in {"x", "y"} :
          [code |-> c, value |-> t.pos, sync |-> FALSE]
            \in [code : {"x", "y"}, value : Positions, sync : {FALSE}]
    BY <1>2, Zenon DEF EntryForm
  <2>4. event' \in Event
    BY <2>1, <2>2, <2>3, Zenon DEF Event
  <2>5. QED
    BY <1>1, <1>2, <2>4, NoEventAssumption
<1>5. QED
  BY <1>3, <1>4

LEMMA ReportKeeps == ASSUME TouchInv, Report PROVE TouchInv'
<1> DEFINE t == touches[Entry]
<1>1. /\ phase \in {"active", "released"} /\ Ahead # {}
      /\ at' = IF field = "key" THEN Entry ELSE at
      /\ UNCHANGED <<prev_touches, msg_buf, touches, phase>>
      /\ \/ /\ field = "slot" /\ field' = "x"
            /\ event' = [code |-> "slot", value |-> t.id, sync |-> FALSE]
         \/ /\ field = "x" /\ field' = "y"
            /\ event' = [code |-> "x", value |-> t.pos, sync |-> FALSE]
         \/ /\ field = "y" /\ field' = "key"
            /\ event' = [code |-> "y", value |-> t.pos, sync |-> FALSE]
         \/ /\ field = "key" /\ field' = FirstField
            /\ event' = [code |-> "key", value |-> t.active, sync |-> IsLast]
  BY ReportEvent DEF ReportForm
<1>2. /\ Entry \in Ahead /\ \A r \in Ahead : Entry <= r
      /\ Entry \in DOMAIN touches /\ Entry > at /\ Entry \in Nat
      /\ DOMAIN touches = 1..Len(touches) /\ Len(touches) \in Nat
      /\ Len(touches) <= MaxTouches
      /\ t.active <=> phase # "released"
      /\ t.id \in TouchIds /\ t.pos \in Positions /\ t.active \in BOOLEAN
  BY ReportEvent DEF EntryForm
<1>3. event' \in Event /\ event' # NoEvent
  BY ReportEvent
<1>4. at' \in 0..Len(touches) /\ at' \in 0..MaxTouches
  BY <1>1, <1>2, TouchAssumption DEF TouchInv, TouchTypeOK
<1>5. TouchTypeOK'
  BY <1>1, <1>3, <1>4 DEF TouchInv, TouchTypeOK, FirstField
<1>6. TablesAreSound'
  BY <1>1 DEF TouchInv, TablesAreSound, UniqueIds
<1>7. CASE field # "key"
  <2>1. Ahead' = Ahead /\ Active' = Active /\ Released' = Released
    BY <1>1, <1>7 DEF Ahead, Active, Released
  <2>2. event'.sync = FALSE
    BY <1>1, <1>7
  <2>3. ~Synced'
    BY <2>2 DEF Synced
  <2>4. SyncInv' /\ CopyInv'
    BY <1>1, <2>1, <2>3 DEF SyncInv, CopyInv
  <2>5. LoopInv'
    BY <1>1, <1>4, <1>7, <2>1 DEF TouchInv, LoopInv, FirstField
  <2>6. QED
    BY <1>5, <1>6, <2>4, <2>5 DEF TouchInv
<1>8. CASE field = "key"
  <2>1. Ahead' = Ahead \ {Entry} /\ Active' = Active /\ Released' = Released
    <3>1. \A s \in DOMAIN touches :
            s > Entry /\ (touches[s].active <=> phase # "released")
              <=> s \in Ahead \ {Entry}
      BY <1>2, TableFacts DEF TouchInv, Ahead
    <3>2. QED
      BY <1>1, <1>8, <3>1 DEF Ahead, Active, Released
  <2>2. Synced' <=> IsLast
    <3>1. event'.sync <=> IsLast
      BY <1>1, <1>8
    <3>2. QED
      BY <1>3, <3>1 DEF Synced
  <2>3. Ahead' = {} <=> Ahead = {Entry}
    BY <1>2, <2>1
  <2>4. SyncInv'
    <3>1. phase = "active" => Entry \in Active
      BY <1>2 DEF Active
    <3>2. touches # <<>>
      BY <1>2
    <3>3. QED
      BY <1>1, <2>1, <2>2, <2>3, <3>1, <3>2 DEF SyncInv, IsLast
  <2>5. CopyInv'
    BY <1>1 DEF CopyInv
  <2>6. LoopInv'
    BY <1>1, <1>4, <1>8 DEF TouchInv, LoopInv, FirstField
  <2>7. QED
    BY <1>5, <1>6, <2>4, <2>5, <2>6 DEF TouchInv
<1>9. QED
  BY <1>7, <1>8

LEMMA EndLoopKeeps == ASSUME TouchInv, EndLoop PROVE TouchInv'
<1>1. /\ phase \in {"active", "released"} /\ Ahead = {} /\ at' = 0
      /\ UNCHANGED <<msg_buf, touches, field, event>>
      /\ \/ /\ phase = "active" /\ phase' = "released"
            /\ prev_touches' = prev_touches
         \/ /\ phase = "released" /\ phase' = "save"
            /\ prev_touches' = <<>>
  BY DEF EndLoop
<1>2. /\ DOMAIN touches = 1..Len(touches) /\ Len(touches) \in Nat
      /\ field = FirstField /\ MaxTouches \in Nat
  BY <1>1, TableFacts, TouchAssumption DEF TouchInv, LoopInv
<1>3. TouchTypeOK'
  <2>1. prev_touches \in Seq(Touch) /\ <<>> \in Seq(Touch)
    BY DEF TouchInv, TouchTypeOK
  <2>2. prev_touches' = prev_touches \/ prev_touches' = <<>>
    BY <1>1
  <2>3. prev_touches' \in Seq(Touch)
    BY <2>1, <2>2, Zenon
  <2>4. 0 \in 0..MaxTouches /\ phase' \in {"released", "save"}
    BY <1>1, <1>2
  <2>5. QED
    BY <1>1, <2>3, <2>4 DEF TouchInv, TouchTypeOK
<1>4. TablesAreSound'
  BY <1>1 DEF TouchInv, TablesAreSound, UniqueIds
<1>5. LoopInv'
  BY <1>1, <1>2 DEF TouchInv, LoopInv, FirstField
<1>6. CopyInv'
  BY <1>1, <1>2 DEF CopyInv, Active
<1>7. SyncInv'
  <2>1. Active' = Active /\ Released' = Released /\ Synced' = Synced
    BY <1>1 DEF Active, Released, Synced
  <2>2. CASE phase = "active"
    <3>1. Ahead' = Released
      BY <1>1, <1>2, <2>2 DEF Ahead, Active, Released
    <3>2. Synced <=> Released = {} /\ Active # {}
      BY <1>1, <2>2 DEF TouchInv, SyncInv
    <3>3. touches # <<>> <=> Active # {} \/ Released # {}
      <4>1. touches \in Seq(Touch)
        BY DEF TouchInv, TouchTypeOK
      <4>2. touches # <<>> <=> DOMAIN touches # {}
        BY <4>1, <1>2
      <4>3. DOMAIN touches # {} <=> Active # {} \/ Released # {}
        BY DEF Active, Released
      <4>4. QED
        BY <4>2, <4>3
    <3>4. QED
      BY <1>1, <2>1, <2>2, <3>1, <3>2, <3>3 DEF SyncInv
  <2>3. CASE phase = "released"
    BY <1>1, <2>1, <2>3 DEF TouchInv, SyncInv
  <2>4. QED
    BY <1>1, <2>2, <2>3
<1>8. QED
  BY <1>3, <1>4, <1>5, <1>6, <1>7 DEF TouchInv

LEMMA CopyTouchKeeps == ASSUME TouchInv, CopyTouch PROVE TouchInv'
<1> DEFINE t == touches[Entry]
           n == Len(prev_touches)
<1>1. /\ phase = "save" /\ Ahead # {} /\ at' = Entry
      /\ prev_touches' = Append(prev_touches, t)
      /\ UNCHANGED <<msg_buf, touches, phase, field, event>>
  BY DEF CopyTouch
<1>2. /\ Entry \in Ahead /\ \A r \in Ahead : Entry <= r
      /\ Entry \in DOMAIN touches /\ Entry > at /\ Entry \in Nat
      /\ DOMAIN touches = 1..Len(touches) /\ Len(touches) \in Nat
      /\ \A s \in DOMAIN touches : s \in Nat
      /\ t \in Touch /\ t.active /\ at \in Nat
      /\ n \in Nat /\ DOMAIN prev_touches = 1..n
      /\ prev_touches \in Seq(Touch)
  BY <1>1, EntryFacts, TableFacts DEF TouchInv, TouchTypeOK
<1>3. Entry \in Active
  BY <1>2 DEF Active
<1>4. /\ prev_touches' \in Seq(Touch) /\ Len(prev_touches') = n + 1
      /\ DOMAIN prev_touches' = 1..(n + 1)
      /\ \A k \in 1..n : prev_touches'[k] = prev_touches[k]
      /\ prev_touches'[n + 1] = t
  BY <1>1, <1>2
<1>5. n <= at /\ Len(touches) <= MaxTouches
  BY <1>1 DEF TouchInv, CopyInv, LoopInv
<1>6. TouchTypeOK'
  BY <1>1, <1>2, <1>4, <1>5, TouchAssumption DEF TouchInv, TouchTypeOK
<1>7. TablesAreSound'
  <2>1. \A k \in 1..n : prev_touches[k].id # t.id
    <3>1. SUFFICES ASSUME NEW k \in 1..n, prev_touches[k].id = t.id
                   PROVE  FALSE
      OBVIOUS
    <3>2. PICK s \in Active : s <= at /\ touches[s] = prev_touches[k]
      BY <1>1, <1>2 DEF TouchInv, CopyInv
    <3>3. s = Entry
      BY <1>2, <3>1, <3>2 DEF TouchInv, TablesAreSound, UniqueIds, Active
    <3>4. QED
      BY <1>2, <3>2, <3>3
  <2>2. UniqueIds(prev_touches')
    <3>1. \A k \in 1..(n + 1) : k \in 1..n \/ k = n + 1
      BY <1>2
    <3>2. QED
      BY <1>2, <1>4, <2>1, <3>1 DEF TouchInv, TablesAreSound, UniqueIds
  <2>3. \A k \in DOMAIN prev_touches' :
          prev_touches'[k].active /\ prev_touches'[k].id < MaxTouches
    BY <1>2, <1>4 DEF TouchInv, TablesAreSound
  <2>4. QED
    BY <1>1, <2>2, <2>3 DEF TouchInv, TablesAreSound, UniqueIds
<1>8. LoopInv'
  BY <1>1, <1>2, <1>4, <1>5, TouchAssumption DEF TouchInv, LoopInv, FirstField
<1>9. CopyInv'
  <2>1. Len(prev_touches') <= Entry /\ Active' = Active
    BY <1>1, <1>2, <1>4, <1>5 DEF Active
  <2>2. \A k \in DOMAIN prev_touches' :
          \E s \in Active : s <= Entry /\ touches[s] = prev_touches'[k]
    <3>1. SUFFICES ASSUME NEW k \in 1..(n + 1)
                   PROVE  \E s \in Active :
                            s <= Entry /\ touches[s] = prev_touches'[k]
      BY <1>4
    <3>2. CASE k = n + 1
      BY <1>2, <1>3, <1>4, <3>2
    <3>3. CASE k \in 1..n
      <4>1. PICK s \in Active : s <= at /\ touches[s] = prev_touches[k]
        BY <1>1, <1>2, <3>3 DEF TouchInv, CopyInv
      <4>2. s \in Nat
        BY <1>2 DEF Active
      <4>3. QED
        BY <1>2, <1>4, <3>3, <4>1, <4>2
    <3>4. QED
      BY <1>2, <3>2, <3>3
  <2>3. \A s \in Active :
          s <= Entry => \E k \in DOMAIN prev_touches' :
                          prev_touches'[k] = touches[s]
    <3>1. SUFFICES ASSUME NEW s \in Active, s <= Entry
                   PROVE  \E k \in 1..(n + 1) : prev_touches'[k] = touches[s]
      BY <1>4
    <3>2. s \in DOMAIN touches /\ touches[s].active /\ s \in Nat
      BY <1>2 DEF Active
    <3>3. CASE s = Entry
      BY <1>2, <1>4, <3>3
    <3>4. CASE s # Entry
      <4>1. s <= at
        BY <1>1, <1>2, <3>1, <3>2, <3>4 DEF Ahead
      <4>2. PICK k \in 1..n : prev_touches[k] = touches[s]
        BY <1>1, <1>2, <4>1 DEF TouchInv, CopyInv
      <4>3. QED
        BY <1>2, <1>4, <4>2
    <3>5. QED
      BY <3>3, <3>4
  <2>4. QED
    BY <1>1, <2>1, <2>2, <2>3 DEF CopyInv
<1>10. SyncInv'
  BY <1>1 DEF TouchInv, SyncInv, Synced
<1>11. QED
  BY <1>6, <1>7, <1>8, <1>9, <1>10 DEF TouchInv

LEMMA SaveKeeps == ASSUME TouchInv, Save PROVE TouchInv'
<1>1. /\ phase = "save" /\ Ahead = {} /\ at' = 0
      /\ touches' = <<>> /\ phase' = "idle"
      /\ UNCHANGED <<prev_touches, msg_buf, field, event>>
  BY DEF Save
<1>2. TouchTypeOK'
  BY <1>1, TouchAssumption DEF TouchInv, TouchTypeOK
<1>3. TablesAreSound'
  BY <1>1 DEF TouchInv, TablesAreSound, UniqueIds
<1>4. LoopInv'
  BY <1>1, TouchAssumption DEF TouchInv, LoopInv, FirstField
<1>5. CopyInv' /\ SyncInv'
  BY <1>1 DEF CopyInv, SyncInv
<1>6. QED
  BY <1>2, <1>3, <1>4, <1>5 DEF TouchInv

LEMMA TouchInvKept == TouchInv /\ [TouchNext]_touchVars => TouchInv'
<1>1. SUFFICES ASSUME TouchInv, [TouchNext]_touchVars PROVE TouchInv'
  OBVIOUS
<1>2. CASE TouchNext
  BY <1>1, <1>2, BeginKeeps, ScanKeeps, EndScanKeeps, ReportKeeps, EndLoopKeeps,
     CopyTouchKeeps, SaveKeeps DEF TouchNext, TouchStep
<1>3. CASE UNCHANGED touchVars
  <2>1. UNCHANGED <<prev_touches, msg_buf, touches, phase, at, field, event>>
    BY <1>3 DEF touchVars
  <2>2. UNCHANGED <<Ahead, Active, Released, Synced>>
    BY <2>1 DEF Ahead, Active, Released, Synced
  <2>3. TouchTypeOK' /\ TablesAreSound'
    BY <1>1, <2>1 DEF TouchInv, TouchTypeOK, TablesAreSound, UniqueIds
  <2>4. LoopInv' /\ CopyInv' /\ SyncInv'
    BY <1>1, <2>1, <2>2 DEF TouchInv, LoopInv, CopyInv, SyncInv, FirstField
  <2>5. QED
    BY <2>3, <2>4 DEF TouchInv
<1>4. QED
  BY <1>1, <1>2, <1>3

\* The driver's invariant holds of all its behaviours.
LEMMA TouchInvariance == TouchSpec => []TouchInv
<1>1. TouchInit => TouchInv
  BY TouchInitInv
<1>2. TouchInv /\ [TouchNext]_touchVars => TouchInv'
  BY TouchInvKept
<1>3. QED
  BY <1>1, <1>2, PTL DEF TouchSpec

\* However the batches mix presses, moves and releases, an id has one entry, the
\* pressed touches alone are carried over and the arrays are not overrun.
THEOREM TablesStaySound == TouchSpec => []TablesAreSound
  BY TouchInvariance, PTL DEF TouchInv

\* A frame's only synchronising event is its last one.
THEOREM FrameEndsWithSync == TouchSpec => SyncEndsFrame
<1>1. TouchInv /\ [TouchNext]_touchVars =>
        [/\ Report => event = NoEvent \/ ~event.sync
         /\ Save => touches = <<>> \/ (event # NoEvent /\ event.sync)]_touchVars
  <2>1. TouchInv /\ Report => event = NoEvent \/ ~event.sync
    BY DEF TouchInv, SyncInv, Synced, Report
  <2>2. TouchInv /\ Save => touches = <<>> \/ (event # NoEvent /\ event.sync)
    BY DEF TouchInv, SyncInv, Synced, Save
  <2>3. QED
    BY <2>1, <2>2
<1>2. QED
  BY <1>1, TouchInvariance, PTL DEF TouchSpec, SyncEndsFrame
=============================================================================
