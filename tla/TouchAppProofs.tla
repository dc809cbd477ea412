--------------------------- MODULE TouchAppProofs ---------------------------
(***************************************************************************)
(* For every number of touches and slots, every batch and every point at   *)
(* which the main thread cuts in: a press becomes visible whole, and       *)
(* between two batches the application has what the driver tracks.         *)
(*                                                                         *)
(* The invariant follows a touch from the table through the events of the  *)
(* loop (EntryInv), the callback's stores (StoringInv) and the points that *)
(* the loop is past (FrameInv) to the state between batches (CarriedInv).  *)
(***************************************************************************)
EXTENDS TouchApp, MxtTouchProofs

\* The callback has still to store the touch the loop has just passed.
Storing == todo # <<>> /\ event.code = "key"

\* What is left of a callback belongs to the event it was called for.
TodoInv ==
  todo # <<>> =>
    /\ phase \in {"active", "released"} /\ event # NoEvent
    /\ event.code # "key" => todo = <<event.code>>
    /\ event.code = "key" =>
         /\ at > 0 /\ at \in DOMAIN touches
         /\ touches[at].active <=> phase = "active"
         /\ IF phase = "active"
              THEN todo \in {PressStores, <<"point_y", "press">>, <<"press">>}
              ELSE todo = <<"release">>

\* The callback knows the slot and the place of an entry.
SlotIs(s) == current_slot = touches[s].id
XIs(s)    == has.x /\ pending.x = touches[s].pos
YIs(s)    == has.y /\ pending.y = touches[s].pos

\* An event whose value the callback has not stored yet.
Comes(code, value) ==
  todo # <<>> /\ event.code = code /\ event.value = value

\* What the callbacks have stored of the entry the loop is at.
EntryInv ==
  /\ field = "x" /\ MaxTouches > 1 =>
       \/ todo = <<>> /\ SlotIs(Entry)
       \/ Comes("slot", touches[Entry].id)
  /\ field = "y" =>
       /\ SlotIs(Entry)
       /\ (todo = <<>> /\ XIs(Entry)) \/ Comes("x", touches[Entry].pos)
  /\ field = "key" =>
       /\ SlotIs(Entry) /\ XIs(Entry)
       /\ (todo = <<>> /\ YIs(Entry)) \/ Comes("y", touches[Entry].pos)
  /\ field = FirstField => todo = <<>> \/ event.code = "key"

\* What the callback has stored of the entry the loop has just passed.
StoringInv ==
  Storing =>
    /\ field = FirstField /\ SlotIs(at) /\ XIs(at) /\ YIs(at)
    /\ phase = "active" /\ todo # PressStores =>
         points[current_slot].x = touches[at].pos
    /\ phase = "active" /\ todo = <<"press">> =>
         points[current_slot].y = touches[at].pos

PendingInv ==
  /\ MaxTouches = 1 => current_slot = 0
  /\ phase \in {"active", "released"} => EntryInv
  /\ StoringInv

\* The application has stored the touch of an entry.
Told(s) == s <= at /\ ~(Storing /\ s = at)

\* The point of an entry's touch is stored as the table has it.
Held(s) == LET p == points[touches[s].id]
           IN p.active /\ p.x = touches[s].pos /\ p.y = touches[s].pos

\* While a frame is reported the points follow the table.
FrameInv ==
  phase \in {"active", "released", "save"} =>
    /\ \A s \in Active : phase # "active" \/ Told(s) => Held(s)
    /\ \A s \in Released :
         phase = "save" \/ (phase = "released" /\ Told(s))
           => ~points[touches[s].id].active
    /\ \A i \in Slots : (\A s \in DOMAIN touches : touches[s].id # i)
                          => ~points[i].active

\* Until then they are those of the last frame.
CarriedInv ==
  phase \in {"idle", "scan"} =>
    /\ ActiveSlots = TrackedIds
    /\ \A s \in DOMAIN prev_touches :
         LET p == points[prev_touches[s].id]
         IN p.x = prev_touches[s].pos /\ p.y = prev_touches[s].pos

\* No touch of the last frame is lost from the table.
ScanInv ==
  phase = "scan" =>
    \A k \in DOMAIN prev_touches :
      \E s \in DOMAIN touches : touches[s].id = prev_touches[k].id

PointsInv == FrameInv /\ CarriedInv /\ ScanInv

AppInv == AppTypeOK /\ TodoInv /\ PendingInv /\ PointsInv

-----------------------------------------------------------------------------

\* Every step of the application and the driver is a step of the driver or
\* leaves its variables alone.
LEMMA DriverSteps == [Next]_allVars => [TouchNext]_touchVars
  BY DEF Next, allVars, DriverStep, ReportToApp, CallbackStore,
         UpdateIndicators, HoldButton, TouchNext, TouchStep

\* What holds of the driver alone holds of it with the application's callback
\* in its event calls and the main loop beside it.
THEOREM AppRunsDriver == Spec => TouchSpec
<1>1. Init => TouchInit
  BY DEF Init
<1>2. QED
  BY <1>1, DriverSteps, PTL DEF Spec, TouchSpec

LEMMA DriverInvariance == Spec => []TouchInv
  BY AppRunsDriver, TouchInvariance

\* Every touch has a point of its own.
LEMMA SlotFacts ==
  ASSUME TouchInv
  PROVE  /\ MaxTouches \in Nat \ {0} /\ AppTouches \in Nat \ {0}
         /\ Slots = 0..(AppTouches - 1)
         /\ \A s \in DOMAIN touches :
              touches[s].id \in Slots /\ touches[s].id < MaxTouches
         /\ \A s \in DOMAIN prev_touches : prev_touches[s].id \in Slots
         /\ \A r, s \in DOMAIN touches : touches[r].id = touches[s].id => r = s
<1>1. /\ \A s \in DOMAIN touches :
           touches[s].id \in Nat /\ touches[s].id < MaxTouches
      /\ \A s \in DOMAIN prev_touches :
           prev_touches[s].id \in Nat /\ prev_touches[s].id < MaxTouches
      /\ UniqueIds(touches)
  BY TableFacts DEF TouchInv, TablesAreSound
<1>2. QED
  BY <1>1, TouchAssumption, SlotAssumption DEF Slots, UniqueIds

\* The application's invariant holds at first.
LEMMA AppInitInv == Init => AppInv
<1>1. SUFFICES ASSUME Init PROVE AppInv
  OBVIOUS
<1>2. TouchInit /\ AppInit
  BY <1>1 DEF Init
<1>3. AppTypeOK
  <2>1. 0 \in Slots /\ 0 \in 0..AppTouches
    BY SlotAssumption DEF Slots
  <2>2. QED
    BY <1>2, <2>1, OriginAssumption DEF AppInit, AppTypeOK
<1>4. TodoInv /\ PendingInv
  BY <1>2 DEF TouchInit, AppInit, TodoInv, PendingInv, StoringInv, Storing
<1>5. PointsInv
  <2>1. phase = "idle" /\ prev_touches = <<>>
    BY <1>2 DEF TouchInit
  <2>2. \A s \in Slots : ~points[s].active
    BY <1>2 DEF AppInit
  <2>3. DOMAIN prev_touches = {}
    BY <2>1
  <2>4. ActiveSlots = {} /\ TrackedIds = {}
    BY <2>2, <2>3 DEF ActiveSlots, TrackedIds
  <2>5. QED
    BY <2>1, <2>3, <2>4 DEF PointsInv, FrameInv, CarriedInv, ScanInv
<1>6. QED
  BY <1>3, <1>4, <1>5 DEF AppInv

\* What the driver does between two callbacks leaves the stores as they are.
LEMMA QuietSteps ==
  ASSUME AppInv, todo = <<>>, UNCHANGED appVars
  PROVE  /\ UNCHANGED <<points, current_slot, pending, has, todo, ActiveSlots>>
         /\ AppTypeOK' /\ TodoInv' /\ StoringInv'
         /\ (MaxTouches = 1 => current_slot = 0)'
         /\ ~Storing /\ ~Storing'
<1>1. UNCHANGED <<points, current_slot, pending, has, todo>>
  BY DEF appVars, stateVars
<1>2. UNCHANGED <<shown, hold_mode, max_touches>>
  BY DEF appVars, screenVars
<1>3. UNCHANGED ActiveSlots
  BY <1>1 DEF ActiveSlots
<1>4. AppTypeOK'
  BY <1>1, <1>2 DEF AppInv, AppTypeOK
<1>5. TodoInv' /\ ~Storing /\ ~Storing'
  BY <1>1 DEF TodoInv, Storing
<1>6. StoringInv' /\ (MaxTouches = 1 => current_slot = 0)'
  BY <1>1, <1>5 DEF AppInv, PendingInv, StoringInv
<1>7. QED
  BY <1>1, <1>3, <1>4, <1>5, <1>6

LEMMA AppBegin ==
  ASSUME TouchInv, AppInv, todo = <<>>, UNCHANGED appVars,
         NEW batch \in Batches, Begin(batch)
  PROVE  AppInv'
<1>1. /\ phase = "idle" /\ phase' = "scan" /\ touches' = prev_touches
      /\ UNCHANGED prev_touches
  BY DEF Begin
<1>2. AppTypeOK' /\ TodoInv' /\ PendingInv'
  BY <1>1, QuietSteps DEF PendingInv
<1>3. CarriedInv'
  BY <1>1, QuietSteps DEF AppInv, PointsInv, CarriedInv, TrackedIds
<1>4. FrameInv' /\ ScanInv'
  BY <1>1 DEF FrameInv, ScanInv
<1>5. QED
  BY <1>2, <1>3, <1>4 DEF AppInv, PointsInv

LEMMA AppScan ==
  ASSUME TouchInv, AppInv, todo = <<>>, UNCHANGED appVars, Scan
  PROVE  AppInv'
<1>1. phase = "scan" /\ UNCHANGED <<phase, prev_touches>>
  BY DEF Scan
<1>2. AppTypeOK' /\ TodoInv' /\ PendingInv'
  BY <1>1, QuietSteps DEF PendingInv
<1>3. CarriedInv'
  BY <1>1, QuietSteps DEF AppInv, PointsInv, CarriedInv, TrackedIds
<1>4. FrameInv'
  BY <1>1 DEF FrameInv
<1>5. ScanInv'
  BY <1>1, ScanTable DEF AppInv, PointsInv, ScanInv
<1>6. QED
  BY <1>2, <1>3, <1>4, <1>5 DEF AppInv, PointsInv

LEMMA AppEndScan ==
  ASSUME TouchInv, AppInv, todo = <<>>, UNCHANGED appVars, EndScan
  PROVE  AppInv'
<1>1. /\ phase = "scan" /\ phase' = "active"
      /\ UNCHANGED <<prev_touches, touches, field, at>>
  BY DEF EndScan
<1>2. at = 0 /\ field = FirstField /\ (field # "slot" => MaxTouches = 1)
  BY <1>1, TouchAssumption DEF TouchInv, LoopInv, FirstField
<1>3. PendingInv'
  <2>1. EntryInv'
    BY <1>1, <1>2, QuietSteps DEF EntryInv, FirstField
  <2>2. QED
    BY <2>1, QuietSteps DEF PendingInv
<1>4. FrameInv'
  <2>1. \A s \in DOMAIN touches : ~Told(s)'
    BY <1>1, <1>2, TableFacts DEF TouchInv, Told
  <2>2. \A s \in Active' \cup Released' : s \in DOMAIN touches
    BY <1>1 DEF Active, Released
  <2>3. ASSUME NEW i \in Slots, \A s \in DOMAIN touches : touches[s].id # i
        PROVE  ~points[i].active
    <3>1. i \notin TrackedIds
      BY <1>1, <2>3 DEF AppInv, PointsInv, ScanInv, TrackedIds
    <3>2. i \notin ActiveSlots
      BY <1>1, <3>1 DEF AppInv, PointsInv, CarriedInv
    <3>3. QED
      BY <3>2 DEF ActiveSlots
  <2>4. QED
    BY <1>1, <2>1, <2>2, <2>3, QuietSteps DEF FrameInv
<1>5. CarriedInv' /\ ScanInv'
  BY <1>1 DEF CarriedInv, ScanInv
<1>6. QED
  BY <1>3, <1>4, <1>5, QuietSteps DEF AppInv, PointsInv

LEMMA AppEndLoop ==
  ASSUME TouchInv, AppInv, todo = <<>>, UNCHANGED appVars, EndLoop
  PROVE  AppInv'
<1>1. /\ phase \in {"active", "released"} /\ Ahead = {} /\ at' = 0
      /\ UNCHANGED <<touches, field>>
      /\ phase = "active" => phase' = "released"
      /\ phase = "released" => phase' = "save"
  BY DEF EndLoop
<1>2. field = FirstField /\ (field # "slot" => MaxTouches = 1)
  BY <1>1, TouchAssumption DEF TouchInv, LoopInv, FirstField
<1>3. PendingInv'
  <2>1. EntryInv'
    BY <1>1, <1>2, QuietSteps DEF EntryInv, FirstField
  <2>2. QED
    BY <2>1, QuietSteps DEF PendingInv
<1>4. /\ Active' = Active /\ Released' = Released
      /\ \A s : Held(s)' <=> Held(s)
      /\ \A s \in DOMAIN touches : s \in Nat /\ s > 0
  BY <1>1, QuietSteps, TableFacts DEF TouchInv, Active, Released, Held
<1>5. \A s \in DOMAIN touches :
        (touches[s].active <=> phase = "active") => Told(s)
  <2>1. SUFFICES ASSUME NEW s \in DOMAIN touches,
                        touches[s].active <=> phase = "active"
                 PROVE  s <= at
    BY QuietSteps DEF Told
  <2>2. s \notin Ahead
    BY <1>1
  <2>3. at \in Nat /\ s \in Nat
    BY <1>4, TableFacts DEF TouchInv
  <2>4. QED
    BY <1>1, <2>1, <2>2, <2>3 DEF Ahead
<1>6. \A s \in Active : Held(s)
  <2>1. \A s \in Active : phase = "active" => Told(s)
    BY <1>5 DEF Active
  <2>2. QED
    BY <1>1, <2>1 DEF AppInv, PointsInv, FrameInv
<1>7. \A s \in Released : phase = "released" => ~points[touches[s].id].active
  <2>1. \A s \in Released : phase = "released" => Told(s)
    BY <1>1, <1>5 DEF Active, Released
  <2>2. QED
    BY <1>1, <2>1 DEF AppInv, PointsInv, FrameInv
<1>8. FrameInv'
  <2>1. \A s \in Released : ~Told(s)'
    BY <1>1, <1>4 DEF Told, Released
  <2>2. \A i \in Slots : (\A s \in DOMAIN touches : touches[s].id # i)
                           => ~points[i].active
    BY <1>1 DEF AppInv, PointsInv, FrameInv
  <2>3. QED
    BY <1>1, <1>4, <1>6, <1>7, <2>1, <2>2, QuietSteps DEF FrameInv
<1>9. CarriedInv' /\ ScanInv'
  BY <1>1 DEF CarriedInv, ScanInv
<1>10. QED
  BY <1>3, <1>8, <1>9, QuietSteps DEF AppInv, PointsInv

LEMMA AppCopyTouch ==
  ASSUME TouchInv, AppInv, todo = <<>>, UNCHANGED appVars, CopyTouch
  PROVE  AppInv'
<1>1. phase = "save" /\ UNCHANGED <<touches, phase>>
  BY DEF CopyTouch
<1>2. AppTypeOK' /\ TodoInv' /\ PendingInv'
  BY <1>1, QuietSteps DEF PendingInv
<1>3. /\ Active' = Active /\ Released' = Released
      /\ \A s : Held(s)' <=> Held(s)
  BY <1>1, QuietSteps DEF Active, Released, Held
<1>4. FrameInv'
  BY <1>1, <1>3, QuietSteps DEF AppInv, PointsInv, FrameInv
<1>5. CarriedInv' /\ ScanInv'
  BY <1>1 DEF CarriedInv, ScanInv
<1>6. QED
  BY <1>2, <1>4, <1>5 DEF AppInv, PointsInv

LEMMA AppSave ==
  ASSUME TouchInv, AppInv, todo = <<>>, UNCHANGED appVars, Save
  PROVE  AppInv'
<1>1. phase = "save" /\ Ahead = {} /\ phase' = "idle" /\ UNCHANGED prev_touches
  BY DEF Save
<1>2. AppTypeOK' /\ TodoInv' /\ PendingInv'
  BY <1>1, QuietSteps DEF PendingInv
<1>3. /\ \A s \in Active : Held(s)
      /\ \A s \in Released : ~points[touches[s].id].active
      /\ \A i \in Slots : (\A s \in DOMAIN touches : touches[s].id # i)
                            => ~points[i].active
  BY <1>1 DEF AppInv, PointsInv, FrameInv
<1>4. \A s \in Active : \E k \in DOMAIN prev_touches :
                          prev_touches[k] = touches[s]
  <2>1. \A s \in Active : s <= at
    BY <1>1, TableFacts DEF TouchInv, Ahead, Active
  <2>2. QED
    BY <1>1, <2>1 DEF TouchInv, CopyInv
<1>5. \A k \in DOMAIN prev_touches :
        \E s \in Active : touches[s] = prev_touches[k]
  BY <1>1 DEF TouchInv, CopyInv
<1>6. \A k \in DOMAIN prev_touches :
        LET p == points[prev_touches[k].id]
        IN p.active /\ p.x = prev_touches[k].pos /\ p.y = prev_touches[k].pos
  BY <1>3, <1>5 DEF Held
<1>7. ActiveSlots = TrackedIds
  <2>1. ASSUME NEW i \in ActiveSlots PROVE i \in TrackedIds
    <3>1. i \in Slots /\ points[i].active
      BY DEF ActiveSlots
    <3>2. PICK s \in DOMAIN touches : touches[s].id = i
      BY <1>3, <3>1
    <3>3. s \in Active
      BY <1>3, <3>1, <3>2 DEF Released
    <3>4. QED
      BY <1>4, <3>2, <3>3 DEF TrackedIds
  <2>2. ASSUME NEW i \in TrackedIds PROVE i \in ActiveSlots
    <3>1. PICK k \in DOMAIN prev_touches : i = prev_touches[k].id
      BY DEF TrackedIds
    <3>2. QED
      BY <1>6, <3>1, SlotFacts DEF ActiveSlots
  <2>3. QED
    BY <2>1, <2>2
<1>8. CarriedInv'
  BY <1>1, <1>6, <1>7, QuietSteps DEF CarriedInv, TrackedIds
<1>9. FrameInv' /\ ScanInv'
  BY <1>1 DEF FrameInv, ScanInv
<1>10. QED
  BY <1>2, <1>8, <1>9 DEF AppInv, PointsInv

\* A call of input_report_* makes a callback of the touch it is about.
LEMMA AppReport == ASSUME TouchInv, AppInv, ReportToApp PROVE AppInv'
<1> DEFINE t == touches[Entry]
<1>1. /\ phase \in {"active", "released"} /\ Ahead # {}
      /\ at' = IF field = "key" THEN Entry ELSE at
      /\ UNCHANGED <<prev_touches, msg_buf, touches, phase>>
      /\ \/ /\ field = "slot" /\ field' = "x"
            /\ event' = [code |-> "slot", value |-> t.id, sync |-> FALSE]
         \/ /\ field = "x" /\ field' = "y"
            /\ event' = [code |-> "x", value |-> t.pos, sync |-> FALSE]
         \/ /\ field = "y" /\ field' = "key"
            /\ event' = [code |-> "y", value |-> t.pos, sync |-> FALSE]
         \/ /\ field = "key" /\ field' = FirstField
            /\ event' = [code |-> "key", value |-> t.active, sync |-> IsLast]
  BY ReportEvent DEF ReportToApp, ReportForm
<1>2. /\ todo = <<>> /\ todo' = Stores(event') /\ event' # NoEvent
      /\ UNCHANGED <<points, current_slot, pending, has>>
      /\ UNCHANGED <<shown, hold_mode, max_touches>>
  BY ReportEvent DEF ReportToApp, stateVars, screenVars
<1>3. /\ Entry \in Ahead /\ \A r \in Ahead : Entry <= r
      /\ Entry \in DOMAIN touches /\ Entry > at /\ Entry \in Nat
      /\ t.active <=> phase # "released"
      /\ at \in Nat /\ \A s \in DOMAIN touches : s \in Nat
      /\ t.id \in Nat /\ t.id < MaxTouches
  BY ReportEvent, TableFacts, SlotFacts DEF TouchInv, ReportToApp, EntryForm
<1>4. AppTypeOK'
  BY <1>2 DEF AppInv, AppTypeOK
<1>5. CarriedInv' /\ ScanInv'
  BY <1>1 DEF CarriedInv, ScanInv
<1>6. /\ ~Storing /\ Active' = Active /\ Released' = Released
      /\ \A s : Held(s)' <=> Held(s)
  BY <1>1, <1>2 DEF Storing, Active, Released, Held
<1>7. MaxTouches = 1 => current_slot = 0
  BY DEF AppInv, PendingInv
<1>8. CASE field # "key"
  <2>1. /\ event'.code # "key" /\ event'.code \in {"slot", "x", "y"}
        /\ todo' = <<event'.code>> /\ todo' # <<>>
    BY <1>1, <1>2, <1>8 DEF Stores
  <2>2. ~Storing' /\ Ahead' = Ahead /\ Entry' = Entry
    BY <1>1, <1>8, <2>1 DEF Storing, Ahead, Entry
  <2>3. TodoInv'
    BY <1>1, <1>2, <2>1 DEF TodoInv
  <2>4. EntryInv
    BY <1>1 DEF AppInv, PendingInv
  <2>5. SlotIs(Entry) \/ field = "slot"
    <3>1. CASE field = "x" /\ MaxTouches = 1
      BY <1>3, <1>7, <3>1, SlotFacts DEF SlotIs
    <3>2. CASE ~(field = "x" /\ MaxTouches = 1)
      BY <1>1, <1>2, <1>8, <2>4, <3>2, SlotFacts DEF EntryInv, Comes
    <3>3. QED
      BY <3>1, <3>2
  <2>6. /\ SlotIs(Entry)' <=> SlotIs(Entry)
        /\ XIs(Entry)' <=> XIs(Entry)
    BY <1>1, <1>2, <2>2 DEF SlotIs, XIs
  <2>7. EntryInv'
    <3>1. field = "y" => XIs(Entry)
      BY <1>2, <2>4 DEF EntryInv, Comes
    <3>2. /\ field = "slot" => Comes("slot", touches[Entry].id)'
          /\ field = "x" => Comes("x", touches[Entry].pos)'
          /\ field = "y" => Comes("y", touches[Entry].pos)'
      BY <1>1, <2>1, <2>2 DEF Comes
    <3>3. field' # FirstField
      BY <1>1, <1>8 DEF FirstField, TouchInv, LoopInv
    <3>4. QED
      BY <1>1, <1>8, <2>5, <2>6, <3>1, <3>2, <3>3 DEF EntryInv
  <2>8. PendingInv'
    BY <1>2, <1>7, <2>2, <2>7 DEF PendingInv, StoringInv
  <2>9. \A s : Told(s)' <=> Told(s)
    BY <1>1, <1>6, <1>8, <2>2 DEF Told
  <2>10. FrameInv'
    BY <1>1, <1>2, <1>6, <2>9 DEF AppInv, PointsInv, FrameInv
  <2>11. QED
    BY <1>4, <1>5, <2>3, <2>8, <2>10 DEF AppInv, PointsInv
<1>9. CASE field = "key"
  <2>1. /\ event'.code = "key" /\ event'.value = t.active /\ at' = Entry
        /\ field' = FirstField
    BY <1>1, <1>9
  <2>2. /\ phase = "active" => todo' = PressStores
        /\ phase = "released" => todo' = <<"release">>
    BY <1>1, <1>2, <1>3, <2>1 DEF Stores
  <2>3. todo' # <<>> /\ Storing'
    BY <1>1, <2>1, <2>2 DEF PressStores, Storing
  <2>4. TodoInv'
    BY <1>1, <1>2, <1>3, <2>1, <2>2, <2>3 DEF TodoInv
  <2>5. SlotIs(Entry) /\ XIs(Entry) /\ YIs(Entry)
    BY <1>1, <1>2, <1>9 DEF AppInv, PendingInv, EntryInv, Comes
  <2>6. SlotIs(at)' /\ XIs(at)' /\ YIs(at)'
    BY <1>1, <1>2, <2>1, <2>5 DEF SlotIs, XIs, YIs
  <2>7. StoringInv'
    BY <1>1, <2>1, <2>2, <2>6 DEF StoringInv, PressStores
  <2>8. EntryInv'
    BY <2>1 DEF EntryInv, FirstField
  <2>9. PendingInv'
    BY <1>2, <1>7, <2>7, <2>8 DEF PendingInv
  <2>10. \A s \in DOMAIN touches :
           (touches[s].active <=> phase = "active") /\ Told(s)' => Told(s)
    <3>1. SUFFICES ASSUME NEW s \in DOMAIN touches, s <= Entry, s # Entry,
                          touches[s].active <=> phase = "active"
                   PROVE  s <= at
      BY <1>6, <2>1, <2>3 DEF Told
    <3>2. s \notin Ahead
      BY <1>3, <3>1
    <3>3. QED
      BY <1>1, <1>3, <3>1, <3>2 DEF Ahead
  <2>11. FrameInv'
    <3>1. \A s \in Active : phase = "active" /\ Told(s)' => Told(s)
      BY <2>10 DEF Active
    <3>2. \A s \in Released : phase = "released" /\ Told(s)' => Told(s)
      BY <2>10 DEF Active, Released
    <3>3. QED
      BY <1>1, <1>2, <1>6, <3>1, <3>2 DEF AppInv, PointsInv, FrameInv
  <2>12. QED
    BY <1>4, <1>5, <2>4, <2>9, <2>11 DEF AppInv, PointsInv
<1>10. QED
  BY <1>8, <1>9

\* What is left of a callback when it has made a store.
LEMMA Rests ==
  /\ \A c : Head(<<c>>) = c /\ Tail(<<c>>) = <<>>
  /\ Head(PressStores) = "point_x"
  /\ Tail(PressStores) = <<"point_y", "press">>
  /\ Head(<<"point_y", "press">>) = "point_y"
  /\ Tail(<<"point_y", "press">>) = <<"press">>
  /\ <<"press">> # PressStores /\ <<"point_y", "press">> # PressStores
  /\ <<"point_y", "press">> # <<"press">> /\ <<"release">> # <<"press">>
  /\ <<"release">> # PressStores /\ <<"point_y", "press">> # <<"release">>
<1>1. \A c : Head(<<c>>) = c /\ Tail(<<c>>) = <<>>
  OBVIOUS
<1>2. /\ Head(PressStores) = "point_x"
      /\ Tail(PressStores) = <<"point_y", "press">>
  BY DEF PressStores
<1>3. /\ Head(<<"point_y", "press">>) = "point_y"
      /\ Tail(<<"point_y", "press">>) = <<"press">>
  OBVIOUS
<1>4. /\ <<"press">> # PressStores /\ <<"point_y", "press">> # PressStores
      /\ <<"point_y", "press">> # <<"press">> /\ <<"release">> # <<"press">>
      /\ <<"release">> # PressStores /\ <<"point_y", "press">> # <<"release">>
  BY DEF PressStores
<1>5. QED
  BY <1>1, <1>2, <1>3, <1>4

\* A store of the running callback.
LEMMA AppStore == ASSUME TouchInv, AppInv, CallbackStore PROVE AppInv'
<1> DEFINE t == touches[at]
           cs == current_slot
<1>1. /\ todo # <<>> /\ Store(Head(todo)) /\ todo' = Tail(todo)
      /\ UNCHANGED <<prev_touches, msg_buf, touches, phase, at, field, event>>
      /\ UNCHANGED <<shown, hold_mode, max_touches>>
  BY DEF CallbackStore, touchVars, screenVars
<1>2. /\ phase \in {"active", "released"} /\ event # NoEvent
      /\ event.code # "key" => todo = <<event.code>>
      /\ event.code = "key" =>
           /\ at > 0 /\ at \in DOMAIN touches
           /\ t.active <=> phase = "active"
           /\ IF phase = "active"
                THEN todo \in {PressStores, <<"point_y", "press">>, <<"press">>}
                ELSE todo = <<"release">>
  BY <1>1 DEF AppInv, TodoInv
<1>3. /\ EntryInv /\ StoringInv /\ (MaxTouches = 1 => cs = 0)
      /\ FrameInv
  BY <1>2 DEF AppInv, PendingInv, PointsInv
<1>4. UNCHANGED <<Ahead, Entry, Active, Released>>
  BY <1>1 DEF Ahead, Entry, Active, Released
<1>5. CarriedInv' /\ ScanInv'
  BY <1>1, <1>2 DEF CarriedInv, ScanInv
<1>6. /\ points \in [Slots -> [x : Positions, y : Positions, active : BOOLEAN]]
      /\ cs \in Slots /\ pending \in [x : Positions, y : Positions]
      /\ has \in [x : BOOLEAN, y : BOOLEAN]
      /\ shown \in [Slots -> [x : Positions, y : Positions] \cup {Hidden}]
      /\ hold_mode \in BOOLEAN /\ max_touches \in 0..AppTouches
  BY DEF AppInv, AppTypeOK
<1>7. CASE event.code # "key"
  <2>1. Head(todo) = event.code /\ todo' = <<>>
    <3>1. todo = <<event.code>>
      BY <1>1, <1>2, <1>7
    <3>2. QED
      BY <1>1, <3>1, Rests
  <2>2. ~Storing /\ ~Storing'
    BY <1>1, <1>7 DEF Storing
  <2>3. TodoInv' /\ StoringInv'
    BY <2>1, <2>2 DEF TodoInv, StoringInv
  <2>4. /\ Entry \in DOMAIN touches
        /\ touches[Entry].id \in Slots /\ touches[Entry].id < MaxTouches
        /\ touches[Entry].id \in Nat /\ touches[Entry].pos \in Positions
    <3>1. field # FirstField
      BY <1>1, <1>3, <1>7 DEF EntryInv
    <3>2. Ahead # {}
      BY <3>1 DEF TouchInv, LoopInv
    <3>3. QED
      BY <3>2, EntryFacts, SlotFacts, TableFacts DEF TouchInv
  <2>5. /\ \/ field = "x" /\ event.code = "slot"
           \/ field = "y" /\ event.code = "x"
           \/ field = "key" /\ event.code = "y"
        /\ field = "x" => MaxTouches > 1 /\ event.value = touches[Entry].id
        /\ field = "y" => event.value = touches[Entry].pos
        /\ field = "key" => event.value = touches[Entry].pos
    <3>1. field \in {"slot", "x", "y", "key"} /\ field # FirstField
      BY <1>1, <1>3, <1>7 DEF EntryInv, TouchInv, TouchTypeOK
    <3>2. field \in {"x", "y", "key"} /\ (field = "x" => MaxTouches > 1)
      BY <3>1 DEF FirstField, TouchInv, LoopInv
    <3>3. QED
      BY <1>1, <1>3, <3>2 DEF EntryInv, Comes
  <2>6. UNCHANGED points /\ \A s : Held(s)' <=> Held(s)
    BY <1>1, <2>1, <2>5 DEF Store, Held
  <2>7. FrameInv'
    <3>1. \A s : Told(s)' <=> Told(s)
      BY <1>1, <2>2 DEF Told
    <3>2. QED
      BY <1>1, <1>3, <1>4, <2>6, <3>1 DEF FrameInv
  <2>8. CASE field = "x"
    <3>1. /\ current_slot' = event.value /\ has' = [x |-> FALSE, y |-> FALSE]
          /\ UNCHANGED pending
      BY <1>1, <2>1, <2>4, <2>5, <2>8 DEF Store
    <3>2. SlotIs(Entry)'
      BY <1>1, <1>4, <2>5, <2>8, <3>1 DEF SlotIs
    <3>3. EntryInv' /\ (MaxTouches = 1 => current_slot' = 0)
      BY <1>1, <2>1, <2>5, <2>8, <3>2 DEF EntryInv
    <3>4. AppTypeOK'
      BY <1>1, <1>6, <2>4, <2>5, <2>6, <2>8, <3>1 DEF AppTypeOK
    <3>5. QED
      BY <1>5, <2>3, <2>7, <3>3, <3>4 DEF AppInv, PendingInv, PointsInv
  <2>9. CASE field = "y"
    <3>1. /\ pending' = [x |-> event.value, y |-> pending.y]
          /\ has' = [x |-> TRUE, y |-> has.y] /\ UNCHANGED current_slot
      BY <1>1, <2>1, <2>5, <2>9 DEF Store
    <3>2. SlotIs(Entry)' /\ XIs(Entry)'
      BY <1>1, <1>3, <1>4, <2>5, <2>9, <3>1 DEF EntryInv, SlotIs, XIs
    <3>3. EntryInv' /\ (MaxTouches = 1 => current_slot' = 0)
      BY <1>1, <1>3, <2>1, <2>9, <3>1, <3>2 DEF EntryInv
    <3>4. AppTypeOK'
      <4>1. has.y \in BOOLEAN /\ pending.y \in Positions
        BY <1>6
      <4>2. has' \in [x : BOOLEAN, y : BOOLEAN]
        BY <3>1, <4>1, Zenon
      <4>3. pending' \in [x : Positions, y : Positions]
        BY <2>4, <2>5, <2>9, <3>1, <4>1
      <4>4. QED
        BY <1>1, <1>6, <2>6, <3>1, <4>2, <4>3 DEF AppTypeOK
    <3>5. QED
      BY <1>5, <2>3, <2>7, <3>3, <3>4 DEF AppInv, PendingInv, PointsInv
  <2>10. CASE field = "key"
    <3>1. /\ pending' = [x |-> pending.x, y |-> event.value]
          /\ has' = [x |-> has.x, y |-> TRUE] /\ UNCHANGED current_slot
      BY <1>1, <2>1, <2>5, <2>10 DEF Store
    <3>2. SlotIs(Entry)' /\ XIs(Entry)' /\ YIs(Entry)'
      BY <1>1, <1>3, <1>4, <2>5, <2>10, <3>1 DEF EntryInv, SlotIs, XIs, YIs
    <3>3. EntryInv' /\ (MaxTouches = 1 => current_slot' = 0)
      BY <1>1, <1>3, <2>1, <2>10, <3>1, <3>2 DEF EntryInv
    <3>4. AppTypeOK'
      <4>1. has.x \in BOOLEAN /\ pending.x \in Positions
        BY <1>6
      <4>2. has' \in [x : BOOLEAN, y : BOOLEAN]
        BY <3>1, <4>1, Zenon
      <4>3. pending' \in [x : Positions, y : Positions]
        BY <2>4, <2>5, <2>10, <3>1, <4>1
      <4>4. QED
        BY <1>1, <1>6, <2>6, <3>1, <4>2, <4>3 DEF AppTypeOK
    <3>5. QED
      BY <1>5, <2>3, <2>7, <3>3, <3>4 DEF AppInv, PendingInv, PointsInv
  <2>11. QED
    BY <2>5, <2>8, <2>9, <2>10
<1>8. CASE event.code = "key"
  <2>1. /\ Storing /\ field = FirstField
        /\ SlotIs(at) /\ XIs(at) /\ YIs(at)
        /\ phase = "active" /\ todo # PressStores => points[cs].x = t.pos
        /\ phase = "active" /\ todo = <<"press">> => points[cs].y = t.pos
    BY <1>1, <1>3, <1>8 DEF Storing, StoringInv
  <2>2. /\ cs = t.id /\ has.x /\ has.y
        /\ pending.x = t.pos /\ pending.y = t.pos
        /\ at \in DOMAIN touches /\ t.pos \in Positions
        /\ \A s \in DOMAIN touches : touches[s].id \in Slots
        /\ \A s \in DOMAIN touches : touches[s].id = cs => s = at
    BY <1>1, <1>2, <1>8, <2>1, SlotFacts, TableFacts
       DEF TouchInv, SlotIs, XIs, YIs
  <2>3. /\ points[cs].x \in Positions /\ points[cs].y \in Positions
        /\ points[cs].active \in BOOLEAN
    BY <1>6
  <2>4. /\ phase = "active" => todo \in {PressStores, <<"point_y", "press">>,
                                         <<"press">>}
        /\ phase = "released" => todo = <<"release">>
    BY <1>1, <1>2, <1>8
  <2>5. \A s \in DOMAIN touches :
          s # at => touches[s].id \in Slots \ {cs}
    BY <2>2
  <2>6. ASSUME \A i \in Slots : points'[i].active <=> points[i].active,
               \A i \in Slots \ {cs} : points'[i] = points[i],
               points' \in [Slots -> [x : Positions, y : Positions,
                                      active : BOOLEAN]],
               UNCHANGED <<current_slot, pending, has>>,
               phase = "active", todo' # <<>>
        PROVE  /\ FrameInv' /\ AppTypeOK' /\ EntryInv'
               /\ SlotIs(at)' /\ XIs(at)' /\ YIs(at)'
    <3>1. Storing'
      BY <1>1, <1>8, <2>6 DEF Storing
    <3>2. ASSUME NEW s \in Active, Told(s)' PROVE Held(s)'
      <4>1. Told(s) /\ s # at /\ s \in DOMAIN touches
        BY <1>1, <2>1, <3>1, <3>2 DEF Told, Active
      <4>2. Held(s)
        BY <1>2, <1>3, <4>1 DEF FrameInv
      <4>3. QED
        BY <1>1, <2>5, <2>6, <4>1, <4>2 DEF Held
    <3>3. FrameInv'
      BY <1>1, <1>2, <1>3, <1>4, <2>6, <3>2 DEF FrameInv
    <3>4. AppTypeOK'
      BY <1>1, <1>6, <2>6 DEF AppTypeOK
    <3>5. EntryInv'
      BY <1>1, <1>8, <2>1 DEF EntryInv, FirstField
    <3>6. SlotIs(at)' /\ XIs(at)' /\ YIs(at)'
      BY <1>1, <2>1, <2>6 DEF SlotIs, XIs, YIs
    <3>7. QED
      BY <3>3, <3>4, <3>5, <3>6
  <2>7. CASE todo = PressStores
    <3>1. phase = "active"
      BY <1>2, <2>4, <2>7 DEF PressStores
    <3>2. Head(todo) = "point_x" /\ todo' = <<"point_y", "press">>
      BY <1>1, <2>7, Rests
    <3>3. /\ points' = [points EXCEPT ![cs].x = pending.x]
          /\ UNCHANGED <<current_slot, pending, has>>
      BY <1>1, <2>2, <3>2 DEF Store
    <3>4. /\ points' \in [Slots -> [x : Positions, y : Positions,
                                    active : BOOLEAN]]
          /\ \A i \in Slots : points'[i].active <=> points[i].active
          /\ \A i \in Slots \ {cs} : points'[i] = points[i]
      BY <1>6, <2>2, <3>3
    <3>5. points'[cs].x = t.pos
      BY <1>6, <2>2, <3>3
    <3>6. todo' # <<>> /\ todo' # <<"press">>
      BY <3>2
    <3>7. /\ FrameInv' /\ AppTypeOK' /\ EntryInv'
          /\ SlotIs(at)' /\ XIs(at)' /\ YIs(at)'
      BY <2>6, <3>1, <3>3, <3>4, <3>6
    <3>8. StoringInv'
      BY <1>1, <2>1, <3>3, <3>5, <3>6, <3>7 DEF StoringInv
    <3>9. TodoInv'
      BY <1>1, <1>2, <1>8, <3>1, <3>2 DEF TodoInv
    <3>10. QED
      BY <1>3, <1>5, <3>3, <3>7, <3>8, <3>9 DEF AppInv, PendingInv, PointsInv
  <2>8. CASE todo = <<"point_y", "press">>
    <3>1. phase = "active" /\ todo # PressStores
      BY <1>2, <2>4, <2>8, Rests
    <3>2. Head(todo) = "point_y" /\ todo' = <<"press">>
      BY <1>1, <2>8, Rests
    <3>3. /\ points' = [points EXCEPT ![cs].y = pending.y]
          /\ UNCHANGED <<current_slot, pending, has>>
      BY <1>1, <2>2, <3>2 DEF Store
    <3>4. /\ points' \in [Slots -> [x : Positions, y : Positions,
                                    active : BOOLEAN]]
          /\ \A i \in Slots : points'[i].active <=> points[i].active
          /\ \A i \in Slots \ {cs} : points'[i] = points[i]
      BY <1>6, <2>2, <3>3
    <3>5. points'[cs].x = t.pos
      BY <1>6, <2>1, <2>2, <3>1, <3>3
    <3>6. points'[cs].y = t.pos /\ todo' # <<>>
      BY <1>6, <2>2, <3>2, <3>3
    <3>7. /\ FrameInv' /\ AppTypeOK' /\ EntryInv'
          /\ SlotIs(at)' /\ XIs(at)' /\ YIs(at)'
      BY <2>6, <3>1, <3>3, <3>4, <3>6
    <3>8. StoringInv'
      BY <1>1, <2>1, <3>3, <3>5, <3>6, <3>7 DEF StoringInv
    <3>9. TodoInv'
      BY <1>1, <1>2, <1>8, <3>1, <3>2 DEF TodoInv
    <3>10. QED
      BY <1>3, <1>5, <3>3, <3>7, <3>8, <3>9 DEF AppInv, PendingInv, PointsInv
  <2>9. CASE todo \in {<<"press">>, <<"release">>}
    <3>1. /\ Head(todo) \in {"press", "release"} /\ todo' = <<>>
          /\ Head(todo) = "press" <=> phase = "active"
      <4>1. CASE todo = <<"press">>
        BY <1>1, <1>2, <2>4, <4>1, Rests
      <4>2. CASE todo = <<"release">>
        BY <1>1, <1>2, <2>4, <4>2, Rests
      <4>3. QED
        BY <2>9, <4>1, <4>2
    <3>2. /\ points' = [points EXCEPT ![cs] =
                          [x |-> points[cs].x, y |-> points[cs].y,
                           active |-> (Head(todo) = "press")]]
          /\ UNCHANGED <<current_slot, pending, has>>
      BY <1>1, <3>1 DEF Store
    <3>3. ~Storing' /\ TodoInv' /\ StoringInv'
      BY <3>1 DEF Storing, TodoInv, StoringInv
    <3>4. EntryInv'
      BY <1>1, <1>8, <2>1 DEF EntryInv, FirstField
    <3>5. /\ points'[cs].x = points[cs].x /\ points'[cs].y = points[cs].y
          /\ points'[cs].active <=> phase = "active"
          /\ \A i \in Slots \ {cs} : points'[i] = points[i]
      BY <1>6, <3>1, <3>2
    <3>6. points' \in [Slots -> [x : Positions, y : Positions,
                                 active : BOOLEAN]]
      BY <1>6, <2>3, <3>2
    <3>7. phase = "active" => todo = <<"press">>
      BY <2>9, <2>4, Rests
    <3>8. FrameInv'
      <4>1. ASSUME NEW s \in Active, phase # "active" \/ Told(s)'
            PROVE  Held(s)'
        <5>1. s \in DOMAIN touches /\ touches[s].active
          BY DEF Active
        <5>2. CASE s = at
          <6>1. phase = "active"
            BY <1>2, <1>8, <5>1, <5>2
          <6>2. points[cs].x = t.pos /\ points[cs].y = t.pos
            BY <2>1, <3>7, <6>1, Rests
          <6>3. QED
            BY <1>1, <2>2, <3>5, <5>2, <6>1, <6>2 DEF Held
        <5>3. CASE s # at
          <6>1. phase # "active" \/ Told(s)
            BY <1>1, <4>1, <5>3 DEF Told
          <6>2. Held(s)
            BY <1>2, <1>3, <6>1 DEF FrameInv
          <6>3. QED
            BY <1>1, <2>5, <3>5, <5>1, <5>3, <6>2 DEF Held
        <5>4. QED
          BY <5>2, <5>3
      <4>2. ASSUME NEW s \in Released, phase = "released", Told(s)'
            PROVE  ~points'[touches[s].id].active
        <5>1. s \in DOMAIN touches
          BY DEF Released
        <5>2. CASE s = at
          BY <2>2, <3>5, <4>2, <5>2
        <5>3. CASE s # at
          <6>1. Told(s)
            BY <1>1, <4>2, <5>3 DEF Told
          <6>2. QED
            BY <1>3, <2>5, <3>5, <4>2, <5>1, <5>3, <6>1 DEF FrameInv
        <5>4. QED
          BY <5>2, <5>3
      <4>3. ASSUME NEW i \in Slots, \A s \in DOMAIN touches : touches[s].id # i
            PROVE  ~points'[i].active
        <5>1. i # cs /\ ~points[i].active
          BY <1>2, <1>3, <2>2, <4>3 DEF FrameInv
        <5>2. QED
          BY <3>5, <5>1
      <4>4. QED
        BY <1>1, <1>2, <1>4, <4>1, <4>2, <4>3 DEF FrameInv
    <3>9. AppTypeOK'
      BY <1>1, <1>6, <3>2, <3>6 DEF AppTypeOK
    <3>10. QED
      BY <1>3, <1>5, <3>2, <3>3, <3>4, <3>8, <3>9
         DEF AppInv, PendingInv, PointsInv
  <2>10. QED
    BY <1>2, <2>4, <2>7, <2>8, <2>9
<1>9. QED
  BY <1>7, <1>8

\* The main thread's turns change only what is on the screen.
LEMMA AppScreen ==
  ASSUME AppInv, UNCHANGED <<touchVars, stateVars, todo>>, AppTypeOK'
  PROVE  AppInv'
<1>1. /\ UNCHANGED <<prev_touches, touches, phase, at, field, event>>
      /\ UNCHANGED <<points, current_slot, pending, has, todo>>
  BY DEF touchVars, stateVars
<1>2. UNCHANGED <<Ahead, Entry, Active, Released, Storing, ActiveSlots,
                  TrackedIds>>
  BY <1>1 DEF Ahead, Entry, Active, Released, Storing, ActiveSlots, TrackedIds
<1>3. TodoInv'
  BY <1>1 DEF AppInv, TodoInv
<1>4. PendingInv'
  <2>1. EntryInv' <=> EntryInv
    BY <1>1, <1>2 DEF EntryInv, SlotIs, XIs, YIs, Comes, FirstField
  <2>2. StoringInv' <=> StoringInv
    BY <1>1, <1>2 DEF StoringInv, SlotIs, XIs, YIs, FirstField
  <2>3. QED
    BY <1>1, <2>1, <2>2 DEF AppInv, PendingInv
<1>5. PointsInv'
  <2>1. \A s : (Told(s)' <=> Told(s)) /\ (Held(s)' <=> Held(s))
    BY <1>1, <1>2 DEF Told, Held
  <2>2. FrameInv'
    BY <1>1, <1>2, <2>1 DEF AppInv, PointsInv, FrameInv
  <2>3. CarriedInv' /\ ScanInv'
    BY <1>1, <1>2 DEF AppInv, PointsInv, CarriedInv, ScanInv
  <2>4. QED
    BY <2>2, <2>3 DEF PointsInv
<1>6. QED
  BY <1>3, <1>4, <1>5 DEF AppInv

LEMMA AppUpdate == ASSUME TouchInv, AppInv, UpdateIndicators PROVE AppInv'
<1>1. /\ points \in [Slots -> [x : Positions, y : Positions, active : BOOLEAN]]
      /\ shown \in [Slots -> [x : Positions, y : Positions] \cup {Hidden}]
      /\ max_touches \in 0..AppTouches /\ AppTouches \in Nat
  BY SlotAssumption DEF AppInv, AppTypeOK
<1>2. UNCHANGED <<points, current_slot, pending, has, todo, hold_mode>>
  BY DEF UpdateIndicators, stateVars
<1>3. shown' \in [Slots -> [x : Positions, y : Positions] \cup {Hidden}]
  BY <1>1 DEF UpdateIndicators
<1>4. Cardinality(ActiveSlots) \in 0..AppTouches
  <2>1. IsFiniteSet(Slots) /\ Cardinality(Slots) = AppTouches
    <3>1. /\ IsFiniteSet(0..(AppTouches - 1))
          /\ Cardinality(0..(AppTouches - 1))
               = IF 0 > AppTouches - 1 THEN 0 ELSE (AppTouches - 1) - 0 + 1
      BY <1>1, FS_Interval
    <3>2. QED
      BY <1>1, <3>1, SlotAssumption DEF Slots
  <2>2. ActiveSlots \in SUBSET Slots
    BY DEF ActiveSlots
  <2>3. /\ IsFiniteSet(ActiveSlots)
        /\ Cardinality(ActiveSlots) <= Cardinality(Slots)
    BY <2>1, <2>2, FS_Subset
  <2>4. Cardinality(ActiveSlots) \in Nat
    BY <2>3, FS_CardinalityType
  <2>5. QED
    BY <1>1, <2>1, <2>3, <2>4
<1>5. max_touches' \in 0..AppTouches
  BY <1>1, <1>4 DEF UpdateIndicators
<1>6. AppTypeOK'
  BY <1>2, <1>3, <1>5 DEF AppInv, AppTypeOK
<1>7. QED
  BY <1>6, AppScreen DEF UpdateIndicators

LEMMA AppHold == ASSUME TouchInv, AppInv, HoldButton PROVE AppInv'
<1>1. AppTypeOK'
  BY SlotAssumption DEF AppInv, AppTypeOK, HoldButton, stateVars
<1>2. QED
  BY <1>1, AppScreen DEF HoldButton

LEMMA AppInvKept == TouchInv /\ AppInv /\ [Next]_allVars => AppInv'
<1>1. SUFFICES ASSUME TouchInv, AppInv, [Next]_allVars PROVE AppInv'
  OBVIOUS
<1>2. CASE DriverStep
  BY <1>1, <1>2, AppBegin, AppScan, AppEndScan, AppEndLoop, AppCopyTouch,
     AppSave DEF DriverStep
<1>3. CASE UNCHANGED allVars
  <2>1. UNCHANGED <<touchVars, stateVars, todo>>
        /\ UNCHANGED <<shown, hold_mode, max_touches>>
    BY <1>3 DEF allVars, appVars, screenVars
  <2>2. UNCHANGED <<points, current_slot, pending, has>>
    BY <2>1 DEF stateVars
  <2>3. AppTypeOK'
    BY <1>1, <2>1, <2>2 DEF AppInv, AppTypeOK
  <2>4. QED
    BY <1>1, <2>1, <2>3, AppScreen
<1>4. QED
  BY <1>1, <1>2, <1>3, AppReport, AppStore, AppUpdate, AppHold DEF Next

LEMMA AppInvariance == Spec => []AppInv
<1>1. Init => AppInv
  BY AppInitInv
<1>2. QED
  BY <1>1, AppInvKept, DriverInvariance, PTL DEF Spec

\* The application's variables stay in their ranges.
THEOREM AppTypeCorrect == Spec => []AppTypeOK
  BY AppInvariance, PTL DEF AppInv

\* Between two batches the application holds exactly the touches the driver
\* carries forward, at the places the driver has for them.
THEOREM TablesAgree == Spec => []AppAgreesWithDriver
<1>1. AppInv => AppAgreesWithDriver
  BY DEF AppInv, PointsInv, CarriedInv, AppAgreesWithDriver
<1>2. QED
  BY <1>1, AppInvariance, PTL

\* A press becomes visible whole, wherever the main thread cuts in.
THEOREM PressesAreWhole == Spec => PressIsWhole
<1>1. ASSUME TouchInv, AppInv, Next, NEW s \in Slots,
             ~points[s].active, points'[s].active
      PROVE  \E t \in Range(touches) :
               /\ t.id = s /\ t.active
               /\ points'[s].x = t.pos /\ points'[s].y = t.pos
  <2>1. CallbackStore
    BY <1>1 DEF Next, DriverStep, ReportToApp, UpdateIndicators, HoldButton,
                appVars, stateVars
  <2>2. Store(Head(todo)) /\ todo # <<>>
    BY <2>1 DEF CallbackStore
  <2>3. points \in [Slots -> [x : Positions, y : Positions, active : BOOLEAN]]
        /\ current_slot \in Slots
    BY <1>1 DEF AppInv, AppTypeOK
  <2>4. event.code = "key"
    <3>1. SUFFICES ASSUME event.code # "key" PROVE FALSE
      OBVIOUS
    <3>2. todo = <<event.code>> /\ event \in Event
      BY <1>1, <2>2, <3>1 DEF AppInv, TodoInv, TouchInv, TouchTypeOK
    <3>3. Head(todo) = event.code /\ event.code \in {"slot", "x", "y"}
      BY <3>1, <3>2, Rests DEF Event
    <3>4. UNCHANGED points
      BY <2>2, <3>3 DEF Store
    <3>5. QED
      BY <1>1, <3>4
  <2>5. /\ at \in DOMAIN touches /\ (touches[at].active <=> phase = "active")
        /\ IF phase = "active"
             THEN todo \in {PressStores, <<"point_y", "press">>, <<"press">>}
             ELSE todo = <<"release">>
        /\ phase \in {"active", "released"}
    BY <1>1, <2>2, <2>4 DEF AppInv, TodoInv
  <2>6. Head(todo) = "press"
    <3>1. Head(todo) \in {"point_x", "point_y", "press", "release"}
      <4>1. \/ todo = PressStores \/ todo = <<"point_y", "press">>
            \/ todo = <<"press">> \/ todo = <<"release">>
        BY <2>5
      <4>2. QED
        BY <4>1, Rests
    <3>2. ASSUME Head(todo) \in {"point_x", "point_y"} PROVE FALSE
      <4>1. \/ points' = points
            \/ points' = [points EXCEPT ![current_slot].x = pending.x]
            \/ points' = [points EXCEPT ![current_slot].y = pending.y]
        BY <2>2, <3>2 DEF Store
      <4>2. points'[s].active <=> points[s].active
        BY <2>3, <4>1
      <4>3. QED
        BY <1>1, <4>2
    <3>3. ASSUME Head(todo) = "release" PROVE FALSE
      <4>1. points' = [points EXCEPT ![current_slot] =
                         [x |-> points[current_slot].x,
                          y |-> points[current_slot].y,
                          active |-> (Head(todo) = "press")]]
        BY <2>2, <3>3 DEF Store
      <4>2. QED
        BY <1>1, <2>3, <3>3, <4>1
    <3>4. QED
      BY <3>1, <3>2, <3>3
  <2>7. phase = "active" /\ todo = <<"press">>
    BY <2>5, <2>6, Rests
  <2>8. points' = [points EXCEPT ![current_slot] =
                     [x |-> points[current_slot].x,
                      y |-> points[current_slot].y,
                      active |-> (Head(todo) = "press")]]
    BY <2>2, <2>6 DEF Store
  <2>9. s = current_slot /\ points'[s].x = points[s].x
        /\ points'[s].y = points[s].y
    BY <1>1, <2>3, <2>8
  <2>10. /\ current_slot = touches[at].id
         /\ points[current_slot].x = touches[at].pos
         /\ points[current_slot].y = touches[at].pos
    BY <1>1, <2>2, <2>4, <2>7, Rests
       DEF AppInv, PendingInv, StoringInv, Storing, SlotIs
  <2>11. touches[at] \in Range(touches)
    BY <2>5 DEF Range
  <2>12. QED
    BY <2>5, <2>7, <2>9, <2>10, <2>11
<1>2. TouchInv /\ AppInv /\ [Next]_allVars =>
        [\A s \in Slots :
           ~points[s].active /\ points'[s].active
             => \E t \in Range(touches) :
                   /\ t.id = s /\ t.active
                   /\ points'[s].x = t.pos /\ points'[s].y = t.pos]_allVars
  BY <1>1
<1>3. QED
  BY <1>2, DriverInvariance, AppInvariance, PTL DEF Spec, PressIsWhole
=============================================================================
