------------------------------ MODULE TouchApp ------------------------------
(***************************************************************************)
(* The application's side of a touch: the input callback that stores what  *)
(* mxt_process_messages reports, and the main loop that draws an indicator *)
(* for every stored touch (app/src/main.c:84-138, 238-250, 359-400).       *)
(*                                                                         *)
(* The callback runs in the drain thread, inside input_report_*.  The main *)
(* thread has a higher priority: it may run between any two stores of the  *)
(* callback, and update_touch_indicators then sees the points half-written *)
(* but is not interrupted by the callback itself.                          *)
(***************************************************************************)
EXTENDS MxtTouch

CONSTANT AppTouches  \* MAX_TOUCHES of the application

\* The driver reports no id the application has no slot for.
ASSUME SlotAssumption == AppTouches \in Nat \ {0} /\ MaxTouches <= AppTouches

Slots == 0..(AppTouches - 1)

VARIABLES
  points,        \* touch_state.points
  current_slot,
  pending,       \* touch_state.pending_x, pending_y
  has,           \* touch_state.has_x, has_y
  todo,          \* stores the running callback has still to make
  shown,         \* indicators: the place of a visible circle, or Hidden
  hold_mode,
  max_touches

stateVars  == <<points, current_slot, pending, has>>
screenVars == <<shown, hold_mode, max_touches>>
appVars    == <<stateVars, todo, screenVars>>
allVars    == <<touchVars, appVars>>

\* touch_state and max_touches are zero-initialised: a point starts at (0, 0).
CONSTANT Origin
ASSUME OriginAssumption == Origin \in Positions

Hidden == [x |-> NoEvent, y |-> NoEvent]

AppInit ==
  /\ points = [s \in Slots |-> [x |-> Origin, y |-> Origin, active |-> FALSE]]
  /\ current_slot = 0
  /\ pending = [x |-> Origin, y |-> Origin]
  /\ has = [x |-> FALSE, y |-> FALSE]
  /\ todo = <<>>
  /\ shown = [s \in Slots |-> Hidden]
  /\ hold_mode = FALSE
  /\ max_touches = 0

Init == TouchInit /\ AppInit

\* Broken on purpose: active is set first.
PressFirst == <<"press", "point_x", "point_y">>

\* The stores of a pressed INPUT_BTN_TOUCH.
PressStores == <<"point_x", "point_y", "press">>

\* Broken on purpose: slot events are not understood.
StoresNoSlot(e) ==
  CASE e.code = "slot" -> <<>>
    [] e.code \in {"x", "y"} -> <<e.code>>
    [] e.code = "key" -> IF e.value THEN PressStores ELSE <<"release">>

\* What touch_input_cb has to store for an event, in the order it stores it.
\* A slot event of a value without a slot leaves current_slot as it was.
Stores(e) ==
  CASE e.code = "slot" -> <<"slot">>
    [] e.code \in {"x", "y"} -> <<e.code>>
    [] e.code = "key" -> IF e.value THEN PressStores ELSE <<"release">>

\* The driver goes on when the callback has returned.
DriverStep ==
  /\ todo = <<>>
  /\ \/ \E batch \in Batches : Begin(batch)
     \/ Scan \/ EndScan \/ EndLoop \/ CopyTouch \/ Save
  /\ UNCHANGED appVars

ReportToApp ==
  /\ todo = <<>>
  /\ Report
  /\ todo' = Stores(event')
  /\ UNCHANGED <<stateVars, screenVars>>

Store(what) ==
  CASE what = "slot" ->
         /\ current_slot' = IF event.value \in Slots THEN event.value
                                                     ELSE current_slot
         /\ has' = [x |-> FALSE, y |-> FALSE]
         /\ UNCHANGED <<points, pending>>
    [] what = "x" ->
         /\ pending' = [x |-> event.value, y |-> pending.y]
         /\ has' = [x |-> TRUE, y |-> has.y]
         /\ UNCHANGED <<points, current_slot>>
    [] what = "y" ->
         /\ pending' = [x |-> pending.x, y |-> event.value]
         /\ has' = [x |-> has.x, y |-> TRUE]
         /\ UNCHANGED <<points, current_slot>>
    [] what = "point_x" ->
         /\ points' = IF has.x
                        THEN [points EXCEPT ![current_slot].x = pending.x]
                        ELSE points
         /\ UNCHANGED <<current_slot, pending, has>>
    [] what = "point_y" ->
         /\ points' = IF has.y
                        THEN [points EXCEPT ![current_slot].y = pending.y]
                        ELSE points
         /\ UNCHANGED <<current_slot, pending, has>>
    [] what \in {"press", "release"} ->
         /\ points' = [points EXCEPT ![current_slot] =
                         [x |-> points[current_slot].x,
                          y |-> points[current_slot].y,
                          active |-> (what = "press")]]
         /\ UNCHANGED <<current_slot, pending, has>>

CallbackStore ==
  /\ todo # <<>>
  /\ Store(Head(todo))
  /\ todo' = Tail(todo)
  /\ UNCHANGED <<touchVars, screenVars>>

ActiveSlots == {s \in Slots : points[s].active}

\* Broken on purpose: touches are added up; released ones stay on the screen.
UpdateIndicatorsAdding ==
  /\ max_touches' = max_touches + Cardinality(ActiveSlots)
  /\ UNCHANGED <<touchVars, stateVars, todo, shown, hold_mode>>
UpdateIndicatorsNoHide ==
  /\ shown' = [s \in Slots |->
                 IF points[s].active
                   THEN [x |-> points[s].x, y |-> points[s].y] ELSE shown[s]]
  /\ UNCHANGED <<touchVars, stateVars, todo, hold_mode, max_touches>>

\* update_touch_indicators.
UpdateIndicators ==
  /\ shown' = [s \in Slots |->
                 IF points[s].active
                   THEN [x |-> points[s].x, y |-> points[s].y]
                   ELSE IF hold_mode THEN shown[s] ELSE Hidden]
  /\ max_touches' = IF Cardinality(ActiveSlots) > max_touches
                      THEN Cardinality(ActiveSlots) ELSE max_touches
  /\ UNCHANGED <<touchVars, stateVars, todo, hold_mode>>

\* hold_btn_cb, called by lv_timer_handler in the main thread.
HoldButton ==
  /\ hold_mode' = ~hold_mode
  /\ max_touches' = IF hold_mode THEN 0 ELSE max_touches
  /\ UNCHANGED <<touchVars, stateVars, todo, shown>>

Next ==
  DriverStep \/ ReportToApp \/ CallbackStore \/ UpdateIndicators \/ HoldButton

Spec == Init /\ [][Next]_allVars

\* The kernel runs the drain thread while the main loop sleeps, a call of
\* mxt_process_messages goes on to its end, and the main loop keeps turning.
\* Nobody has to touch the panel or the button.
FairSpec ==
  /\ Spec
  /\ WF_allVars(todo = <<>> /\ (Scan \/ EndScan \/ EndLoop \/ CopyTouch \/ Save)
                /\ UNCHANGED appVars)
  /\ WF_allVars(ReportToApp)
  /\ WF_allVars(CallbackStore)
  /\ WF_allVars(UpdateIndicators)

-----------------------------------------------------------------------------

\* The application's variables stay in their ranges.
AppTypeOK ==
  /\ points \in [Slots -> [x : Positions, y : Positions, active : BOOLEAN]]
  /\ current_slot \in Slots
  /\ pending \in [x : Positions, y : Positions]
  /\ has \in [x : BOOLEAN, y : BOOLEAN]
  /\ shown \in [Slots -> [x : Positions, y : Positions] \cup {Hidden}]
  /\ hold_mode \in BOOLEAN
  /\ max_touches \in 0..AppTouches

TrackedIds == {prev_touches[s].id : s \in DOMAIN prev_touches}

\* Between two batches the application holds exactly the touches the driver
\* carries forward, at the places the driver has for them: no press, move or
\* release of a batch goes to a wrong slot or is lost between the two tables.
AppAgreesWithDriver ==
  phase = "idle" =>
    /\ ActiveSlots = TrackedIds
    /\ \A s \in DOMAIN prev_touches :
          LET p == points[prev_touches[s].id]
          IN p.x = prev_touches[s].pos /\ p.y = prev_touches[s].pos

\* A press becomes visible whole: active is stored after both coordinates
\* (main.c:121-129), so a main thread that runs in between does not draw the new
\* touch at half a position or where the slot's previous touch was.
PressIsWhole ==
  [][\A s \in Slots :
        ~points[s].active /\ points'[s].active
          => \E t \in Range(touches) :
                /\ t.id = s /\ t.active
                /\ points'[s].x = t.pos /\ points'[s].y = t.pos]_allVars

ShownSlots == {s \in Slots : shown[s] # Hidden}

\* When the panel is left alone with Hold off, the screen comes to show exactly
\* the touches the driver tracks, each at its place.
ScreenSettles ==
  <>[](phase = "idle" /\ ~hold_mode)
    => <>[](/\ ShownSlots = TrackedIds
            /\ \A s \in DOMAIN prev_touches :
                  shown[prev_touches[s].id] = [x |-> prev_touches[s].pos,
                                               y |-> prev_touches[s].pos])
=============================================================================
