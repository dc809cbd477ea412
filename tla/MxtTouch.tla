------------------------------ MODULE MxtTouch ------------------------------
(***************************************************************************)
(* mxt_process_messages: how the driver turns a batch of T5 messages into  *)
(* input events, carrying the touches of earlier batches forward           *)
(* (drivers/input/microchip_maxtouch.c:507-649).  A step is one message,   *)
(* one input_report call or one copy of the table, since the subscribers   *)
(* of the input events run inside those calls (CONFIG_INPUT_MODE_          *)
(* SYNCHRONOUS) and other threads may look at what they store.             *)
(*                                                                         *)
(* A message either reports a finger (its touch id and a position, or Up   *)
(* when the DETECT bit is clear) or is Other: a filler (report id 0 or     *)
(* 0xFF), a T6 status, which changes nothing that is read after init, or   *)
(* an unhandled report id.                                                 *)
(***************************************************************************)
EXTENDS Naturals, Sequences, FiniteSets, SequencesExt

CONSTANTS
  MaxTouches,  \* CONFIG_INPUT_MICROCHIP_MAXTOUCH_MAX_TOUCHES
  TouchIds,    \* report_id - touch_reportid_start, for the T100 report ids
  Positions,   \* a finger's place; x and y of it are reported separately
  Up,          \* a touch message without DETECT
  Other,       \* a message that reports no finger
  NoEvent      \* nothing was reported since the batch began

ASSUME TouchAssumption ==
  /\ MaxTouches \in Nat \ {0}
  /\ TouchIds \subseteq Nat
  /\ Up \notin Positions

VARIABLES
  prev_touches,  \* data->prev_touches[0 .. prev_touch_count - 1], or [0 ..
                 \* saved - 1] while it is written
  msg_buf,       \* messages of the batch not looked at yet
  touches,       \* the local table touches[0 .. touch_count - 1]
  phase,         \* which loop of the function is running
  at,            \* entries of the table the running loop is past
  field,         \* the next input_report call for the current touch
  event          \* the last input event

touchVars == <<prev_touches, msg_buf, touches, phase, at, field, event>>

Messages == {Other} \cup [id : TouchIds, pos : Positions \cup {Up}]
Touch    == [id : TouchIds, pos : Positions, active : BOOLEAN]
Event    == [code : {"slot"}, value : TouchIds, sync : {FALSE}]
            \cup [code : {"x", "y"}, value : Positions, sync : {FALSE}]
            \cup [code : {"key"}, value : BOOLEAN, sync : BOOLEAN]

ASSUME NoEventAssumption == NoEvent \notin Event

\* The slot whose touch has this id (its position in the table), if any.
SlotsOf(table, id) == {s \in DOMAIN table : table[s].id = id}
SlotOf(table, id) ==
  CHOOSE s \in SlotsOf(table, id) : \A r \in SlotsOf(table, id) : s <= r

\* INPUT_ABS_MT_SLOT is reported only by a multi-touch configuration.
FirstField == IF MaxTouches > 1 THEN "slot" ELSE "x"

TouchInit ==
  /\ prev_touches = <<>>
  /\ msg_buf = <<>>
  /\ touches = <<>>
  /\ phase = "idle"
  /\ at = 0
  /\ field = FirstField
  /\ event = NoEvent

\* Broken on purpose: stationary fingers are forgotten.
BeginEmpty(batch) ==
  /\ phase = "idle"
  /\ msg_buf' = batch
  /\ touches' = <<>>
  /\ phase' = "scan"
  /\ event' = NoEvent
  /\ UNCHANGED <<prev_touches, at, field>>

\* mxt_process_messages is called with a batch; stationary fingers send no
\* message, so the table starts from the touches of the last call.
Begin(batch) ==
  /\ phase = "idle"
  /\ msg_buf' = batch
  /\ touches' = prev_touches
  /\ phase' = "scan"
  /\ event' = NoEvent
  /\ UNCHANGED <<prev_touches, at, field>>

Detect(id, pos) ==
  LET new == [id |-> id, pos |-> pos, active |-> TRUE]
  IN IF SlotsOf(touches, id) # {}
       THEN touches' = [touches EXCEPT ![SlotOf(touches, id)] = new]
       ELSE IF Len(touches) < MaxTouches
              THEN touches' = Append(touches, new)
              ELSE UNCHANGED touches

\* Broken on purpose: releases are ignored; the place of a release is stored.
ReleaseIgnored(id) == UNCHANGED touches
ReleaseMoves(id) ==
  touches' = [s \in DOMAIN touches |->
                IF touches[s].id = id
                  THEN [id |-> id, pos |-> Up, active |-> FALSE]
                  ELSE touches[s]]

Release(id) ==
  LET s == SlotOf(touches, id)
  IN IF SlotsOf(touches, id) # {}
       THEN touches' = [touches EXCEPT ![s] = [id |-> touches[s].id,
                                               pos |-> touches[s].pos,
                                               active |-> FALSE]]
       ELSE UNCHANGED touches

Scan ==
  /\ phase = "scan" /\ msg_buf # <<>>
  /\ LET msg == Head(msg_buf)
     IN IF msg = Other \/ msg.id >= MaxTouches
          THEN UNCHANGED touches
          ELSE IF msg.pos = Up THEN Release(msg.id)
                               ELSE Detect(msg.id, msg.pos)
  /\ msg_buf' = Tail(msg_buf)
  /\ UNCHANGED <<prev_touches, phase, at, field, event>>

EndScan ==
  /\ phase = "scan" /\ msg_buf = <<>>
  /\ phase' = "active"
  /\ UNCHANGED <<prev_touches, msg_buf, touches, at, field, event>>

Active   == {s \in DOMAIN touches : touches[s].active}
Released == DOMAIN touches \ Active

\* Broken on purpose: the save loop copies released touches too.
AheadSavesAll ==
  {s \in DOMAIN touches :
     s > at /\ (touches[s].active \/ phase \in {"released", "save"})}

\* The entries the running loop has not come to and does not pass over: of the
\* two report loops the second one is for released touches.
Ahead == {s \in DOMAIN touches :
            s > at /\ (touches[s].active <=> phase # "released")}
Entry == CHOOSE s \in Ahead : \A r \in Ahead : s <= r

\* Broken on purpose: the active loop does not look at the released touches.
IsLastOfLoop == Ahead = {Entry}

\* The count of reported touches reaches active_count or release_count when
\* the loop has come to the last entry ahead of it.
IsLast == Ahead = {Entry} /\ (phase = "active" => Released = {})

Say(code, value, sync) ==
  event' = [code |-> code, value |-> value, sync |-> sync]

\* One input_report_* call for the current touch of the running loop.
Report ==
  /\ phase \in {"active", "released"} /\ Ahead # {}
  /\ LET t == touches[Entry]
     IN \/ field = "slot" /\ Say("slot", t.id, FALSE) /\ field' = "x"
        \/ field = "x" /\ Say("x", t.pos, FALSE) /\ field' = "y"
        \/ field = "y" /\ Say("y", t.pos, FALSE) /\ field' = "key"
        \/ field = "key" /\ Say("key", t.active, IsLast)
           /\ field' = FirstField
  /\ at' = IF field = "key" THEN Entry ELSE at
  /\ UNCHANGED <<prev_touches, msg_buf, touches, phase>>

\* Behind the second loop the copying starts at the first entry.
EndLoop ==
  /\ phase \in {"active", "released"} /\ Ahead = {}
  /\ at' = 0
  /\ IF phase = "active" THEN phase' = "released" /\ UNCHANGED prev_touches
                         ELSE phase' = "save" /\ prev_touches' = <<>>
  /\ UNCHANGED <<msg_buf, touches, field, event>>

CopyTouch ==
  /\ phase = "save" /\ Ahead # {}
  /\ prev_touches' = Append(prev_touches, touches[Entry])
  /\ at' = Entry
  /\ UNCHANGED <<msg_buf, touches, phase, field, event>>

Save ==
  /\ phase = "save" /\ Ahead = {}
  /\ at' = 0
  /\ touches' = <<>>
  /\ phase' = "idle"
  /\ UNCHANGED <<prev_touches, msg_buf, field, event>>

TouchStep == Scan \/ EndScan \/ Report \/ EndLoop \/ CopyTouch \/ Save

-----------------------------------------------------------------------------
\* The function alone, called with any batch of at most MaxBatch messages.

CONSTANT MaxBatch  \* messages mxt_read_messages fetches at once
ASSUME BatchAssumption == MaxBatch \in Nat

Batches == UNION {[1..n -> Messages] : n \in 1..MaxBatch}

TouchNext == (\E batch \in Batches : Begin(batch)) \/ TouchStep

TouchSpec == TouchInit /\ [][TouchNext]_touchVars

-----------------------------------------------------------------------------

\* The table's entries and the reported events have their kinds.
TouchTypeOK ==
  /\ prev_touches \in Seq(Touch)
  /\ msg_buf \in Seq(Messages)
  /\ touches \in Seq(Touch)
  /\ phase \in {"idle", "scan", "active", "released", "save"}
  /\ at \in 0..MaxTouches
  /\ field \in {"slot", "x", "y", "key"}
  /\ event \in Event \cup {NoEvent}

UniqueIds(table) ==
  \A r, s \in DOMAIN table : table[r].id = table[s].id => r = s

\* However the batches mix presses, moves and releases, an id has one entry,
\* only pressed touches are carried to the next batch, and the fixed-size arrays
\* touches[] and prev_touches[] (:510, :640) are never overrun.
TablesAreSound ==
  /\ UniqueIds(touches) /\ UniqueIds(prev_touches)
  /\ \A s \in DOMAIN touches : touches[s].id < MaxTouches
  /\ \A s \in DOMAIN prev_touches :
        prev_touches[s].active /\ prev_touches[s].id < MaxTouches

\* A frame's only synchronising event is its last one (:602, :623): subscribers
\* that act on sync see the batch whole, whatever mix of touches it reports.
SyncEndsFrame ==
  [][/\ Report => event = NoEvent \/ ~event.sync
     /\ Save => touches = <<>> \/ (event # NoEvent /\ event.sync)]_touchVars
=============================================================================
