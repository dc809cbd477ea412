----------------------------- MODULE TouchPath -----------------------------
(***************************************************************************)
(* From the panel to the driver's table: the drain thread of MxtDrain      *)
(* fetching the messages that mxt_process_messages of MxtTouch consumes    *)
(* (drivers/input/microchip_maxtouch.c).  The controller's FIFO is now a   *)
(* sequence of messages; MxtDrain counts them.                             *)
(*                                                                         *)
(* One message of the FIFO is one finger's change.  fingers is what the    *)
(* controller has reported, so a suspended controller changes nothing.     *)
(***************************************************************************)
EXTENDS MxtTouch

CONSTANTS QueueCap, MaxTries, MaxPasses, DrainLimit, Builds  \* of MxtDrain

\* A message that reports a finger.
Reports == Messages \ {Other}

VARIABLES
  fingers,  \* the place of every finger, or Up, as last reported
  queue,    \* the controller's message FIFO
  lost,     \* history: fingers whose last report was discarded unread
  build, asleep, edge, irq_on, timer_on, drain_sem, i2c_lock, pc, tries, passes,
  count, ctl, drained, abandoned  \* as in MxtDrain

Drain == INSTANCE MxtDrain WITH pending <- Len(queue)

drainVars == <<build, asleep, edge, irq_on, timer_on, drain_sem, i2c_lock, pc,
               tries, passes, count, ctl, drained, abandoned>>
panelVars == <<fingers, queue, lost>>
pathVars  == <<panelVars, drainVars, touchVars>>

\* The ids are bytes, and a report is none of the other messages; the bounds are
\* those of MxtDrain.
ASSUME PathAssumption ==
  /\ IsFiniteSet(TouchIds)
  /\ Other \notin [id : TouchIds, pos : Positions \cup {Up}]
  /\ Drain!BoundsAssumption /\ Drain!BuildsAssumption

\* Fingers may rest on the panel before init reads anything, reported in any
\* order.
RestingReports ==
  {[id |-> i, pos |-> fingers[i]] : i \in {j \in TouchIds : fingers[j] # Up}}

PathInit ==
  /\ TouchInit
  /\ fingers \in [TouchIds -> Positions \cup {Up}]
  /\ queue \in SetToSeqs(RestingReports)
  /\ lost = {}
  /\ Drain!Init

\* The controller reports a finger's change.
ReportFinger(id, pos) ==
  /\ fingers[id] # pos
  /\ fingers' = [fingers EXCEPT ![id] = pos]
  /\ queue' = Append(queue, [id |-> id, pos |-> pos])
  /\ lost' = lost \ {id}
  /\ Drain!Arrive
  /\ UNCHANGED touchVars

\* The messages a T5 read returns go to mxt_process_messages.
Fetched == LET wanted == IF count = 0 THEN 1 ELSE count
           IN Drain!AtMost(wanted, Len(queue))

FetchBatch ==
  /\ pc = "t5"
  /\ queue' = SubSeq(queue, Fetched + 1, Len(queue))
  /\ Drain!ReadT5
  /\ IF Fetched > 0 THEN Begin(SubSeq(queue, 1, Fetched))
                    ELSE UNCHANGED touchVars
  /\ UNCHANGED <<fingers, lost>>

\* mxt_process_messages runs to its end before the next try.
ProcessStep ==
  /\ pc = "process"
  /\ TouchStep
  /\ UNCHANGED <<panelVars, drainVars>>

Processed ==
  /\ phase = "idle"
  /\ UNCHANGED <<panelVars, touchVars>>
  /\ Drain!Process

\* mxt_drain_messages acts on no message but T6's: the report is dropped.
DiscardMessage ==
  /\ queue # <<>>
  /\ queue' = Tail(queue)
  /\ Drain!DrainRead
  /\ LET id == Head(queue).id
     IN lost' = IF \E k \in DOMAIN queue : k > 1 /\ queue[k].id = id
                  THEN lost ELSE lost \cup {id}
  /\ UNCHANGED <<fingers, touchVars>>

\* The steps that move no message.
Schedule ==
  /\ UNCHANGED <<panelVars, touchVars>>
  /\ \/ Drain!SpuriousEdge \/ Drain!IrqHandler \/ Drain!TimerHandler
     \/ Drain!TakeSem \/ Drain!Lock \/ Drain!ReadFails \/ Drain!ReadT44
     \/ Drain!EndPassPolling \/ Drain!EndPass \/ Drain!CheckChg \/ Drain!Arm
     \/ Drain!BootArm \/ Drain!BootFails \/ Drain!BootSpawn
     \/ Drain!SuspendT7 \/ Drain!SuspendIrq \/ Drain!ResumeT7 \/ Drain!ResumeIrq
     \/ Drain!DrainEmpty \/ Drain!DrainStops

PathNext ==
  \/ \E id \in TouchIds, pos \in Positions \cup {Up} : ReportFinger(id, pos)
  \/ FetchBatch \/ ProcessStep \/ Processed \/ DiscardMessage \/ Schedule

PathSpec == PathInit /\ [][PathNext]_pathVars

-----------------------------------------------------------------------------

PlaceIn(table, i) ==
  LET entries == {s \in DOMAIN table : table[s].id = i /\ table[s].active}
  IN IF entries = {} THEN Up ELSE table[CHOOSE s \in entries : TRUE].pos

\* Where the driver has each finger: in the table it is working on, or between
\* two batches in the one it carries forward.
Table == IF phase = "idle" THEN prev_touches ELSE touches
Known == [i \in TouchIds |-> PlaceIn(Table, i)]

\* Touch ids the tables have room for; messages of others are passed over.
TrackedIds == {i \in TouchIds : i < MaxTouches}

\* The reports the driver has not looked at yet, oldest first.
Waiting == msg_buf \o queue

\* The FIFO, what the panel reported and the variables of both parts are of
\* their kinds.
PathTypeOK ==
  /\ TouchTypeOK
  /\ Drain!TypeOK
  /\ fingers \in [TouchIds -> Positions \cup {Up}]
  /\ queue \in Seq(Reports)
  /\ lost \subseteq TouchIds

\* What a sequence of reports says of a finger last, if anything.
SaysLast(reports, i, pos) ==
  \E k \in DOMAIN reports :
    /\ reports[k].id = i /\ reports[k].pos = pos
    /\ \A l \in DOMAIN reports : reports[l].id = i => l <= k
SaysNothing(reports, i) == \A k \in DOMAIN reports : reports[k].id # i

\* What the driver has of a finger, and the reports still on their way, add up
\* to where the finger is, at every moment of fetching, clamping, carrying
\* forward and saving, unless the last report was discarded by
\* mxt_drain_messages (:868-898).
PendingExplainsPanel ==
  \A i \in TrackedIds \ lost :
    \/ SaysLast(Waiting, i, fingers[i])
    \/ SaysNothing(Waiting, i) /\ Known[i] = fingers[i]

\* "Carry forward previously active touches (stationary fingers)" (:514): with
\* no report left to read, a finger the driver carries forward is on the panel.
CarriedFingersAreDown ==
  ctl = "active" /\ phase = "idle" /\ queue = <<>>
    => \A s \in DOMAIN prev_touches : fingers[prev_touches[s].id] # Up

\* So it is as long as resume, which discards messages, is not compiled in.
NoGhostWithoutPm == ~Drain!PmBuild => CarriedFingersAreDown

\* Threads, interrupt, batches and table implement the promise of TouchFeed:
\* reports are learned in order, once each, or discarded by init and resume.
Feed == INSTANCE TouchFeed WITH
          Fingers <- TouchIds, Tracked <- TrackedIds, Places <- Positions,
          reported <- fingers, learned <- Known, backlog <- Waiting,
          discarding <- ctl \in {"boot_drain", "res_drain"}

ImplementsFeed == Feed!FeedSpec
=============================================================================
