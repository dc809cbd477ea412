----------------------------- MODULE TouchFeed -----------------------------
(***************************************************************************)
(* What the touch driver promises, without its threads, interrupt, bus and *)
(* buffers: every change the controller reports of a finger is learned in  *)
(* the order it was reported and exactly once, or, only while the driver   *)
(* discards what it finds queued (init and resume), not at all.            *)
(***************************************************************************)
EXTENDS Naturals, Sequences, FiniteSets, SequencesExt

CONSTANTS
  Fingers,  \* the touch ids
  Tracked,  \* those the driver has room for
  Places,   \* where a finger can be
  Up        \* it is not on the panel

VARIABLES
  reported,   \* per finger: where the controller last said it is
  learned,    \* per finger: where the driver has it
  backlog,    \* the reports not yet learned, of all fingers, oldest first
  discarding  \* the driver is in mxt_drain_messages

feedVars == <<reported, learned, backlog, discarding>>

\* What the controller says of the fingers that are on the panel at first.
RestingReports ==
  {[id |-> f, pos |-> reported[f]] : f \in {g \in Fingers : reported[g] # Up}}

FeedInit ==
  /\ reported \in [Fingers -> Places \cup {Up}]
  /\ learned = [f \in Fingers |-> Up]
  /\ backlog \in SetToSeqs(RestingReports)
  /\ discarding = FALSE

ReportFinger(f, place) ==
  /\ reported' = [reported EXCEPT ![f] = place]
  /\ backlog' = Append(backlog, [id |-> f, pos |-> place])
  /\ UNCHANGED <<learned, discarding>>

Learn ==
  /\ backlog # <<>>
  /\ LET oldest == Head(backlog)
     IN learned' = IF oldest.id \in Tracked
                     THEN [learned EXCEPT ![oldest.id] = oldest.pos]
                     ELSE learned
  /\ backlog' = Tail(backlog)
  /\ UNCHANGED <<reported, discarding>>

\* The driver may still be working on older reports when it discards this one.
Discard(k) ==
  /\ discarding
  /\ backlog' = RemoveAt(backlog, k)
  /\ UNCHANGED <<reported, learned, discarding>>

StartOrEndDiscarding ==
  /\ discarding' = ~discarding
  /\ UNCHANGED <<reported, learned, backlog>>

FeedNext ==
  \/ \E f \in Fingers, p \in Places \cup {Up} : ReportFinger(f, p)
  \/ Learn
  \/ \E k \in DOMAIN backlog : Discard(k)
  \/ StartOrEndDiscarding

FeedSpec == FeedInit /\ [][FeedNext]_feedVars
=============================================================================
