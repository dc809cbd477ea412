------------------------------ MODULE MxtInit ------------------------------
(***************************************************************************)
(* mxt_init up to the point where it arms the interrupt or the timer: the  *)
(* reset pin, the probe of two addresses through the system work queue,    *)
(* the information block, the soft reset, the configuration                *)
(* (drivers/input/microchip_maxtouch.c:91-472, 801-1049).  MxtDrain takes  *)
(* over from there.                                                        *)
(*                                                                         *)
(* A locked transfer is one step.  It fails when the controller does not   *)
(* answer at the address, and on a faulty bus at any time.                 *)
(***************************************************************************)
EXTENDS MxtInfo

CONSTANTS
  Tables,        \* object tables of the controllers considered
  Standard,      \* the table used where a board does not vary it
  PollLimit,     \* turns of mxt_soft_reset's loop       (30 in the code)
  MaxMsgCount,   \* MXT_MAX_MSG_COUNT                    (20 in the code)
  DrainLimit,    \* reads of mxt_drain_messages          (50 in the code)
  QueueCap,      \* messages the controller holds (bounds the model)
  Addresses,     \* the two I2C addresses
  DtAddr,        \* the one of the devicetree
  Flips,         \* <<byte, weight>>: the bits a noisy transfer may invert
  Boards         \* the boards and builds considered

\* What a board can have; the operators below name each.
Options == {"interrupt", "reset_gpio", "warm_start", "other_addr", "slow_bus",
            "frame_reused", "faulty_bus", "noise", "slow_reset", "any_table"}

ASSUME InitAssumption ==
  /\ Standard \in Tables
  /\ \A t \in Tables : t \in Seq(ObjectRecord) /\ Len(t) <= 255
  /\ PollLimit \in Nat \ {0} /\ MaxMsgCount \in Nat \ {0}
  /\ DrainLimit \in Nat \ {0} /\ QueueCap \in Nat \ {0}
  /\ 0 \notin Addresses
  /\ \E other \in Addresses \ {DtAddr} : Addresses = {DtAddr, other}
  /\ Flips \subseteq (Nat \ {0}) \X {1, 2, 4, 8, 16, 32, 64, 128}
  /\ Boards \subseteq SUBSET Options

VARIABLES
  board,      \* the options of this board; never changes
  table,      \* the controller's object table; never changes
  memory,     \* the information block it keeps for that; never changes
  chip,       \* the controller: state, queue and the settings the driver uses
  worker,     \* system work queue: pending items, the running one, its address
  frames,     \* the struct mxt_probe_ctx on the stack of each probe
  pc,         \* where mxt_init is; "undefined" after the worker has used the
              \* stack frame of a probe that is over
  actual_address, num_objects, info, t7_cfg,  \* of struct mxt_data
  block, index, crc,  \* info_block, the place of the loop over it, its CRC
  polls,      \* turns of the loop of mxt_soft_reset made
  left,       \* messages of this turn, or T5 reads of the drain, still to come
  timed_out,  \* history: a probe gave up waiting
  gave_up     \* history: no reset message within PollLimit turns

given == <<board, table, memory>>
dataVars == <<actual_address, num_objects, info, t7_cfg>>
blockVars == <<block, index, crc>>
loopVars == <<polls, left>>
probeVars == <<worker, frames, timed_out>>
localVars == <<blockVars, loopVars, gave_up>>
vars == <<given, chip, probeVars, pc, dataVars, localVars>>

InterruptBuild == "interrupt" \in board     \* CONFIG_..._MAXTOUCH_INTERRUPT
ResetGpio    == "reset_gpio" \in board      \* cfg->rst_gpio.port != NULL
WarmStart    == "warm_start" \in board      \* the controller was not powered up
OtherAddr    == "other_addr" \in board      \* it is not where the DT says
SlowBus      == "slow_bus" \in board        \* a probe may take more than 2 s
FrameReused  == "frame_reused" \in board    \* both probes have one stack frame
FaultyBus    == "faulty_bus" \in board      \* any transfer may fail
Noise        == "noise" \in board           \* .. or read one bit wrong
SlowReset    == "slow_reset" \in board      \* a reset command may wait > 100 ms

None == 0
AltAddr == CHOOSE a \in Addresses : a # DtAddr
ChipAddr == IF OtherAddr THEN AltAddr ELSE DtAddr

ProbeAddr(n) == IF n = 1 THEN DtAddr ELSE AltAddr

Messages == {"reset", "t6", "other"}   \* "t6": a status without the reset bit
NvmTouches == 16                       \* NUMTCH after a reset: any other value

Init ==
  /\ board \in Boards
  /\ table \in IF "any_table" \in board THEN Tables ELSE {Standard}
  /\ memory = InfoBlock(table)
  /\ chip \in [state : IF WarmStart THEN {"up"} ELSE {"up", "down"},
               queue : IF WarmStart THEN {<<>>, <<"other">>} ELSE {<<"reset">>},
               numtch : IF WarmStart THEN {NvmTouches, 2} ELSE {NvmTouches},
               mode1 : {FALSE},
               t7 : IF WarmStart THEN {"nvm", "asleep"} ELSE {"nvm"}]
  /\ worker = [pending |-> <<>>, running |-> None, addr |-> DtAddr]
  /\ frames = [n \in 1..2 |-> [addr |-> DtAddr, result |-> "timeout",
                               done |-> FALSE]]
  /\ pc = "start"
  /\ actual_address = None /\ num_objects = 0 /\ info = NothingParsed
  /\ t7_cfg = "zero"
  /\ block = <<>> /\ index = 1 /\ crc = {}
  /\ polls = 0 /\ left = 0
  /\ timed_out = FALSE /\ gave_up = FALSE

(***************************************************************************)
(* The controller (external).                                              *)
(***************************************************************************)
\* A reset ends: settings come from its memory, a message says so.
ChipUp ==
  /\ chip.state = "down"
  /\ chip' = [chip EXCEPT !.state = "up", !.queue = <<"reset">>,
                          !.numtch = NvmTouches, !.mode1 = FALSE, !.t7 = "nvm"]
  /\ UNCHANGED <<given, probeVars, pc, dataVars, localVars>>

\* A reset command that had to wait takes effect.
ChipDown ==
  /\ chip.state = "late"
  /\ chip' = [chip EXCEPT !.state = "down"]
  /\ UNCHANGED <<given, probeVars, pc, dataVars, localVars>>

ChipReports(m) ==
  /\ chip.state # "down" /\ pc \in {"poll", "messages", "drain"}
  /\ Len(chip.queue) < QueueCap
  /\ chip' = [chip EXCEPT !.queue = Append(@, m)]
  /\ UNCHANGED <<given, probeVars, pc, dataVars, localVars>>

Answers(addr) == chip.state # "down" /\ addr = ChipAddr

\* The outcomes of a transfer: TRUE for success.
Transfer(addr) ==
  {ok \in BOOLEAN : IF ok THEN Answers(addr) ELSE ~Answers(addr) \/ FaultyBus}

FlipBit(bytes, at) ==
  LET isSet == (bytes[at[1]] \div at[2]) % 2 = 1
  IN [bytes EXCEPT ![at[1]] = IF isSet THEN @ - at[2] ELSE @ + at[2]]

\* What a read of the first len bytes of the controller's memory may deliver.
Delivered(len) ==
  LET first == [p \in 1..len |-> IF p <= Len(memory) THEN memory[p] ELSE 0]
  IN {first} \cup IF Noise THEN {FlipBit(first, at) : at \in
                                   {f \in Flips : f[1] <= len}} ELSE {}

(***************************************************************************)
(* The address probe.                                                      *)
(***************************************************************************)
Frame(n) == IF FrameReused THEN 1 ELSE n
Waiting(n) == pc = IF n = 1 THEN "wait1" ELSE "wait2"
Live(f) == \E n \in 1..2 : Waiting(n) /\ Frame(n) = f

\* mxt_probe_address up to k_sem_take.  An item that is still queued is queued
\* twice when its memory is initialised again.
ProbeSubmit(n) ==
  /\ pc = IF n = 1 THEN "probe1" ELSE "probe2"
  /\ frames' = [frames EXCEPT ![Frame(n)] = [addr |-> ProbeAddr(n),
                                             result |-> "timeout",
                                             done |-> FALSE]]
  /\ worker' = [worker EXCEPT !.pending = Append(@, Frame(n))]
  /\ pc' = CASE Frame(n) \in ToSet(worker.pending) -> "undefined"
             [] OTHER -> IF n = 1 THEN "wait1" ELSE "wait2"
  /\ UNCHANGED <<given, chip, dataVars, localVars, timed_out>>

\* Broken on purpose: the semaphore is given before the transfer.
WorkGivesFirst ==
  /\ worker.running = None /\ worker.pending # <<>>
  /\ LET f == Head(worker.pending)
     IN /\ worker' = [pending |-> Tail(worker.pending), running |-> f,
                      addr |-> frames[f].addr]
        /\ frames' = [frames EXCEPT ![f].done = TRUE]
        /\ pc' = IF Live(f) THEN pc ELSE "undefined"
  /\ UNCHANGED <<given, chip, dataVars, localVars, timed_out>>

\* mxt_probe_work_fn: its item is in the frame of the probe.
WorkStart ==
  /\ worker.running = None /\ worker.pending # <<>>
  /\ LET f == Head(worker.pending)
     IN /\ worker' = [pending |-> Tail(worker.pending), running |-> f,
                      addr |-> frames[f].addr]
        /\ pc' = IF Live(f) THEN pc ELSE "undefined"
  /\ UNCHANGED <<given, chip, frames, dataVars, localVars, timed_out>>

WorkEnd ==
  /\ worker.running # None
  /\ \E ok \in Transfer(worker.addr) :
       frames' = [frames EXCEPT ![worker.running].result =
                                  IF ok THEN "found" ELSE "nothing",
                                ![worker.running].done = TRUE]
  /\ worker' = [worker EXCEPT !.running = None]
  /\ pc' = IF Live(worker.running) THEN pc ELSE "undefined"
  /\ UNCHANGED <<given, chip, dataVars, localVars, timed_out>>

\* The semaphore is taken, the result returned to mxt_init.
ProbeTake(n) ==
  /\ Waiting(n) /\ frames[Frame(n)].done
  /\ IF frames[Frame(n)].result = "found"
       THEN /\ actual_address' = ProbeAddr(n)
            /\ pc' = "header"
       ELSE /\ pc' = IF n = 1 THEN "probe2" ELSE "failed"
            /\ UNCHANGED actual_address
  /\ UNCHANGED <<given, chip, probeVars, num_objects, info, t7_cfg,
                 localVars>>

\* Broken on purpose: the wait has no limit.
ProbeWaitsForever(n) == FALSE /\ n = 1 /\ UNCHANGED vars

\* MXT_PROBE_TIMEOUT_MS is over: the work item stays where it is.
ProbeTimeout(n) ==
  /\ SlowBus
  /\ Waiting(n) /\ ~frames[Frame(n)].done
  /\ timed_out' = TRUE
  /\ pc' = IF n = 1 THEN "probe2" ELSE "failed"
  /\ UNCHANGED <<given, chip, worker, frames, dataVars, localVars>>

(***************************************************************************)
(* mxt_init.                                                               *)
(***************************************************************************)
Goto(label) ==
  /\ pc' = label
  /\ UNCHANGED <<given, probeVars>>

\* mxt_hw_reset, if there is a pin.
HwReset(c) ==
  IF ResetGpio THEN [c EXCEPT !.state = "down", !.queue = <<>>] ELSE c

\* Up to the probe: the bus and the reset pin are there or not.
Start ==
  /\ pc = "start"
  /\ \E ready \in BOOLEAN :
       /\ Goto(IF ready THEN "probe1" ELSE "failed")
       /\ chip' = IF ready THEN HwReset(chip) ELSE chip
  /\ UNCHANGED <<dataVars, localVars>>

\* mxt_read_info_block, the header.
ReadHeader ==
  /\ pc = "header"
  /\ \E ok \in Transfer(actual_address), bytes \in Delivered(InfoSize) :
       /\ num_objects' = IF ok THEN bytes[InfoSize] ELSE num_objects
       /\ Goto(IF ok /\ bytes[InfoSize] \in 1..MaxObjects THEN "block"
                                                         ELSE "failed")
  /\ UNCHANGED <<chip, actual_address, info, t7_cfg, localVars>>

BlockSize == InfoSize + num_objects * ObjectSize + ChecksumSize

\* .. the whole block.
ReadBlock ==
  /\ pc = "block"
  /\ \E ok \in Transfer(actual_address), bytes \in Delivered(BlockSize) :
       /\ block' = IF ok THEN bytes ELSE block
       /\ Goto(IF ok THEN "crc" ELSE "failed")
  /\ index' = 1
  /\ UNCHANGED <<chip, dataVars, crc, loopVars, gave_up>>

CrcOffset == Len(block) - ChecksumSize

\* mxt_crc24: pairs of bytes, then a last byte with a zero.
CrcStep ==
  /\ pc = "crc" /\ index <= CrcOffset
  /\ crc' = Crc24Step(crc, block[index],
                      IF index < CrcOffset THEN block[index + 1] ELSE 0)
  /\ index' = index + 2
  /\ Goto("crc")
  /\ UNCHANGED <<chip, dataVars, block, loopVars, gave_up>>

\* Broken on purpose: the stored CRC is not compared.
AnyCrcMatches == TRUE

CrcMatches ==
  crc \cap 0..23 = StoredCrc(block[CrcOffset + 1], block[CrcOffset + 2],
                             block[CrcOffset + 3])

CrcCompare ==
  /\ pc = "crc" /\ index > CrcOffset
  /\ Goto(IF CrcMatches THEN "parse" ELSE "failed")
  /\ index' = 1
  /\ UNCHANGED <<chip, dataVars, block, crc, loopVars, gave_up>>

\* One object of the table, then the two limits.
ParseStep ==
  /\ pc = "parse" /\ index <= num_objects
  /\ info' = ParseObject(info, ObjectAt(block, index))
  /\ index' = index + 1
  /\ Goto("parse")
  /\ UNCHANGED <<chip, actual_address, num_objects, t7_cfg, block, crc,
                 loopVars, gave_up>>

ParseEnd ==
  /\ pc = "parse" /\ index > num_objects
  /\ IF HasRequired(info)
       THEN info' = Limited(info) /\ Goto("t7")
       ELSE Goto("failed") /\ UNCHANGED info
  /\ UNCHANGED <<chip, actual_address, num_objects, t7_cfg, localVars>>

\* Broken on purpose: a failed read does not end the initialisation.
ReadT7Anyway ==
  /\ pc = "t7"
  /\ \E ok \in Transfer(actual_address) :
       /\ t7_cfg' = IF ok /\ info.t7_address # 0 THEN chip.t7 ELSE t7_cfg
       /\ Goto("reset")
  /\ UNCHANGED <<chip, actual_address, num_objects, info, localVars>>

\* mxt_read_t7_config.
ReadT7 ==
  /\ pc = "t7"
  /\ IF info.t7_address = 0
       THEN Goto("reset") /\ UNCHANGED t7_cfg
       ELSE \E ok \in Transfer(actual_address) :
              /\ t7_cfg' = IF ok THEN chip.t7 ELSE t7_cfg
              /\ Goto(IF ok THEN "reset" ELSE "failed")
  /\ UNCHANGED <<chip, actual_address, num_objects, info, localVars>>

StartDrain == /\ Goto("drain") /\ left' = DrainLimit

\* mxt_soft_reset, the command.  Its error is not looked at.
SendReset ==
  /\ pc = "reset"
  /\ \E ok \in Transfer(actual_address) :
       IF ok THEN /\ Goto("poll") /\ UNCHANGED left
                  /\ \/ chip' = [chip EXCEPT !.state = "down", !.queue = <<>>]
                     \/ SlowReset /\ chip' = [chip EXCEPT !.state = "late"]
             ELSE StartDrain /\ UNCHANGED chip
  /\ UNCHANGED <<dataVars, blockVars, polls, gave_up>>

\* Broken on purpose: the message is not waited for.
PollNothing ==
  /\ pc = "poll"
  /\ StartDrain
  /\ UNCHANGED <<chip, dataVars, blockVars, polls, gave_up>>

\* A turn of its loop reads T44; failure and zero mean another 100 ms.
Poll ==
  /\ pc = "poll" /\ polls < PollLimit
  /\ \E ok \in Transfer(actual_address) :
       IF ok /\ chip.queue # <<>>
         THEN /\ left' = Smallest(Len(chip.queue), MaxMsgCount)
              /\ Goto("messages")
              /\ UNCHANGED polls
         ELSE polls' = polls + 1 /\ Goto("poll") /\ UNCHANGED left
  /\ UNCHANGED <<chip, dataVars, blockVars, gave_up>>

PollTimeout ==
  /\ pc = "poll" /\ polls = PollLimit
  /\ gave_up' = TRUE
  /\ StartDrain
  /\ UNCHANGED <<chip, dataVars, blockVars, polls>>

\* One T5 read: the next message, or an invalid one.
NextMessage == IF chip.queue = <<>> THEN "invalid" ELSE Head(chip.queue)
TakeMessage ==
  chip' = [chip EXCEPT !.queue = IF @ = <<>> THEN @ ELSE Tail(@)]

PollMessage ==
  /\ pc = "messages"
  /\ \E ok \in Transfer(actual_address) :
       IF ~ok THEN /\ polls' = polls + 1
                   /\ Goto("poll")
                   /\ UNCHANGED <<chip, left>>
       ELSE /\ TakeMessage
            /\ IF NextMessage = "reset"
                 THEN StartDrain /\ UNCHANGED polls
                 ELSE /\ left' = left - 1
                      /\ polls' = IF left = 1 THEN polls + 1 ELSE polls
                      /\ Goto(IF left = 1 THEN "poll" ELSE "messages")
  /\ UNCHANGED <<dataVars, blockVars, gave_up>>

\* mxt_drain_messages.
Drain ==
  /\ pc = "drain"
  /\ IF left = 0 THEN Goto("t100") /\ UNCHANGED <<chip, left>>
     ELSE \E ok \in Transfer(actual_address) :
            IF ok /\ NextMessage # "invalid"
              THEN /\ TakeMessage
                   /\ left' = left - 1
                   /\ Goto("drain")
              ELSE Goto("t100") /\ UNCHANGED <<chip, left>>
  /\ UNCHANGED <<dataVars, blockVars, polls, gave_up>>

AfterT100 == IF InterruptBuild /\ info.t18_address # 0 THEN "t18" ELSE "ready"

\* mxt_configure_t100, the read.  No error of it ends the initialisation.
ReadNumtch ==
  /\ pc = "t100"
  /\ \E ok \in Transfer(actual_address) :
       Goto(IF info.t100_address # 0 /\ ok /\ chip.numtch # info.num_touchids
              THEN "t100_write" ELSE AfterT100)
  /\ UNCHANGED <<chip, dataVars, localVars>>

WriteNumtch ==
  /\ pc = "t100_write"
  /\ \E ok \in Transfer(actual_address) :
       chip' = IF ok THEN [chip EXCEPT !.numtch = info.num_touchids] ELSE chip
  /\ Goto(AfterT100)
  /\ UNCHANGED <<dataVars, localVars>>

\* mxt_set_chg_mode1, only in an interrupt build with a T18.
ReadChgMode ==
  /\ pc = "t18"
  /\ \E ok \in Transfer(actual_address) :
       Goto(IF ok /\ ~chip.mode1 THEN "t18_write" ELSE "ready")
  /\ UNCHANGED <<chip, dataVars, localVars>>

WriteChgMode ==
  /\ pc = "t18_write"
  /\ \E ok \in Transfer(actual_address) :
       chip' = IF ok THEN [chip EXCEPT !.mode1 = TRUE] ELSE chip
  /\ Goto("ready")
  /\ UNCHANGED <<dataVars, localVars>>

InitStep ==
  \/ Start \/ ReadHeader \/ ReadBlock \/ CrcStep \/ CrcCompare
  \/ ParseStep \/ ParseEnd \/ ReadT7 \/ SendReset
  \/ Poll \/ PollTimeout \/ PollMessage \/ Drain
  \/ ReadNumtch \/ WriteNumtch \/ ReadChgMode \/ WriteChgMode
  \/ \E n \in 1..2 : ProbeSubmit(n) \/ ProbeTake(n) \/ ProbeTimeout(n)

Next ==
  \/ InitStep \/ WorkStart \/ WorkEnd
  \/ ChipUp \/ ChipDown
  \/ \E m \in Messages \ {"reset"} : ChipReports(m)

Spec == Init /\ [][Next]_vars

\* The init thread runs, and the work queue serves an idle bus.  A stuck bus
\* may keep its transfer for ever, and nothing obliges the controller to come
\* back from a reset.
FairSpec ==
  /\ Spec
  /\ WF_vars(InitStep) /\ WF_vars(WorkStart) /\ WF_vars(~SlowBus /\ WorkEnd)

-----------------------------------------------------------------------------

Labels == {"start", "probe1", "wait1", "probe2", "wait2", "header", "block",
           "crc", "parse", "t7", "reset", "poll", "messages", "drain", "t100",
           "t100_write", "t18", "t18_write", "ready", "failed", "undefined"}

\* Every variable stays in its range.
TypeOK ==
  /\ board \in Boards /\ table \in Tables
  /\ chip.state \in {"up", "late", "down"}
  /\ chip.queue \in Seq(Messages) /\ Len(chip.queue) <= QueueCap
  /\ chip.numtch \in 0..255 /\ chip.mode1 \in BOOLEAN
  /\ chip.t7 \in {"nvm", "asleep"}
  /\ worker.running \in {None, 1, 2} /\ worker.pending \in Seq(1..2)
  /\ frames \in [1..2 -> [addr : Addresses, done : BOOLEAN,
                          result : {"timeout", "found", "nothing"}]]
  /\ pc \in Labels
  /\ actual_address \in Addresses \cup {None}
  /\ num_objects \in 0..255
  /\ \A f \in {"t5_msg_size", "t6_reportid", "t100_reportid_min",
               "t100_reportid_max", "reportid"} : info[f] \in 0..255
  /\ info.num_touchids \in 0..255
  /\ pc \notin {"parse", "failed", "undefined"} =>
       info.num_touchids <= MaxTouches
  /\ t7_cfg \in {"zero", "nvm", "asleep"}
  /\ polls \in 0..PollLimit
  /\ left \in 0..(DrainLimit + MaxMsgCount)
  /\ crc \subseteq 0..31

\* A block with an inverted bit is never taken for the table, neither one with a
\* wrong number of objects, which moves the place of the CRC (:254-280).
CorruptBlockRejected ==
  pc = "t7" => /\ num_objects = Len(table)
               /\ info = Parsed(table)

\* The driver understands every report id as the controller means it, although
\* it counts them in eight bits and learns only the first and last (:298-336).
IdsMatchTable ==
  pc = "t7" /\ IdsFit(table) =>
    \A r \in 1..254 : Dispatch(info, r) = Meaning(table, r)

\* As long as no probe times out, its work item does not outlive it, and the
\* address the driver goes on with is the one at which the controller answered.
ProbeIsSafeInTime ==
  ~timed_out => /\ pc # "undefined"
                /\ actual_address # None => actual_address = ChipAddr

\* The settings written after the soft reset are there at the end of init: the
\* reset is over when they are written (:1042-1049).  A controller without one of
\* the two objects has nothing to set.
ConfigTakes ==
  pc = "ready" /\ ~FaultyBus /\ ~SlowReset /\ ~gave_up =>
    /\ info.t100_address # 0 => chip.numtch = info.num_touchids
    /\ InterruptBuild /\ info.t18_address # 0 => chip.mode1

\* What resume will write back to T7 (:930) is the controller's own power
\* configuration.  T7 is read before the soft reset (:1036-1042): a controller
\* put to sleep by a previous run and not reset since gives its sleep setting.
SavedPowerIsAwake ==
  pc = "ready" /\ info.t7_address # 0 /\ (ResetGpio \/ ~WarmStart)
    => t7_cfg = "nvm"

\* Initialisation ends, also with a bus stuck in a probe or a controller that
\* does not come back from its reset.
InitReturns == <>(pc \in {"ready", "failed", "undefined"})
=============================================================================
