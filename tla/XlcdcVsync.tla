----------------------------- MODULE XlcdcVsync -----------------------------
(***************************************************************************)
(* The VSYNC callback table of the XLCDC parent driver: registration and   *)
(* unregistration by threads, and the start-of-frame interrupt that calls  *)
(* what is registered (microchip_sam_xlcdc.c:165-238), with the layer      *)
(* driver's wrappers (microchip_sam_xlcdc_layer.c:556-597).                *)
(*                                                                         *)
(* A client is a layer whose events one caller watches; it keeps the       *)
(* handle it was given, registers when it has none and unregisters what it *)
(* has.  Both calls look at the table before they lock interrupts, and     *)
(* while one thread holds that lock nothing else runs, nor while the       *)
(* interrupt does.  Calls the wrappers refuse (no VSYNC in the mask, not   *)
(* in_isr, no callback) change nothing.                                    *)
(***************************************************************************)
EXTENDS Naturals, FiniteSets, Sequences, SequencesExt

CONSTANTS
  Clients,     \* layers with a VSYNC callback
  MaxCbs,      \* XLCDC_MAX_VSYNC_CBS (4 in the code)
  Usages,      \* ways of using the table to consider
  None,        \* no callback / nobody
  Isr          \* the frame interrupt

ASSUME TableAssumption ==
  /\ IsFiniteSet(Clients)
  /\ MaxCbs \in 1..254     \* vsync_cb_count is a uint8_t
  /\ Usages \subseteq SUBSET {"concurrent", "lifo", "one_shot"}
  /\ None \notin Clients /\ Isr \notin Clients \cup {None}

Entries == 0..(MaxCbs - 1)

VARIABLES
  usage,      \* how the clients of this system use the table; never changes
  cbs,        \* data->vsync_cbs
  cb_count,   \* data->vsync_cb_count
  irq_owner,  \* the thread inside irq_lock() .. irq_unlock(), or the interrupt
  pc,         \* per client: where its running call is
  idx,        \* per client: the local idx of that call
  handle,     \* per client: its layer's vsync_handle, 0 = none
  next,       \* the interrupt's loop variable
  frame       \* history: the callbacks the running interrupt has called

tableVars == <<cbs, cb_count>>
isrVars == <<next, frame>>
vars == <<usage, tableVars, irq_owner, pc, idx, handle, isrVars>>

\* Calls come from several threads and may interleave.
Concurrent == "concurrent" \in usage

\* Clients unregister in the reverse order of registration.
Lifo == "lifo" \in usage

\* Callbacks may unregister themselves, unless their client is doing so.
OneShot == "one_shot" \in usage

Init ==
  /\ usage \in Usages
  /\ cbs = [i \in Entries |-> None]
  /\ cb_count = 0
  /\ irq_owner = None
  /\ pc = [c \in Clients |-> "idle"]
  /\ idx = [c \in Clients |-> 0]
  /\ handle = [c \in Clients |-> 0]
  /\ next = 0 /\ frame = <<>>

\* The processor is not held by another thread's interrupt lock.
MayRun(c) == irq_owner \in {None, c}

MayCall(c) ==
  /\ pc[c] = "idle"
  /\ MayRun(c)
  /\ Concurrent \/ \A d \in Clients : pc[d] = "idle"

Goto(c, label) == pc' = [pc EXCEPT ![c] = label]

\* A write behind the table hits vsync_cb_count itself: the model stops there.
Overrun == \E c \in Clients : pc[c] = "reg_count" /\ idx[c] \notin Entries

(***************************************************************************)
(* xlcdc_parent_register_vsync.                                            *)
(***************************************************************************)
\* Broken on purpose: the test for a full table is off by one.
RegisterCheckLate(c) ==
  /\ MayCall(c) /\ handle[c] = 0
  /\ cb_count <= MaxCbs
  /\ Goto(c, "reg_lock")
  /\ UNCHANGED <<usage, tableVars, irq_owner, idx, handle, isrVars>>

RegisterCheck(c) ==
  /\ MayCall(c) /\ handle[c] = 0
  /\ cb_count < MaxCbs                     \* else -ENOSPC
  /\ Goto(c, "reg_lock")
  /\ UNCHANGED <<usage, tableVars, irq_owner, idx, handle, isrVars>>

\* Broken on purpose: interrupts are not locked.
TakeNoLock(c) == irq_owner = None /\ UNCHANGED irq_owner

\* irq_lock().
TakeLock(c) == irq_owner = None /\ irq_owner' = c

RegisterLock(c) ==
  /\ pc[c] = "reg_lock"
  /\ TakeLock(c)
  /\ idx' = [idx EXCEPT ![c] = cb_count]
  /\ Goto(c, "reg_write")
  /\ UNCHANGED <<usage, tableVars, handle, isrVars>>

RegisterWrite(c) ==
  /\ pc[c] = "reg_write" /\ MayRun(c)
  /\ cbs' = IF idx[c] \in Entries THEN [cbs EXCEPT ![idx[c]] = c] ELSE cbs
  /\ Goto(c, "reg_count")
  /\ UNCHANGED <<usage, cb_count, irq_owner, idx, handle, isrVars>>

RegisterCount(c) ==
  /\ pc[c] = "reg_count" /\ MayRun(c)
  /\ cb_count' = cb_count + 1
  /\ handle' = [handle EXCEPT ![c] = idx[c] + 1]
  /\ irq_owner' = None
  /\ Goto(c, "idle")
  /\ UNCHANGED <<usage, cbs, idx, isrVars>>

(***************************************************************************)
(* xlcdc_parent_unregister_vsync.                                          *)
(***************************************************************************)
\* Broken on purpose: handle 0 is not refused.
UnregisterCheckNot0(c) ==
  /\ MayCall(c)
  /\ handle[c] <= cb_count
  /\ Goto(c, "unreg_lock")
  /\ UNCHANGED <<usage, tableVars, irq_owner, idx, handle, isrVars>>

UnregisterCheck(c) ==
  /\ MayCall(c) /\ handle[c] # 0
  /\ Lifo => handle[c] = cb_count
  /\ handle[c] <= cb_count                 \* else -EINVAL
  /\ Goto(c, "unreg_lock")
  /\ UNCHANGED <<usage, tableVars, irq_owner, idx, handle, isrVars>>

UnregisterLock(c) ==
  /\ pc[c] = "unreg_lock"
  /\ TakeLock(c)
  /\ idx' = [idx EXCEPT ![c] = handle[c] - 1]
  /\ Goto(c, "unreg_shift")
  /\ UNCHANGED <<usage, tableVars, handle, isrVars>>

\* The table after the loop that moves the entries above idx one down.
ShiftedFrom(i) ==
  [j \in Entries |-> IF j >= i /\ j + 1 < cb_count THEN cbs[j + 1] ELSE cbs[j]]

UnregisterShift(c) ==
  /\ pc[c] = "unreg_shift" /\ MayRun(c)
  /\ cbs' = ShiftedFrom(idx[c])
  /\ Goto(c, "unreg_clear")
  /\ UNCHANGED <<usage, cb_count, irq_owner, idx, handle, isrVars>>

\* Broken on purpose: the count is not lowered.
UnregisterNoCount(c) ==
  /\ pc[c] = "unreg_clear" /\ MayRun(c)
  /\ handle' = [handle EXCEPT ![c] = 0]
  /\ irq_owner' = None
  /\ Goto(c, "idle")
  /\ UNCHANGED <<usage, tableVars, idx, isrVars>>

UnregisterClear(c) ==
  /\ pc[c] = "unreg_clear" /\ MayRun(c)
  /\ cb_count' = cb_count - 1
  /\ cbs' = [cbs EXCEPT ![cb_count - 1] = None]
  /\ handle' = [handle EXCEPT ![c] = 0]
  /\ irq_owner' = None
  /\ Goto(c, "idle")
  /\ UNCHANGED <<usage, idx, isrVars>>

(***************************************************************************)
(* xlcdc_isr: the callbacks of the first vsync_cb_count entries, in order. *)
(* A callback that swaps buffers is XlcdcLayer's subject.                  *)
(***************************************************************************)
\* Broken on purpose: the loop starts at the second entry.
SofSkipsFirst ==
  /\ irq_owner = None /\ irq_owner' = Isr
  /\ next' = 1 /\ frame' = <<>>
  /\ UNCHANGED <<usage, tableVars, pc, idx, handle>>

Sof ==
  /\ irq_owner = None /\ irq_owner' = Isr
  /\ next' = 0 /\ frame' = <<>>
  /\ UNCHANGED <<usage, tableVars, pc, idx, handle>>

\* What a callback that unregisters itself does to the table, if the call is
\* not refused: it gives its own handle, but the entry may be another's.
UnregisterSelf(c) ==
  /\ OneShot /\ pc[c] = "idle"
  /\ handle[c] \in 1..cb_count
  /\ cbs' = [ShiftedFrom(handle[c] - 1) EXCEPT ![cb_count - 1] = None]
  /\ cb_count' = cb_count - 1
  /\ handle' = [handle EXCEPT ![c] = 0]

SofCall ==
  /\ irq_owner = Isr /\ next < cb_count
  /\ frame' = IF cbs[next] = None THEN frame ELSE Append(frame, cbs[next])
  /\ next' = next + 1
  /\ \/ UNCHANGED <<tableVars, handle>>
     \/ \E c \in Clients : cbs[next] = c /\ UnregisterSelf(c)
  /\ UNCHANGED <<usage, irq_owner, pc, idx>>

SofReturn ==
  /\ irq_owner = Isr /\ next >= cb_count
  /\ irq_owner' = None
  /\ next' = 0 /\ frame' = <<>>
  /\ UNCHANGED <<usage, tableVars, pc, idx, handle>>

Next ==
  /\ ~Overrun
  /\ \/ Sof \/ SofCall \/ SofReturn
     \/ \E c \in Clients :
          \/ RegisterCheck(c) \/ RegisterLock(c)
          \/ RegisterWrite(c) \/ RegisterCount(c)
          \/ UnregisterCheck(c) \/ UnregisterLock(c)
          \/ UnregisterShift(c) \/ UnregisterClear(c)

Spec == Init /\ [][Next]_vars

-----------------------------------------------------------------------------

Holders == {c \in Clients : handle[c] # 0}

\* Every variable stays in its range (struct xlcdc_parent_data, the locals of
\* the two calls, and the layers' vsync_handle).
TypeOK ==
  /\ usage \in Usages
  /\ cbs \in [Entries -> Clients \cup {None}]
  /\ cb_count \in 0..MaxCbs
  /\ irq_owner \in Clients \cup {None, Isr}
  /\ next \in 0..MaxCbs
  /\ pc \in [Clients -> {"idle", "reg_lock", "reg_write", "reg_count",
                         "unreg_lock", "unreg_shift", "unreg_clear"}]
  /\ idx \in [Clients -> 0..MaxCbs]
  /\ handle \in [Clients -> 0..MaxCbs]

\* The interrupt never finds the table half-changed (:202, :224): whenever it
\* can run, and between its callbacks, the first cb_count entries are callbacks
\* and the others are empty.
SofSeesWholeTable ==
  irq_owner \in {None, Isr} =>
    \A i \in Entries : (cbs[i] # None) <=> i < cb_count

\* However calls interleave, also when a callback unregisters itself between the
\* check and the lock of a thread's call, and even when a handle no longer names
\* its own callback, the table holds as many callbacks as handles are
\* outstanding, so that a balanced use neither leaks slots nor wraps the count.
SlotsMatchHandles ==
  irq_owner \in {None, Isr} => cb_count = Cardinality(Holders)

\* A handle stays good for what it was given for ("@return 0 on success, -EINVAL
\* if handle is invalid", microchip_sam_xlcdc.h:193): the entry it names is the
\* callback of the client that holds it.
HandleNamesItsCallback ==
  irq_owner = None =>
    \A c \in Holders : handle[c] <= cb_count /\ cbs[handle[c] - 1] = c

\* "-ENOSPC if all slots are full" (microchip_sam_xlcdc.h:181): no registration
\* writes behind the last slot.
FullTableRefuses == ~Overrun

\* So it is as long as one call ends before the next begins, whatever the
\* interrupt does in between: the unlocked test (:198) then stays true.
SerialTableRefuses == ~Concurrent => FullTableRefuses

\* When handles are given back in reverse order, one call at a time, and not by
\* the callbacks, a frame calls the callback of every holder once, and no one
\* else's, also between the steps of a running call.
StackUse == Lifo /\ ~Concurrent /\ ~OneShot

FrameCallsHolders ==
  [][SofReturn /\ StackUse => /\ ToSet(frame) = Holders
                             /\ Len(frame) = Cardinality(Holders)]_vars

\* The clients are interchangeable.
ClientSymmetry == Permutations(Clients)
=============================================================================
