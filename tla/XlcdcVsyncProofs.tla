-------------------------- MODULE XlcdcVsyncProofs --------------------------
(***************************************************************************)
(* For every number of clients and slots: the frame interrupt never finds  *)
(* the VSYNC callback table half-changed, no call leaks a slot, a serial   *)
(* use never overruns the table, and with handles given back in reverse    *)
(* order a frame calls every holder once.                                  *)
(*                                                                         *)
(* The first two invariants need each other: that the count is the number  *)
(* of handles keeps the count from going below zero.                       *)
(***************************************************************************)
EXTENDS XlcdcVsync, FiniteSetTheorems, TLAPS

Locked == {"reg_write", "reg_count", "unreg_shift", "unreg_clear"}
Registering == {"reg_lock", "reg_write", "reg_count"}
Unregistering == {"unreg_lock", "unreg_shift", "unreg_clear"}

\* The client that owns the interrupt lock is the one between irq_lock and
\* irq_unlock.
LockInv == \A c \in Clients : irq_owner = c <=> pc[c] \in Locked

\* What a running call knows of its handle and of its local idx.
CallInv ==
  \A c \in Clients :
    /\ pc[c] \in Registering => handle[c] = 0
    /\ pc[c] \in Unregistering => handle[c] # 0
    /\ pc[c] \in {"reg_write", "reg_count"} => idx[c] = cb_count
    /\ pc[c] \in {"unreg_shift", "unreg_clear"} => idx[c] = handle[c] - 1

\* The length of the table that is filled: one more than the count between the
\* write of a new entry and the increment.
Filled ==
  IF irq_owner \in Clients /\ pc[irq_owner] = "reg_count" THEN cb_count + 1
                                                          ELSE cb_count

TableInv ==
  /\ \A i \in Entries : (cbs[i] # None) <=> i < Filled
  /\ cb_count = Cardinality(Holders)

IInv == TypeOK /\ LockInv /\ CallInv /\ TableInv

\* One call at a time: none runs into a full table.
SerialInv ==
  ~Concurrent =>
    /\ \A c, d \in Clients : pc[c] # "idle" /\ pc[d] # "idle" => c = d
    /\ \A c \in Clients : pc[c] \in Registering => cb_count < MaxCbs

\* Used as a stack, entry i is the callback of the client with handle i + 1.
StackInv ==
  StackUse =>
    /\ \A i \in Entries : i < cb_count => /\ cbs[i] \in Clients
                                         /\ handle[cbs[i]] = i + 1
    /\ \A c \in Clients :
         /\ handle[c] # 0 => /\ handle[c] <= cb_count
                             /\ cbs[handle[c] - 1] = c
         /\ pc[c] = "reg_count" => cbs[cb_count] = c
         /\ pc[c] \in Unregistering => handle[c] = cb_count

\* The interrupt has called the first next entries.
FrameInv ==
  StackUse /\ irq_owner = Isr =>
    /\ next <= cb_count
    /\ frame \in Seq(Clients) /\ Len(frame) = next
    /\ \A k \in 1..next : frame[k] = cbs[k - 1]
-----------------------------------------------------------------------------

\* The way of using the table never changes.
LEMMA UsageKept ==
  ASSUME [Next]_vars
  PROVE  /\ usage' = usage /\ StackUse' = StackUse
         /\ Concurrent' = Concurrent /\ OneShot' = OneShot /\ Lifo' = Lifo
<1>1. usage' = usage
  BY DEF Next, vars, Sof, SofCall, SofReturn, RegisterCheck, RegisterLock,
    RegisterWrite, RegisterCount, UnregisterCheck, UnregisterLock,
    UnregisterShift, UnregisterClear
<1>2. QED
  BY <1>1 DEF StackUse, Concurrent, OneShot, Lifo

\* What a client becoming a holder, or ceasing to be one, does to the count.
LEMMA HoldersStep ==
  ASSUME TypeOK, NEW c \in Clients, NEW h \in Nat,
         handle' = [handle EXCEPT ![c] = h]
  PROVE  /\ Cardinality(Holders) \in Nat
         /\ handle[c] = 0 /\ h # 0 =>
              Cardinality(Holders') = Cardinality(Holders) + 1
         /\ handle[c] # 0 /\ h = 0 =>
              /\ Cardinality(Holders') = Cardinality(Holders) - 1
              /\ Cardinality(Holders) > 0
<1>1. IsFiniteSet(Holders)
  BY TableAssumption, FS_Subset DEF Holders
<1>2. Cardinality(Holders) \in Nat
  BY <1>1, FS_CardinalityType
<1>3. ASSUME handle[c] = 0, h # 0
      PROVE  Cardinality(Holders') = Cardinality(Holders) + 1
  <2>1. Holders' = Holders \cup {c} /\ c \notin Holders
    BY <1>3 DEF Holders, TypeOK
  <2>2. QED
    BY <1>1, <2>1, FS_AddElement
<1>4. ASSUME handle[c] # 0, h = 0
      PROVE  /\ Cardinality(Holders') = Cardinality(Holders) - 1
             /\ Cardinality(Holders) > 0
  <2>1. Holders' = Holders \ {c} /\ c \in Holders
    BY <1>4 DEF Holders, TypeOK
  <2>2. Cardinality(Holders) # 0
    BY <1>1, <2>1, FS_EmptySet
  <2>3. Cardinality(Holders \ {c}) = Cardinality(Holders) - 1
    BY <1>1, <2>1, FS_RemoveElement
  <2>4. QED
    BY <1>2, <2>1, <2>2, <2>3
<1>5. QED
  BY <1>2, <1>3, <1>4

\* The shift keeps the filled part filled, and moves nothing for the last entry.
LEMMA ShiftFacts ==
  ASSUME TypeOK, NEW i \in 0..MaxCbs
  PROVE  /\ ShiftedFrom(i) \in [Entries -> Clients \cup {None}]
         /\ (\A j \in Entries : (cbs[j] # None) <=> j < cb_count) =>
              \A j \in Entries : (ShiftedFrom(i)[j] # None) <=> j < cb_count
         /\ i = cb_count - 1 => ShiftedFrom(i) = cbs
  BY TableAssumption DEF TypeOK, ShiftedFrom, Entries

-----------------------------------------------------------------------------

\* The lock has one owner, and a running call's handle and idx are current.
LEMMA LockStep ==
  ASSUME TypeOK, LockInv, CallInv, [Next]_vars
  PROVE  LockInv' /\ CallInv'
<1> USE TableAssumption
    DEF TypeOK, LockInv, CallInv, Locked, Registering, Unregistering, Goto,
      MayRun, MayCall, TakeLock
<1>1. CASE Sof
  BY <1>1 DEF Sof
<1>2. CASE SofCall
  BY <1>2 DEF SofCall, UnregisterSelf
<1>3. CASE SofReturn
  BY <1>3 DEF SofReturn
<1>4. ASSUME NEW c \in Clients, RegisterCheck(c)
      PROVE  LockInv' /\ CallInv'
  BY <1>4 DEF RegisterCheck
<1>5. ASSUME NEW c \in Clients, RegisterLock(c)
      PROVE  LockInv' /\ CallInv'
  BY <1>5 DEF RegisterLock, tableVars
<1>6. ASSUME NEW c \in Clients, RegisterWrite(c)
      PROVE  LockInv' /\ CallInv'
  BY <1>6 DEF RegisterWrite
<1>7. ASSUME NEW c \in Clients, RegisterCount(c)
      PROVE  LockInv' /\ CallInv'
  BY <1>7 DEF RegisterCount
<1>8. ASSUME NEW c \in Clients, UnregisterCheck(c)
      PROVE  LockInv' /\ CallInv'
  BY <1>8 DEF UnregisterCheck
<1>9. ASSUME NEW c \in Clients, UnregisterLock(c)
      PROVE  LockInv' /\ CallInv'
  BY <1>9 DEF UnregisterLock
<1>10. ASSUME NEW c \in Clients, UnregisterShift(c)
       PROVE  LockInv' /\ CallInv'
  BY <1>10 DEF UnregisterShift
<1>11. ASSUME NEW c \in Clients, UnregisterClear(c)
       PROVE  LockInv' /\ CallInv'
  BY <1>11 DEF UnregisterClear
<1>12. CASE UNCHANGED vars
  BY <1>12 DEF vars, tableVars, isrVars
<1>13. QED
  BY <1>1, <1>2, <1>3, <1>4, <1>5, <1>6, <1>7, <1>8, <1>9, <1>10, <1>11,
    <1>12 DEF Next

\* The variables stay in their ranges.
LEMMA TypeStep ==
  ASSUME IInv, [Next]_vars
  PROVE  TypeOK'
<1>1. Cardinality(Holders) = cb_count
  BY DEF IInv, TableInv
<1> USE TableAssumption, UsageKept
    DEF IInv, TypeOK, Goto, TakeLock, tableVars, isrVars
<1>2. CASE Sof
  BY <1>2 DEF Sof
<1>3. CASE SofCall
  <2>1. next' \in 0..MaxCbs
    BY <1>3 DEF SofCall
  <2>2. CASE UNCHANGED <<tableVars, handle>>
    BY <1>3, <2>1, <2>2 DEF SofCall
  <2>3. ASSUME NEW c \in Clients, UnregisterSelf(c)
        PROVE  TypeOK'
    <3>1. ShiftedFrom(handle[c] - 1) \in [Entries -> Clients \cup {None}]
      BY <2>3, ShiftFacts DEF UnregisterSelf
    <3>2. cb_count' \in 0..MaxCbs /\ handle' \in [Clients -> 0..MaxCbs]
      BY <2>3 DEF UnregisterSelf
    <3>3. cbs' \in [Entries -> Clients \cup {None}]
      BY <2>3, <3>1 DEF UnregisterSelf
    <3>4. QED
      BY <1>3, <2>1, <3>2, <3>3 DEF SofCall
  <2>4. QED
    BY <1>3, <2>2, <2>3 DEF SofCall
<1>4. CASE SofReturn
  BY <1>4 DEF SofReturn
<1>5. ASSUME NEW c \in Clients, RegisterCheck(c)
      PROVE  TypeOK'
  BY <1>5 DEF RegisterCheck
<1>6. ASSUME NEW c \in Clients, RegisterLock(c)
      PROVE  TypeOK'
  BY <1>6 DEF RegisterLock
<1>7. ASSUME NEW c \in Clients, RegisterWrite(c)
      PROVE  TypeOK'
  BY <1>7 DEF RegisterWrite
<1>8. ASSUME NEW c \in Clients, RegisterCount(c), ~Overrun
      PROVE  TypeOK'
  BY <1>8 DEF RegisterCount, Overrun, Entries, CallInv
<1>9. ASSUME NEW c \in Clients, UnregisterCheck(c)
      PROVE  TypeOK'
  BY <1>9 DEF UnregisterCheck
<1>10. ASSUME NEW c \in Clients, UnregisterLock(c)
       PROVE  TypeOK'
  BY <1>10 DEF UnregisterLock, CallInv, Unregistering
<1>11. ASSUME NEW c \in Clients, UnregisterShift(c)
       PROVE  TypeOK'
  <2>1. ShiftedFrom(idx[c]) \in [Entries -> Clients \cup {None}]
    BY ShiftFacts
  <2>2. QED
    BY <1>11, <2>1 DEF UnregisterShift
<1>12. ASSUME NEW c \in Clients, UnregisterClear(c)
       PROVE  TypeOK'
  <2>1. cb_count > 0
    <3>1. handle[c] # 0 /\ handle' = [handle EXCEPT ![c] = 0]
      BY <1>12 DEF UnregisterClear, CallInv, Unregistering
    <3>2. QED
      BY <1>1, <3>1, HoldersStep
  <2>2. QED
    BY <1>12, <2>1 DEF UnregisterClear, Entries
<1>13. CASE UNCHANGED vars
  BY <1>13 DEF vars
<1>14. QED
  BY <1>2, <1>3, <1>4, <1>5, <1>6, <1>7, <1>8, <1>9, <1>10, <1>11, <1>12,
    <1>13 DEF Next

\* The table is filled up to its count, which counts the handles.
LEMMA TableStep ==
  ASSUME IInv, [Next]_vars
  PROVE  TableInv'
<1> DEFINE WholeTable == \A i \in Entries : (cbs[i] # None) <=> i < Filled
<1>1. cb_count = Cardinality(Holders)
  BY DEF IInv, TableInv
<1>2. ASSUME handle' = handle, cb_count' = cb_count
      PROVE  cb_count' = Cardinality(Holders')
  BY <1>1, <1>2 DEF Holders
<1>3. WholeTable
  BY DEF IInv, TableInv
<1> USE TableAssumption
    DEF IInv, TypeOK, LockInv, Locked, Filled, Entries, Goto, TakeLock,
      MayRun, tableVars, isrVars
<1>4. CASE Sof \/ SofReturn
  <2>1. cbs' = cbs /\ Filled' = Filled
    BY <1>4 DEF Sof, SofReturn
  <2>2. handle' = handle /\ cb_count' = cb_count
    BY <1>4 DEF Sof, SofReturn
  <2>3. QED
    BY <1>2, <1>3, <2>1, <2>2 DEF TableInv
<1>5. CASE SofCall
  <2>1. irq_owner = Isr /\ irq_owner' = Isr /\ pc' = pc /\ Filled = cb_count
        /\ Filled' = cb_count'
    BY <1>5 DEF SofCall
  <2>2. CASE UNCHANGED <<tableVars, handle>>
    BY <1>2, <1>3, <2>1, <2>2 DEF TableInv
  <2>3. ASSUME NEW c \in Clients, UnregisterSelf(c)
        PROVE  TableInv'
    <3>1. \A j \in Entries :
            (ShiftedFrom(handle[c] - 1)[j] # None) <=> j < cb_count
      <4>1. handle[c] - 1 \in 0..MaxCbs
        BY <2>3 DEF UnregisterSelf
      <4>2. \A j \in Entries : (cbs[j] # None) <=> j < cb_count
        BY <1>3, <2>1
      <4>3. QED
        BY <4>1, <4>2, ShiftFacts
    <3>2. WholeTable'
      <4>1. ShiftedFrom(handle[c] - 1) \in [Entries -> Clients \cup {None}]
        BY <2>3, ShiftFacts DEF UnregisterSelf
      <4>2. QED
        BY <2>1, <2>3, <3>1, <4>1 DEF UnregisterSelf
    <3>3. handle[c] # 0 /\ handle' = [handle EXCEPT ![c] = 0]
      BY <2>3 DEF UnregisterSelf
    <3>4. cb_count' = Cardinality(Holders')
      BY <1>1, <2>3, <3>3, HoldersStep DEF UnregisterSelf
    <3>5. QED
      BY <3>2, <3>4 DEF TableInv
  <2>4. QED
    BY <1>5, <2>2, <2>3 DEF SofCall
<1>6. ASSUME NEW c \in Clients,
             \/ RegisterCheck(c) \/ RegisterLock(c)
             \/ UnregisterCheck(c) \/ UnregisterLock(c)
      PROVE  TableInv'
  <2>1. handle' = handle /\ cb_count' = cb_count /\ cbs' = cbs
    BY <1>6 DEF RegisterCheck, RegisterLock, UnregisterCheck, UnregisterLock
  <2>2. Filled' = Filled
    <3>1. Filled = cb_count
      BY <1>6 DEF RegisterCheck, RegisterLock, UnregisterCheck,
        UnregisterLock, MayCall
    <3>2. Filled' = cb_count
      BY <1>6 DEF RegisterCheck, RegisterLock, UnregisterCheck,
        UnregisterLock, MayCall
    <3>3. QED
      BY <3>1, <3>2
  <2>3. QED
    BY <1>2, <1>3, <2>1, <2>2 DEF TableInv
<1>7. ASSUME NEW c \in Clients, RegisterWrite(c)
      PROVE  TableInv'
  <2>1. idx[c] = cb_count /\ irq_owner = c
    BY <1>7 DEF RegisterWrite, CallInv
  <2>2. Filled = cb_count /\ Filled' = cb_count + 1
    BY <1>7, <2>1 DEF RegisterWrite
  <2>3. WholeTable'
    BY <1>3, <1>7, <2>1, <2>2 DEF RegisterWrite
  <2>4. handle' = handle /\ cb_count' = cb_count
    BY <1>7 DEF RegisterWrite
  <2>5. QED
    BY <1>2, <2>3, <2>4 DEF TableInv
<1>8. ASSUME NEW c \in Clients, RegisterCount(c)
      PROVE  TableInv'
  <2>1. WholeTable'
    BY <1>3, <1>8 DEF RegisterCount
  <2>2. handle[c] = 0 /\ idx[c] + 1 # 0 /\ idx[c] + 1 \in Nat
    BY <1>8 DEF RegisterCount, CallInv, Registering
  <2>3. cb_count' = Cardinality(Holders')
    BY <1>1, <1>8, <2>2, HoldersStep DEF RegisterCount
  <2>4. QED
    BY <2>1, <2>3 DEF TableInv
<1>9. ASSUME NEW c \in Clients, UnregisterShift(c)
      PROVE  TableInv'
  <2>1. Filled = cb_count /\ Filled' = cb_count
    BY <1>9 DEF UnregisterShift
  <2>2. \A j \in Entries : (ShiftedFrom(idx[c])[j] # None) <=> j < cb_count
    <3>1. \A j \in Entries : (cbs[j] # None) <=> j < cb_count
      BY <1>3, <2>1
    <3>2. QED
      BY <3>1, ShiftFacts
  <2>3. WholeTable'
    BY <1>9, <2>1, <2>2 DEF UnregisterShift
  <2>4. handle' = handle /\ cb_count' = cb_count
    BY <1>9 DEF UnregisterShift
  <2>5. QED
    BY <1>2, <2>3, <2>4 DEF TableInv
<1>10. ASSUME NEW c \in Clients, UnregisterClear(c)
       PROVE  TableInv'
  <2>1. Filled = cb_count /\ Filled' = cb_count'
    BY <1>10 DEF UnregisterClear
  <2>2. handle[c] # 0 /\ handle' = [handle EXCEPT ![c] = 0]
    BY <1>10 DEF UnregisterClear, CallInv, Unregistering
  <2>3. cb_count > 0 /\ cb_count' = Cardinality(Holders')
    BY <1>1, <1>10, <2>2, HoldersStep DEF UnregisterClear
  <2>4. WholeTable'
    BY <1>3, <1>10, <2>1, <2>3 DEF UnregisterClear
  <2>5. QED
    BY <2>3, <2>4 DEF TableInv
<1>11. CASE UNCHANGED vars
  <2>1. WholeTable'
    BY <1>3, <1>11 DEF vars
  <2>2. QED
    BY <1>2, <1>11, <2>1 DEF TableInv, vars
<1>12. QED
  BY <1>4, <1>5, <1>6, <1>7, <1>8, <1>9, <1>10, <1>11 DEF Next

-----------------------------------------------------------------------------

\* In every state IInv holds.
LEMMA Invariant == Spec => []IInv
<1>1. Init => IInv
  <2>1. ASSUME Init
        PROVE  cb_count = Cardinality(Holders)
    <3>1. Holders = {}
      BY <2>1 DEF Init, Holders
    <3>2. QED
      BY <2>1, <3>1, FS_EmptySet DEF Init
  <2>2. QED
    BY <2>1, TableAssumption
    DEF Init, IInv, TypeOK, LockInv, Locked, CallInv, Registering,
      Unregistering, TableInv, Filled, Entries
<1>2. IInv /\ [Next]_vars => IInv'
  BY TypeStep, LockStep, TableStep DEF IInv
<1>3. QED
  BY <1>1, <1>2, PTL DEF Spec

\* Every variable of the callback table, its calls and its interrupt stays in
\* its range: no count or handle wraps, however calls interleave.
THEOREM TypeCorrect == Spec => []TypeOK
<1>1. IInv => TypeOK
  BY DEF IInv
<1>2. QED
  BY <1>1, Invariant, PTL

\* Whenever the interrupt can run, the first cb_count entries are callbacks and
\* the others are empty: xlcdc_isr never calls through an empty entry and never
\* misses one.
THEOREM TableIsWhole == Spec => []SofSeesWholeTable
<1>1. IInv => SofSeesWholeTable
  BY TableAssumption DEF IInv, TableInv, Filled, SofSeesWholeTable
<1>2. QED
  BY <1>1, Invariant, PTL

\* The table holds as many callbacks as handles are outstanding, in every
\* interleaving and also when callbacks unregister themselves.
THEOREM NoSlotLeaks == Spec => []SlotsMatchHandles
<1>1. IInv => SlotsMatchHandles
  BY DEF IInv, TableInv, SlotsMatchHandles
<1>2. QED
  BY <1>1, Invariant, PTL

-----------------------------------------------------------------------------

\* A serial use never runs into a full table.
LEMMA SerialStep ==
  ASSUME IInv, SerialInv, [Next]_vars
  PROVE  SerialInv'
<1> SUFFICES ASSUME ~Concurrent
             PROVE  SerialInv'
  BY UsageKept DEF SerialInv
<1> USE TableAssumption, UsageKept
    DEF IInv, TypeOK, SerialInv, Registering, Goto, TakeLock, MayCall,
      tableVars, isrVars
<1>1. CASE Sof \/ SofReturn
  BY <1>1 DEF Sof, SofReturn
<1>2. CASE SofCall
  BY <1>2 DEF SofCall, UnregisterSelf
<1>3. ASSUME NEW c \in Clients, RegisterCheck(c)
      PROVE  SerialInv'
  BY <1>3 DEF RegisterCheck
<1>4. ASSUME NEW c \in Clients,
             RegisterLock(c) \/ RegisterWrite(c) \/ RegisterCount(c)
      PROVE  SerialInv'
  BY <1>4 DEF RegisterLock, RegisterWrite, RegisterCount
<1>5. ASSUME NEW c \in Clients,
             \/ UnregisterCheck(c) \/ UnregisterLock(c)
             \/ UnregisterShift(c) \/ UnregisterClear(c)
      PROVE  SerialInv'
  BY <1>5 DEF UnregisterCheck, UnregisterLock, UnregisterShift,
    UnregisterClear
<1>6. CASE UNCHANGED vars
  BY <1>6 DEF vars
<1>7. QED
  BY <1>1, <1>2, <1>3, <1>4, <1>5, <1>6 DEF Next

\* As long as one call ends before the next begins, no registration writes
\* behind the last slot: the unlocked test for room stays true up to the write.
THEOREM SerialIsSafe == Spec => []SerialTableRefuses
<1>1. Init => SerialInv
  BY DEF Init, SerialInv, Registering
<1>2. IInv /\ SerialInv /\ [Next]_vars => SerialInv'
  BY SerialStep
<1>3. IInv /\ SerialInv => SerialTableRefuses
  BY TableAssumption
  DEF IInv, TypeOK, CallInv, SerialInv, SerialTableRefuses, FullTableRefuses,
    Overrun, Registering, Entries
<1>4. QED
  BY <1>1, <1>2, <1>3, Invariant, PTL DEF Spec

-----------------------------------------------------------------------------

\* Used as a stack, entry i keeps being the callback with handle i + 1.
LEMMA StackStep ==
  ASSUME IInv, SerialInv, StackInv, [Next]_vars
  PROVE  StackInv'
<1> SUFFICES ASSUME StackUse
             PROVE  StackInv'
  BY UsageKept DEF StackInv
<1> USE TableAssumption, UsageKept
    DEF IInv, TypeOK, SerialInv, StackInv, StackUse, Registering,
      Unregistering, Entries, Goto, TakeLock, tableVars, isrVars
<1>1. CASE Sof \/ SofReturn
  BY <1>1 DEF Sof, SofReturn
<1>2. CASE SofCall
  <2>1. UNCHANGED <<tableVars, handle, pc>>
    BY <1>2 DEF SofCall, UnregisterSelf
  <2>2. QED
    BY <2>1
<1>3. ASSUME NEW c \in Clients, RegisterCheck(c) \/ RegisterLock(c)
      PROVE  StackInv'
  <2>1. CASE RegisterCheck(c)
    BY <2>1 DEF RegisterCheck
  <2>2. CASE RegisterLock(c)
    BY <2>2 DEF RegisterLock
  <2>3. QED
    BY <1>3, <2>1, <2>2
<1>4. ASSUME NEW c \in Clients, RegisterWrite(c)
      PROVE  StackInv'
  <2>1. cb_count < MaxCbs /\ cbs' = [cbs EXCEPT ![cb_count] = c]
    <3>1. pc[c] = "reg_write"
      BY <1>4 DEF RegisterWrite
    <3>2. cb_count < MaxCbs
      BY <3>1
    <3>3. idx[c] = cb_count
      BY <3>1 DEF CallInv
    <3>4. QED
      BY <1>4, <3>2, <3>3 DEF RegisterWrite
  <2>2. \A i \in Entries : i < cb_count => cbs'[i] = cbs[i]
    BY <2>1
  <2>3. cbs'[cb_count] = c
    BY <2>1
  <2>4. pc' = [pc EXCEPT ![c] = "reg_count"] /\ cb_count' = cb_count
        /\ handle' = handle
    BY <1>4 DEF RegisterWrite
  <2>5. \A d \in Clients : pc'[d] # "idle" => d = c
    BY <1>4, <2>4 DEF RegisterWrite
  <2>6. ASSUME NEW d \in Clients
        PROVE  /\ handle'[d] # 0 => /\ handle'[d] <= cb_count'
                                    /\ cbs'[handle'[d] - 1] = d
               /\ pc'[d] = "reg_count" => cbs'[cb_count'] = d
               /\ pc'[d] \in Unregistering => handle'[d] = cb_count'
    BY <2>1, <2>2, <2>3, <2>4, <2>5
  <2>7. \A i \in Entries : i < cb_count' => /\ cbs'[i] \in Clients
                                           /\ handle'[cbs'[i]] = i + 1
    BY <2>2, <2>4
  <2>8. QED
    BY <2>6, <2>7
<1>5. ASSUME NEW c \in Clients, RegisterCount(c)
      PROVE  StackInv'
  <2>1. /\ pc[c] = "reg_count" /\ pc' = [pc EXCEPT ![c] = "idle"]
        /\ cb_count' = cb_count + 1 /\ idx[c] = cb_count
        /\ handle' = [handle EXCEPT ![c] = cb_count + 1] /\ cbs' = cbs
    BY <1>5 DEF RegisterCount, CallInv
  <2>2. cb_count \in 0..MaxCbs /\ cbs[cb_count] = c /\ handle[c] = 0
    BY <2>1 DEF CallInv
  <2>3. \A i \in Entries : i < cb_count => /\ cbs[i] \in Clients \ {c}
                                          /\ handle[cbs[i]] = i + 1
    BY <2>2
  <2>4. \A i \in Entries : i < cb_count' => /\ cbs'[i] \in Clients
                                           /\ handle'[cbs'[i]] = i + 1
    BY <2>1, <2>2, <2>3
  <2>5. \A d \in Clients : pc'[d] = "idle"
    BY <2>1
  <2>6. \A d \in Clients : handle'[d] # 0 => /\ handle'[d] <= cb_count'
                                            /\ cbs'[handle'[d] - 1] = d
    BY <2>1, <2>2
  <2>7. QED
    BY <2>4, <2>5, <2>6
<1>6. ASSUME NEW c \in Clients, UnregisterCheck(c) \/ UnregisterLock(c)
      PROVE  StackInv'
  <2>1. CASE UnregisterCheck(c)
    BY <2>1 DEF UnregisterCheck
  <2>2. CASE UnregisterLock(c)
    BY <2>2 DEF UnregisterLock
  <2>3. QED
    BY <1>6, <2>1, <2>2
<1>7. ASSUME NEW c \in Clients, UnregisterShift(c)
      PROVE  StackInv'
  <2>1. cbs' = cbs
    BY <1>7, ShiftFacts DEF UnregisterShift, CallInv
  <2>2. QED
    BY <1>7, <2>1 DEF UnregisterShift
<1>8. ASSUME NEW c \in Clients, UnregisterClear(c)
      PROVE  StackInv'
  <2>1. handle[c] = cb_count /\ handle[c] # 0 /\ cbs[cb_count - 1] = c
    <3>1. pc[c] = "unreg_clear"
      BY <1>8 DEF UnregisterClear
    <3>2. handle[c] = cb_count
      BY <3>1
    <3>3. handle[c] # 0
      BY <3>1 DEF CallInv
    <3>4. QED
      BY <3>2, <3>3
  <2>2. \A d \in Clients : d # c /\ handle[d] # 0 =>
          handle[d] <= cb_count - 1 /\ cbs[handle[d] - 1] = d
    BY <2>1
  <2>3. /\ cb_count' = cb_count - 1 /\ handle' = [handle EXCEPT ![c] = 0]
        /\ cbs' = [cbs EXCEPT ![cb_count - 1] = None]
        /\ pc' = [pc EXCEPT ![c] = "idle"]
    BY <1>8 DEF UnregisterClear
  <2>4. \A i \in Entries : i < cb_count - 1 =>
          cbs'[i] = cbs[i] /\ handle'[cbs[i]] = handle[cbs[i]]
    BY <2>1, <2>3
  <2>5. \A d \in Clients : pc'[d] = "idle"
    BY <1>8, <2>3 DEF UnregisterClear
  <2>6. QED
    BY <2>1, <2>2, <2>3, <2>4, <2>5
<1>9. CASE UNCHANGED vars
  BY <1>9 DEF vars
<1>10. QED
  BY <1>1, <1>2, <1>3, <1>4, <1>5, <1>6, <1>7, <1>8, <1>9 DEF Next

\* The interrupt has called the entries before next, in their order.
LEMMA FrameStep ==
  ASSUME IInv, StackInv, FrameInv, [Next]_vars
  PROVE  FrameInv'
<1> SUFFICES ASSUME StackUse, irq_owner' = Isr
             PROVE  FrameInv'
  BY UsageKept DEF FrameInv
<1> USE TableAssumption, UsageKept DEF IInv, TypeOK, Entries
<1>1. CASE Sof
  <2>1. next' = 0 /\ frame' = <<>> /\ cb_count' = cb_count
    BY <1>1 DEF Sof, tableVars
  <2>2. next' <= cb_count'
    BY <2>1
  <2>3. frame' \in Seq(Clients) /\ Len(frame') = 0
    BY <2>1
  <2>4. QED
    BY <2>1, <2>2, <2>3 DEF FrameInv
<1>2. CASE SofCall
  <2>1. /\ next < cb_count /\ frame \in Seq(Clients) /\ Len(frame) = next
        /\ \A k \in 1..next : frame[k] = cbs[k - 1]
    BY <1>2 DEF SofCall, FrameInv
  <2>2. cbs[next] \in Clients
    BY <2>1 DEF StackInv
  <2>3. frame' = Append(frame, cbs[next]) /\ next' = next + 1
    BY <1>2, <2>2 DEF SofCall
  <2>4. cbs' = cbs /\ cb_count' = cb_count
    BY <1>2 DEF SofCall, UnregisterSelf, StackUse, tableVars
  <2>5. QED
    <3>1. frame' \in Seq(Clients) /\ Len(frame') = next'
      BY <2>1, <2>2, <2>3
    <3>2. \A k \in 1..next' : frame'[k] = cbs'[k - 1]
      BY <2>1, <2>2, <2>3, <2>4
    <3>3. next' <= cb_count'
      BY <2>1, <2>3, <2>4
    <3>4. QED
      BY <3>1, <3>2, <3>3 DEF FrameInv
<1>3. CASE SofReturn
  BY <1>3 DEF SofReturn
<1>4. ASSUME NEW c \in Clients,
             \/ RegisterCheck(c) \/ UnregisterCheck(c)
             \/ RegisterLock(c) \/ RegisterWrite(c) \/ RegisterCount(c)
             \/ UnregisterLock(c) \/ UnregisterShift(c) \/ UnregisterClear(c)
      PROVE  FALSE
  BY <1>4 DEF RegisterCheck, UnregisterCheck, MayCall, MayRun, TakeLock,
    RegisterLock, RegisterWrite, RegisterCount, UnregisterLock,
    UnregisterShift, UnregisterClear
<1>5. CASE UNCHANGED vars
  BY <1>5 DEF vars, tableVars, isrVars, FrameInv
<1>6. QED
  BY <1>1, <1>2, <1>3, <1>4, <1>5 DEF Next

\* With handles given back in reverse order, by one call at a time, the frame
\* interrupt calls the callback of every holder once and no one else's.
THEOREM FrameIsComplete == Spec => FrameCallsHolders
<1>1. Init => SerialInv /\ StackInv /\ FrameInv
  <2>1. Init => SerialInv
    BY DEF Init, SerialInv, Registering
  <2>2. Init => StackInv
    BY TableAssumption DEF Init, StackInv, Entries, Unregistering
  <2>3. Init => FrameInv
    BY TableAssumption DEF Init, FrameInv
  <2>4. QED
    BY <2>1, <2>2, <2>3
<1>2. IInv /\ SerialInv /\ StackInv /\ FrameInv /\ [Next]_vars
        => SerialInv' /\ StackInv' /\ FrameInv'
  BY SerialStep, StackStep, FrameStep
<1>3. ASSUME IInv, StackInv, FrameInv, SofReturn, StackUse
      PROVE  ToSet(frame) = Holders /\ Len(frame) = Cardinality(Holders)
  <2>1. /\ next = cb_count /\ frame \in Seq(Clients) /\ Len(frame) = next
        /\ \A k \in 1..next : frame[k] = cbs[k - 1]
    BY <1>3 DEF SofReturn, FrameInv, IInv, TypeOK
  <2>2. ASSUME NEW c \in Holders
        PROVE  c \in ToSet(frame)
    <3>1. handle[c] \in 1..cb_count /\ cbs[handle[c] - 1] = c
      BY <1>3 DEF StackInv, IInv, TypeOK, Holders
    <3>2. frame[handle[c]] = c /\ handle[c] \in DOMAIN frame
      BY <2>1, <3>1
    <3>3. QED
      BY <3>2 DEF ToSet
  <2>3. ASSUME NEW k \in DOMAIN frame
        PROVE  frame[k] \in Holders
    <3>1. k - 1 \in Entries /\ k - 1 < cb_count /\ frame[k] = cbs[k - 1]
      <4>1. k \in 1..cb_count /\ frame[k] = cbs[k - 1]
        BY <2>1
      <4>2. cb_count \in 0..MaxCbs /\ MaxCbs \in Nat
        BY <1>3, TableAssumption DEF IInv, TypeOK
      <4>3. QED
        BY <4>1, <4>2 DEF Entries
    <3>2. QED
      BY <1>3, <3>1, TableAssumption DEF StackInv, Holders, Entries
  <2>4. QED
    BY <1>3, <2>1, <2>2, <2>3 DEF ToSet, IInv, TableInv
<1>4. IInv /\ StackInv /\ FrameInv
        => (SofReturn /\ StackUse => /\ ToSet(frame) = Holders
                                   /\ Len(frame) = Cardinality(Holders))
  BY <1>3
<1>5. QED
  BY <1>1, <1>2, <1>4, Invariant, PTL DEF Spec, FrameCallsHolders
=============================================================================
