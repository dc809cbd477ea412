--------------------------- MODULE MxtDrainProofs ---------------------------
(***************************************************************************)
(* Theorems about MxtDrain for every value of its constants: the ranges of *)
(* its variables, that a bulk read never reads past the FIFO, that the     *)
(* interrupt fires only between drains when there is no power management,  *)
(* and that, on the wiring the interrupt build relies on, no message is    *)
(* stranded.                                                               *)
(***************************************************************************)
EXTENDS MxtDrain, TLAPS

\* The drain thread owns the I2C lock exactly between its T44 and T5 reads.
LockInv == i2c_lock <=> pc \in {"t44", "t5"}

\* What makes the ranges inductive: the loops are entered below their limits.
LoopInv ==
  /\ pc \in {"lock", "t44", "t5", "process"} => tries < MaxTries
  /\ pc \in {"lock", "t44", "t5", "process", "pass", "check"}
       => passes < MaxPasses

\* Where init is before it creates the thread, or stays when it failed.
Booting == {"boot_arm", "boot_drain", "boot_spawn", "failed"}

\* The thread exists exactly when mxt_init has created it.
SpawnInv == pc = "unborn" <=> ctl \in Booting

\* What makes CountedMessagesArePresent inductive.
ReadInv == SpawnInv /\ LockInv /\ CountedMessagesArePresent

\* The interrupt build's loop, and init's second drain, are in no other build.
BuildInv ==
  (pc \in {"check", "arm"} \/ ctl = "boot_drain") => InterruptBuild

\* Between drains the pin is unmasked, except before init has unmasked it and
\* from suspend's mask to resume's unmask.
ArmedInv ==
  /\ InterruptBuild
  /\ pc \in {"unborn", "wait"} /\ drain_sem = 0
  /\ ctl \in {"boot_drain", "boot_spawn", "active", "susp_irq", "res_drain"}
  => irq_on

\* The timer runs from init on, except between suspend and resume.
TimerInv ==
  /\ ~InterruptBuild
  /\ ctl \in {"boot_spawn", "active", "susp_irq", "res_drain"}
  => timer_on

\* Once init's drain is over and whenever the thread has stopped looking at the
\* FIFO, a queued message has left an edge or a signal behind.
WakeInv ==
  /\ InterruptBuild
  /\ pc \in {"wait", "arm"} \/ ctl = "boot_spawn"
  /\ pending > 0
  => edge \/ drain_sem = 1 \/ abandoned

\* What makes NoMessageStranded inductive.
WakeupInv ==
  ReliableWiring => SpawnInv /\ BuildInv /\ ArmedInv /\ TimerInv /\ WakeInv

\* What makes OneShot inductive in a build without power management.
OneShotInv == ~PmBuild =>
  /\ SpawnInv /\ BuildInv /\ OneShot
  /\ ctl \in Booting \cup {"active"}
  /\ InterruptBuild => ~timer_on
  /\ ~InterruptBuild => ~irq_on
  /\ InterruptBuild /\ pc \notin {"unborn", "wait"} => drain_sem = 0
  /\ ctl = "boot_arm" => drain_sem = 0 /\ ~irq_on /\ ~timer_on

-----------------------------------------------------------------------------

\* No step changes the build, so what it has and lacks is fixed.
LEMMA BuildFixed == [Next]_vars => build' = build
BY DEF Next, DrainThread, Control, Arrive, SpuriousEdge, IrqHandler,
   TimerHandler, TakeSem, Lock, ReadFails, ReadT44, ReadT5, Process,
   EndPassPolling, EndPass, CheckChg, Arm, BootArm, BootFails, BootSpawn,
   SuspendT7, SuspendIrq, ResumeT7, ResumeIrq, DrainRead, DrainEmpty,
   DrainStops, vars, chipVars

LEMMA BuildCorrect == Spec => [](build \in Builds)
<1>1. Init => build \in Builds
  BY DEF Init
<1>2. build \in Builds /\ [Next]_vars => (build \in Builds)'
  BY BuildFixed
<1> QED
  BY <1>1, <1>2, PTL DEF Spec

\* Labels and flags need nothing but themselves.
LEMMA LabelsCorrect == Spec => []LabelsOK
<1>1. Init => LabelsOK
  BY DEF Init, LabelsOK, Labels, CtlLabels
<1>2. LabelsOK /\ [Next]_vars => LabelsOK'
  BY DEF LabelsOK, Labels, CtlLabels, Next, DrainThread, Control, Arrive,
     SpuriousEdge, IrqHandler, TimerHandler, TakeSem, Lock, ReadFails,
     ReadT44, ReadT5, Process, EndPassPolling, EndPass, CheckChg, Arm,
     BootArm, BootFails, BootSpawn, SuspendT7, SuspendIrq, ResumeT7,
     ResumeIrq, DrainRead, DrainEmpty, DrainStops, AfterDrain, AtMost,
     ChgAsserted, Falls, Mask, StartWakeups, Unmask, vars, chipVars, irqVars,
     threadVars, ctlVars
<1> QED
  BY <1>1, <1>2, PTL DEF Spec

LEMMA FlagsCorrect == Spec => []FlagsOK
<1>1. Init => FlagsOK
  BY DEF Init, FlagsOK
<1>2. FlagsOK /\ [Next]_vars => FlagsOK'
  <2> SUFFICES ASSUME FlagsOK, [Next]_vars PROVE FlagsOK'
    OBVIOUS
  <2> USE DEF FlagsOK, chipVars, irqVars, threadVars, ctlVars, ChgAsserted,
      InterruptBuild, PmBuild, HasIrqGpio, PullUp, LatchesMasked
  <2>1. CASE Arrive
    BY <2>1 DEF Arrive, Falls
  <2>2. CASE SpuriousEdge
    BY <2>2 DEF SpuriousEdge
  <2>3. CASE IrqHandler
    BY <2>3 DEF IrqHandler
  <2>4. CASE TimerHandler
    BY <2>4 DEF TimerHandler
  <2>5. CASE TakeSem
    BY <2>5 DEF TakeSem
  <2>6. CASE Lock
    BY <2>6 DEF Lock
  <2>7. CASE ReadFails
    BY <2>7 DEF ReadFails
  <2>8. CASE ReadT44
    BY <2>8 DEF ReadT44, AtMost
  <2>9. CASE ReadT5
    BY <2>9 DEF ReadT5, AtMost
  <2>10. CASE Process
    BY <2>10 DEF Process
  <2>11. CASE EndPassPolling
    BY <2>11 DEF EndPassPolling
  <2>12. CASE EndPass
    <3>1. abandoned' = (pending # 0) \/ abandoned' = abandoned
      BY <2>12 DEF EndPass
    <3>2. abandoned' \in BOOLEAN
      BY <3>1, Zenon
    <3>3. UNCHANGED <<asleep, edge, irq_on, timer_on, i2c_lock>>
      BY <2>12 DEF EndPass
    <3> QED
      BY <3>1, <3>2, <3>3
  <2>13. CASE CheckChg
    BY <2>13 DEF CheckChg, ChgAsserted
  <2>14. CASE Arm
    BY <2>14 DEF Arm, Unmask
  <2>15. CASE BootArm
    BY <2>15 DEF BootArm, StartWakeups, Unmask
  <2>16. CASE BootSpawn
    BY <2>16 DEF BootSpawn
  <2>17. CASE SuspendT7
    BY <2>17 DEF SuspendT7
  <2>18. CASE SuspendIrq
    BY <2>18 DEF SuspendIrq, Mask
  <2>19. CASE ResumeT7
    BY <2>19 DEF ResumeT7
  <2>20. CASE ResumeIrq
    BY <2>20 DEF ResumeIrq, StartWakeups, Unmask
  <2>21. CASE DrainRead
    BY <2>21 DEF DrainRead
  <2>22. CASE DrainEmpty
    BY <2>22 DEF DrainEmpty, AfterDrain
  <2>23. CASE DrainStops
    BY <2>23 DEF DrainStops, AfterDrain
  <2>24. CASE BootFails
    BY <2>24 DEF BootFails
  <2>25. CASE UNCHANGED vars
    BY <2>25 DEF vars
  <2> QED
    BY <2>1, <2>2, <2>3, <2>4, <2>5, <2>6, <2>7, <2>8, <2>9, <2>10, <2>11,
       <2>12, <2>13, <2>14, <2>15, <2>16, <2>17, <2>18, <2>19, <2>20, <2>21,
       <2>22, <2>23, <2>24, <2>25
    DEF Next, DrainThread, Control
<1> QED
  BY <1>1, <1>2, PTL DEF Spec

\* The loops of the drain end at their limits: at most MaxTries reads in a pass
\* and MaxPasses passes (:720, :726), at most DrainLimit in mxt_drain_messages.
LEMMA CountersCorrect == Spec => [](CountersOK /\ LoopInv)
<1>1. Init => CountersOK /\ LoopInv
  BY BoundsAssumption
  DEF Init, BoundsAssumption, CountersOK, LoopInv
<1>2. CountersOK /\ LoopInv /\ [Next]_vars => (CountersOK /\ LoopInv)'
  <2> SUFFICES ASSUME CountersOK, LoopInv, [Next]_vars
               PROVE  (CountersOK /\ LoopInv)'
    OBVIOUS
  <2> USE BoundsAssumption
      DEF BoundsAssumption, CountersOK, LoopInv, chipVars, irqVars,
          threadVars, ctlVars
  <2>1. CASE Arrive
    BY <2>1 DEF Arrive, Falls
  <2>2. CASE SpuriousEdge
    BY <2>2 DEF SpuriousEdge
  <2>3. CASE IrqHandler
    BY <2>3 DEF IrqHandler
  <2>4. CASE TimerHandler
    BY <2>4 DEF TimerHandler
  <2>5. CASE TakeSem
    BY <2>5 DEF TakeSem
  <2>6. CASE Lock
    BY <2>6 DEF Lock
  <2>7. CASE ReadFails
    BY <2>7 DEF ReadFails
  <2>8. CASE ReadT44
    BY <2>8 DEF ReadT44, AtMost
  <2>9. CASE ReadT5
    BY <2>9 DEF ReadT5, AtMost
  <2>10. CASE Process
    BY <2>10 DEF Process
  <2>11. CASE EndPassPolling
    BY <2>11 DEF EndPassPolling
  <2>12. CASE EndPass
    BY <2>12 DEF EndPass
  <2>13. CASE CheckChg
    BY <2>13 DEF CheckChg, ChgAsserted
  <2>14. CASE Arm
    BY <2>14 DEF Arm, Unmask
  <2>15. CASE BootArm
    BY <2>15 DEF BootArm, StartWakeups, Unmask
  <2>16. CASE BootSpawn
    BY <2>16 DEF BootSpawn
  <2>17. CASE SuspendT7
    BY <2>17 DEF SuspendT7
  <2>18. CASE SuspendIrq
    BY <2>18 DEF SuspendIrq, Mask
  <2>19. CASE ResumeT7
    BY <2>19 DEF ResumeT7
  <2>20. CASE ResumeIrq
    BY <2>20 DEF ResumeIrq, StartWakeups, Unmask
  <2>21. CASE DrainRead
    BY <2>21 DEF DrainRead
  <2>22. CASE DrainEmpty
    BY <2>22 DEF DrainEmpty, AfterDrain
  <2>23. CASE DrainStops
    BY <2>23 DEF DrainStops, AfterDrain
  <2>24. CASE BootFails
    BY <2>24 DEF BootFails
  <2>25. CASE UNCHANGED vars
    BY <2>25 DEF vars
  <2> QED
    BY <2>1, <2>2, <2>3, <2>4, <2>5, <2>6, <2>7, <2>8, <2>9, <2>10, <2>11,
       <2>12, <2>13, <2>14, <2>15, <2>16, <2>17, <2>18, <2>19, <2>20, <2>21,
       <2>22, <2>23, <2>24, <2>25
    DEF Next, DrainThread, Control
<1> QED
  BY <1>1, <1>2, PTL DEF Spec

\* Every variable keeps its range (mxt_data and the locals of the drain).
THEOREM TypeCorrect == Spec => []TypeOK
<1>1. build \in Builds /\ FlagsOK /\ CountersOK /\ LabelsOK => TypeOK
  BY DEF TypeOK
<1> QED
  BY <1>1, BuildCorrect, FlagsCorrect, CountersCorrect, LabelsCorrect, PTL

LEMMA ReadsCorrect == Spec => []ReadInv
<1>1. Init => ReadInv
  BY BoundsAssumption
  DEF Init, BoundsAssumption, CountersOK, ReadInv, SpawnInv, Booting, LockInv,
      CountedMessagesArePresent
<1>2. CountersOK /\ ReadInv /\ [Next]_vars => ReadInv'
  <2> SUFFICES ASSUME CountersOK, ReadInv, [Next]_vars PROVE ReadInv'
    OBVIOUS
  <2> USE BoundsAssumption
      DEF BoundsAssumption, CountersOK, ReadInv, SpawnInv, Booting, LockInv,
          CountedMessagesArePresent, chipVars, irqVars, threadVars, ctlVars
  <2>1. CASE Arrive
    BY <2>1 DEF Arrive, Falls
  <2>2. CASE SpuriousEdge
    BY <2>2 DEF SpuriousEdge
  <2>3. CASE IrqHandler
    BY <2>3 DEF IrqHandler
  <2>4. CASE TimerHandler
    BY <2>4 DEF TimerHandler
  <2>5. CASE TakeSem
    BY <2>5 DEF TakeSem
  <2>6. CASE Lock
    BY <2>6 DEF Lock
  <2>7. CASE ReadFails
    BY <2>7 DEF ReadFails
  <2>8. CASE ReadT44
    BY <2>8 DEF ReadT44, AtMost
  <2>9. CASE ReadT5
    BY <2>9 DEF ReadT5, AtMost
  <2>10. CASE Process
    BY <2>10 DEF Process
  <2>11. CASE EndPassPolling
    BY <2>11 DEF EndPassPolling
  <2>12. CASE EndPass
    BY <2>12 DEF EndPass
  <2>13. CASE CheckChg
    BY <2>13 DEF CheckChg, ChgAsserted
  <2>14. CASE Arm
    BY <2>14 DEF Arm, Unmask
  <2>15. CASE BootArm
    BY <2>15 DEF BootArm, StartWakeups, Unmask
  <2>16. CASE BootSpawn
    BY <2>16 DEF BootSpawn
  <2>17. CASE SuspendT7
    BY <2>17 DEF SuspendT7
  <2>18. CASE SuspendIrq
    BY <2>18 DEF SuspendIrq, Mask
  <2>19. CASE ResumeT7
    BY <2>19 DEF ResumeT7
  <2>20. CASE ResumeIrq
    BY <2>20 DEF ResumeIrq, StartWakeups, Unmask
  <2>21. CASE DrainRead
    BY <2>21 DEF DrainRead
  <2>22. CASE DrainEmpty
    BY <2>22 DEF DrainEmpty, AfterDrain
  <2>23. CASE DrainStops
    BY <2>23 DEF DrainStops, AfterDrain
  <2>24. CASE BootFails
    BY <2>24 DEF BootFails
  <2>25. CASE UNCHANGED vars
    BY <2>25 DEF vars
  <2> QED
    BY <2>1, <2>2, <2>3, <2>4, <2>5, <2>6, <2>7, <2>8, <2>9, <2>10, <2>11,
       <2>12, <2>13, <2>14, <2>15, <2>16, <2>17, <2>18, <2>19, <2>20, <2>21,
       <2>22, <2>23, <2>24, <2>25
    DEF Next, DrainThread, Control
<1> QED
  BY <1>1, <1>2, CountersCorrect, PTL DEF Spec

\* The lock held from T44 to T5 (:661-691) keeps the counted messages there,
\* whatever init's and resume's own reads do.
THEOREM ReadsArePresent == Spec => []CountedMessagesArePresent
  BY ReadsCorrect, PTL DEF ReadInv

\* On the wiring the interrupt build relies on, and in every polling build, no
\* message is left without a wakeup (:737-746, :780-796, :1071-1089).
THEOREM NothingStranded == Spec => []NoMessageStranded
<1>1. Init => WakeupInv
  BY DEF Init, ReliableWiring, CountersOK, WakeupInv, SpawnInv, Booting,
      BuildInv, ArmedInv, TimerInv, WakeInv
<1>2. CountersOK /\ WakeupInv /\ [Next]_vars => WakeupInv'
  <2>a. [Next]_vars => /\ ReliableWiring' = ReliableWiring
                       /\ InterruptBuild' = InterruptBuild
    BY BuildFixed DEF ReliableWiring, InterruptBuild, HasIrqGpio, PullUp,
       LatchesMasked
  <2> SUFFICES ASSUME ReliableWiring, InterruptBuild' = InterruptBuild,
                      CountersOK, WakeupInv, [Next]_vars
               PROVE  WakeupInv'
    BY <2>a DEF WakeupInv
  <2> USE DEF ReliableWiring, CountersOK, WakeupInv, SpawnInv, Booting,
      BuildInv, ArmedInv, TimerInv, WakeInv, chipVars, irqVars, threadVars,
      ctlVars
  <2>1. CASE Arrive
    <3>1. SpawnInv'
      BY <2>1 DEF Arrive
    <3>2. BuildInv'
      BY <2>1 DEF Arrive
    <3>3. ArmedInv'
      BY <2>1 DEF Arrive
    <3>4. TimerInv'
      BY <2>1 DEF Arrive
    <3>5. InterruptBuild /\ pending = 0 => edge'
      BY <2>1 DEF Arrive, Falls
    <3>6. edge => edge'
      BY <2>1 DEF Arrive
    <3>7. pending \in Nat /\ (pending = 0 \/ pending > 0)
      OBVIOUS
    <3>8. WakeInv'
      BY <2>1, <3>5, <3>6, <3>7 DEF Arrive
    <3> QED
      BY <3>1, <3>2, <3>3, <3>4, <3>5, <3>6, <3>7, <3>8 DEF WakeupInv
  <2>2. CASE SpuriousEdge
    BY <2>2 DEF SpuriousEdge
  <2>3. CASE IrqHandler
    BY <2>3 DEF IrqHandler
  <2>4. CASE TimerHandler
    BY <2>4 DEF TimerHandler
  <2>5. CASE TakeSem
    BY <2>5 DEF TakeSem
  <2>6. CASE Lock
    BY <2>6 DEF Lock
  <2>7. CASE ReadFails
    BY <2>7 DEF ReadFails
  <2>8. CASE ReadT44
    BY <2>8 DEF ReadT44, AtMost
  <2>9. CASE ReadT5
    BY <2>9 DEF ReadT5, AtMost
  <2>10. CASE Process
    BY <2>10 DEF Process
  <2>11. CASE EndPassPolling
    BY <2>11 DEF EndPassPolling
  <2>12. CASE EndPass
    <3>1. SpawnInv'
      BY <2>12 DEF EndPass
    <3>2. BuildInv'
      BY <2>12 DEF EndPass
    <3>3. ArmedInv'
      BY <2>12 DEF EndPass
    <3>4. TimerInv'
      BY <2>12 DEF EndPass
    <3>5. (pc' = "arm" /\ abandoned' = (pending # 0)) \/ pc' = "check"
      BY <2>12 DEF EndPass
    <3>6. pc' \in {"wait", "arm"} /\ pending # 0 => abandoned'
      BY <3>5, Zenon
    <3>7. ctl' = "boot_spawn" => pc' = "unborn"
      BY <3>1 DEF SpawnInv
    <3>8. WakeInv'
      BY <2>12, <3>6, <3>7 DEF EndPass
    <3> QED
      BY <3>1, <3>2, <3>3, <3>4, <3>5, <3>6, <3>7, <3>8 DEF WakeupInv
  <2>13. CASE CheckChg
    BY <2>13 DEF CheckChg, ChgAsserted
  <2>14. CASE Arm
    BY <2>14 DEF Arm, Unmask
  <2>15. CASE BootArm
    BY <2>15 DEF BootArm, StartWakeups, Unmask
  <2>16. CASE BootSpawn
    BY <2>16 DEF BootSpawn
  <2>17. CASE SuspendT7
    BY <2>17 DEF SuspendT7
  <2>18. CASE SuspendIrq
    BY <2>18 DEF SuspendIrq, Mask
  <2>19. CASE ResumeT7
    BY <2>19 DEF ResumeT7
  <2>20. CASE ResumeIrq
    BY <2>20 DEF ResumeIrq, StartWakeups, Unmask
  <2>21. CASE DrainRead
    BY <2>21 DEF DrainRead
  <2>22. CASE DrainEmpty
    <3>1. SpawnInv'
      BY <2>22 DEF DrainEmpty, AfterDrain
    <3>2. BuildInv'
      BY <2>22 DEF DrainEmpty, AfterDrain
    <3>3. ArmedInv'
      BY <2>22 DEF DrainEmpty, AfterDrain
    <3>4. TimerInv'
      BY <2>22 DEF DrainEmpty, AfterDrain
    <3>5. WakeInv'
      BY <2>22 DEF DrainEmpty, AfterDrain
    <3> QED
      BY <3>1, <3>2, <3>3, <3>4, <3>5 DEF WakeupInv
  <2>23. CASE DrainStops
    <3>1. SpawnInv'
      BY <2>23 DEF DrainStops, AfterDrain
    <3>2. BuildInv'
      BY <2>23 DEF DrainStops, AfterDrain
    <3>3. ArmedInv'
      BY <2>23 DEF DrainStops, AfterDrain
    <3>4. TimerInv'
      BY <2>23 DEF DrainStops, AfterDrain
    <3>5. WakeInv'
      BY <2>23 DEF DrainStops, AfterDrain
    <3> QED
      BY <3>1, <3>2, <3>3, <3>4, <3>5 DEF WakeupInv
  <2>24. CASE BootFails
    BY <2>24 DEF BootFails
  <2>25. CASE UNCHANGED vars
    BY <2>25 DEF vars
  <2> QED
    BY <2>1, <2>2, <2>3, <2>4, <2>5, <2>6, <2>7, <2>8, <2>9, <2>10, <2>11,
       <2>12, <2>13, <2>14, <2>15, <2>16, <2>17, <2>18, <2>19, <2>20, <2>21,
       <2>22, <2>23, <2>24, <2>25
    DEF Next, DrainThread, Control
<1>3. WakeupInv => NoMessageStranded
  BY DEF WakeupInv, ArmedInv, TimerInv, WakeInv, NoMessageStranded, Idle
<1> QED
  BY <1>1, <1>2, <1>3, CountersCorrect, PTL DEF Spec

LEMMA OneShotCorrect == Spec => []OneShotInv
<1>1. Init => OneShotInv
  BY DEF Init, OneShotInv, SpawnInv, Booting, BuildInv, OneShot
<1>2. OneShotInv /\ [Next]_vars => OneShotInv'
  <2>a. [Next]_vars => PmBuild' = PmBuild /\ InterruptBuild' = InterruptBuild
    BY BuildFixed DEF PmBuild, InterruptBuild
  <2> SUFFICES ASSUME ~PmBuild, PmBuild' = PmBuild,
                      InterruptBuild' = InterruptBuild,
                      OneShotInv, [Next]_vars
               PROVE  OneShotInv'
    BY <2>a DEF OneShotInv
  <2> USE DEF OneShotInv, SpawnInv, Booting, BuildInv, OneShot, chipVars,
      irqVars, threadVars, ctlVars
  <2>1. CASE Arrive
    BY <2>1 DEF Arrive, Falls
  <2>2. CASE SpuriousEdge
    BY <2>2 DEF SpuriousEdge
  <2>3. CASE IrqHandler
    <3>1. (SpawnInv /\ BuildInv)'
      BY <2>3 DEF IrqHandler
    <3>2. OneShot'
      BY <2>3 DEF IrqHandler
    <3>3. (ctl \in Booting \cup {"active"})'
      BY <2>3 DEF IrqHandler
    <3>4. (InterruptBuild => ~timer_on)'
      BY <2>3 DEF IrqHandler
    <3>5. (~InterruptBuild => ~irq_on)'
      BY <2>3 DEF IrqHandler
    <3>6. (InterruptBuild /\ pc \notin {"unborn", "wait"} => drain_sem = 0)'
      BY <2>3 DEF IrqHandler
    <3>7. (ctl = "boot_arm" => drain_sem = 0 /\ ~irq_on /\ ~timer_on)'
      BY <2>3 DEF IrqHandler
    <3> QED
      BY <3>1, <3>2, <3>3, <3>4, <3>5, <3>6, <3>7 DEF OneShotInv
  <2>4. CASE TimerHandler
    <3>1. (SpawnInv /\ BuildInv)'
      BY <2>4 DEF TimerHandler
    <3>2. OneShot'
      BY <2>4 DEF TimerHandler
    <3>3. (ctl \in Booting \cup {"active"})'
      BY <2>4 DEF TimerHandler
    <3>4. (InterruptBuild => ~timer_on)'
      BY <2>4 DEF TimerHandler
    <3>5. (~InterruptBuild => ~irq_on)'
      BY <2>4 DEF TimerHandler
    <3>6. (InterruptBuild /\ pc \notin {"unborn", "wait"} => drain_sem = 0)'
      BY <2>4 DEF TimerHandler
    <3>7. (ctl = "boot_arm" => drain_sem = 0 /\ ~irq_on /\ ~timer_on)'
      BY <2>4 DEF TimerHandler
    <3> QED
      BY <3>1, <3>2, <3>3, <3>4, <3>5, <3>6, <3>7 DEF OneShotInv
  <2>5. CASE TakeSem
    BY <2>5 DEF TakeSem
  <2>6. CASE Lock
    BY <2>6 DEF Lock
  <2>7. CASE ReadFails
    BY <2>7 DEF ReadFails
  <2>8. CASE ReadT44
    BY <2>8 DEF ReadT44, AtMost
  <2>9. CASE ReadT5
    BY <2>9 DEF ReadT5, AtMost
  <2>10. CASE Process
    BY <2>10 DEF Process
  <2>11. CASE EndPassPolling
    BY <2>11 DEF EndPassPolling
  <2>12. CASE EndPass
    BY <2>12 DEF EndPass
  <2>13. CASE CheckChg
    BY <2>13 DEF CheckChg, ChgAsserted
  <2>14. CASE Arm
    BY <2>14 DEF Arm, Unmask
  <2>15. CASE BootArm
    BY <2>15 DEF BootArm, StartWakeups, Unmask
  <2>16. CASE BootSpawn
    BY <2>16 DEF BootSpawn
  <2>17. CASE SuspendT7
    BY <2>17 DEF SuspendT7
  <2>18. CASE SuspendIrq
    BY <2>18 DEF SuspendIrq, Mask
  <2>19. CASE ResumeT7
    BY <2>19 DEF ResumeT7
  <2>20. CASE ResumeIrq
    BY <2>20 DEF ResumeIrq, StartWakeups, Unmask
  <2>21. CASE DrainRead
    BY <2>21 DEF DrainRead
  <2>22. CASE DrainEmpty
    BY <2>22 DEF DrainEmpty, AfterDrain
  <2>23. CASE DrainStops
    BY <2>23 DEF DrainStops, AfterDrain
  <2>24. CASE BootFails
    BY <2>24 DEF BootFails
  <2>25. CASE UNCHANGED vars
    BY <2>25 DEF vars
  <2> QED
    BY <2>1, <2>2, <2>3, <2>4, <2>5, <2>6, <2>7, <2>8, <2>9, <2>10, <2>11,
       <2>12, <2>13, <2>14, <2>15, <2>16, <2>17, <2>18, <2>19, <2>20, <2>21,
       <2>22, <2>23, <2>24, <2>25
    DEF Next, DrainThread, Control
<1> QED
  BY <1>1, <1>2, PTL DEF Spec

\* Without power management the interrupt never fires during a drain (:706).
THEOREM OneShotHolds == Spec => []OneShot
<1>1. OneShotInv => OneShot
  BY DEF OneShotInv, OneShot
<1> QED
  BY <1>1, OneShotCorrect, PTL
=============================================================================
