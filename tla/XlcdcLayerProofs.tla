-------------------------- MODULE XlcdcLayerProofs --------------------------
(***************************************************************************)
(* For every set of layers, callers, buffers and setups: no commit is lost *)
(* or half-made, no layer fetches from address 0, active_buf tells what    *)
(* the DMA shows, and the back buffer is the hidden one.                   *)
(*                                                                         *)
(* Each of these is about a layer whose call is over, and is inductive     *)
(* when it is said of the part of the running call that is still to do:    *)
(* of nothing, when no call runs.                                          *)
(***************************************************************************)
EXTENDS XlcdcLayer, SequenceTheorems, TLAPS

\* The effects there are.
RegSets == [fba : Buffers] \cup [dma : BOOLEAN] \cup [win : Sizes]
           \cup [dma : BOOLEAN, alpha : Alphas] \cup [origin : Origins]
DataSets == [active_buf : Buffers] \cup [dma_enabled : BOOLEAN]
            \cup [front_idx : 0..1] \cup [alpha : Alphas] \cup [win : Sizes]
            \cup [win : Sizes, dma_enabled : BOOLEAN]
Effects == [op : {"reg"}, set : RegSets] \cup [op : {"data"}, set : DataSets]
           \cup [op : {"draw"}, buf : Buffers] \cup [op : {"pwm"}, on : BOOLEAN]
           \cup [op : {"commit"}]

JobType ==
  /\ job \in [Everyone -> [layer : Layers \cup {Null}, todo : Seq(Effects)]]
  /\ \A c \in Everyone : job[c].layer = Null <=> job[c].todo = <<>>

\* No two calls on one layer, and the caller inside a commit owns its lock.
OwnInv ==
  /\ \A c, d \in Everyone : job[c].layer = job[d].layer /\ c # d
                              => job[c].layer = Null
  /\ \A c \in Everyone : attre_lock = c <=> stage[c] # "outside"
  /\ \A c \in Everyone :
       stage[c] # "outside" => job[c].todo # <<>> /\ Next1(c).op = "commit"

\* What is left to do of the call on a layer.
TodoIn(jobs, l) ==
  IF \A c \in Everyone : jobs[c].layer # l
    THEN <<>>
    ELSE jobs[CHOOSE c \in Everyone : jobs[c].layer = l].todo
Todo(l) == TodoIn(job, l)

\* The kinds of effects the invariants tell apart.
IsReg(e)    == e.op = "reg"
IsCommit(e) == e.op = "commit"
SetsFba(e)  == e.op = "reg" /\ "fba" \in DOMAIN e.set
StartsDma(e) == e.op = "reg" /\ "dma" \in DOMAIN e.set /\ e.set.dma
Records(e)  == e.op = "data" /\ "active_buf" \in DOMAIN e.set
Enables(e)  == e.op = "data" /\ "dma_enabled" \in DOMAIN e.set
               /\ e.set.dma_enabled
Flips(e)    == e.op = "data" /\ "front_idx" \in DOMAIN e.set

Positions(t) == 1..Len(t)

\* The address is there, or still to be written, when the DMA is switched on.
NullSafe(l, t) ==
  l \notin NoAlloc =>
    /\ \A i \in Positions(t) : SetsFba(t[i]) => t[i].set.fba # Null
    /\ \A i \in Positions(t) : StartsDma(t[i]) \/ Enables(t[i]) =>
         \/ reg[l].fba # Null
         \/ \E j \in Positions(t) : j < i /\ SetsFba(t[j])
    /\ reg[l].dma \/ drv[l].dma_enabled => reg[l].fba # Null
    /\ live[l].dma => live[l].fba # Null

\* Without the second buffer the first stays in front.
SingleBuffered(l, t) ==
  ~DoubleBuffer =>
    drv[l].front_idx = 0 /\ \A i \in Positions(t) : ~Flips(t[i])

\* A new address is recorded after it is written, and once.
Tracked(l, t) ==
  ~HeoDisplays =>
    /\ \A i, j \in Positions(t) : SetsFba(t[i]) /\ SetsFba(t[j]) => i = j
    /\ \A i, j \in Positions(t) : Records(t[i]) /\ Records(t[j]) => i = j
    /\ \A i \in Positions(t) : SetsFba(t[i]) =>
         \E j \in Positions(t) :
           i < j /\ Records(t[j]) /\ t[j].set.active_buf = t[i].set.fba
    /\ \A j \in Positions(t) : Records(t[j]) =>
         \/ \E i \in Positions(t) : SetsFba(t[i])
         \/ t[j].set.active_buf = reg[l].fba
    /\ (\A j \in Positions(t) : ~Records(t[j])) =>
         drv[l].active_buf = reg[l].fba

\* The addresses of the application and of the driver's buffer i.
Showable(l, i) == AppBufs \cup {<<l, i>>}

\* The address follows the index of the front buffer.
Fronted(l, t) ==
  DoubleBuffer /\ ~WritesOwn /\ l \notin NoAlloc =>
    /\ \A i, j \in Positions(t) : Flips(t[i]) /\ Flips(t[j]) => i = j
    /\ \A i \in Positions(t) : Flips(t[i]) =>
         /\ \E j \in Positions(t) : i < j /\ SetsFba(t[j])
         /\ \A j \in Positions(t) : SetsFba(t[j]) =>
              t[j].set.fba \in Showable(l, t[i].set.front_idx)
    /\ (\A i \in Positions(t) : ~Flips(t[i])) =>
         /\ \A j \in Positions(t) : SetsFba(t[j]) =>
              t[j].set.fba \in Showable(l, drv[l].front_idx)
         /\ \/ \E j \in Positions(t) : SetsFba(t[j])
            \/ reg[l].fba \in Showable(l, drv[l].front_idx) \cup {Null}

\* Every register write of a call is followed by a commit.
Committing(t) ==
  \A i \in Positions(t) : IsReg(t[i]) =>
    \E j \in Positions(t) : i < j /\ IsCommit(t[j])

InSip(l) == \E c \in Everyone : job[c].layer = l /\ stage[c] = "sip"

\* A commit that has not written ATTRE yet is among what is left to do.
CommitAhead(l) ==
  \E j \in Positions(Todo(l)) : IsCommit(Todo(l)[j]) /\ (InSip(l) => j > 1)

\* What holds of every layer and the rest of its call, from the start of the
\* call to its end.
Plan(l, t) == /\ NullSafe(l, t) /\ SingleBuffered(l, t)
              /\ Tracked(l, t) /\ Fronted(l, t) /\ Committing(t)

LayerInv == \A l \in Layers : Plan(l, Todo(l))

IInv == TypeOK /\ JobType /\ OwnInv /\ LayerInv

\* The wait for ATTRE: it is clear when it is written.
ClearInv == ~Timeouts => \A c \in Everyone : stage[c] = "clear" => attre = {}

\* What is not about to be committed has been.
CommitInv ==
  ~Timeouts \/ KeepsPending =>
    \A l \in Layers :
      \/ CommitAhead(l)
      \/ /\ reg[l] = committed[l]
         /\ l \in attre \/ live[l] = committed[l]

\* A layer waits in ATTRE only while its call waits for SIP.
SipInv ==
  SipCoversLatch /\ ~Timeouts =>
    \A l \in Layers :
      /\ l \in attre => InSip(l)
      /\ InSip(l) => reg[l] = committed[l]

-----------------------------------------------------------------------------

\* What an effect does, and that it does nothing else the invariants see.
Shows(e, buf) ==
  /\ IsReg(e) /\ SetsFba(e) /\ e.set.fba = buf
  /\ ~StartsDma(e) /\ ~Records(e) /\ ~Enables(e) /\ ~Flips(e)
Switches(e, on) ==
  /\ IsReg(e) /\ (StartsDma(e) => on)
  /\ ~SetsFba(e) /\ ~Records(e) /\ ~Enables(e) /\ ~Flips(e)
Keeps(e) == /\ ~IsReg(e) /\ ~SetsFba(e) /\ ~StartsDma(e)
            /\ ~Records(e) /\ ~Enables(e) /\ ~Flips(e)
RecordsAs(e, buf) ==
  /\ Records(e) /\ e.set.active_buf = buf
  /\ ~IsReg(e) /\ ~SetsFba(e) /\ ~StartsDma(e) /\ ~Enables(e) /\ ~Flips(e)
EnablesAs(e, on) ==
  /\ Enables(e) => on
  /\ ~IsReg(e) /\ ~SetsFba(e) /\ ~StartsDma(e) /\ ~Records(e) /\ ~Flips(e)
FlipsTo(e, i) ==
  /\ Flips(e) /\ e.set.front_idx = i
  /\ ~IsReg(e) /\ ~SetsFba(e) /\ ~StartsDma(e) /\ ~Records(e) /\ ~Enables(e)

\* Every effect a call is made of is one of these.
LEMMA EffectFacts ==
  /\ Commit \in Effects /\ IsCommit(Commit) /\ Keeps(Commit)
  /\ \A b \in Buffers : Draw(b) \in Effects /\ Keeps(Draw(b))
  /\ \A on \in BOOLEAN : Pwm(on) \in Effects /\ Keeps(Pwm(on))
  /\ \A b \in Buffers :
       /\ Reg([fba |-> b]) \in Effects /\ Shows(Reg([fba |-> b]), b)
       /\ Data([active_buf |-> b]) \in Effects
       /\ RecordsAs(Data([active_buf |-> b]), b)
  /\ \A on \in BOOLEAN :
       /\ Reg([dma |-> on]) \in Effects /\ Switches(Reg([dma |-> on]), on)
       /\ Data([dma_enabled |-> on]) \in Effects
       /\ EnablesAs(Data([dma_enabled |-> on]), on)
  /\ \A on \in BOOLEAN, a \in Alphas :
       /\ Reg([dma |-> on, alpha |-> a]) \in Effects
       /\ Switches(Reg([dma |-> on, alpha |-> a]), on)
  /\ \A s \in Sizes :
       /\ Reg([win |-> s]) \in Effects /\ Switches(Reg([win |-> s]), FALSE)
       /\ Data([win |-> s]) \in Effects /\ Keeps(Data([win |-> s]))
  /\ \A s \in Sizes, on \in BOOLEAN :
       /\ Data([win |-> s, dma_enabled |-> on]) \in Effects
       /\ EnablesAs(Data([win |-> s, dma_enabled |-> on]), on)
  /\ \A o \in Origins :
       Reg([origin |-> o]) \in Effects /\ Switches(Reg([origin |-> o]), FALSE)
  /\ \A a \in Alphas : Data([alpha |-> a]) \in Effects
                         /\ Keeps(Data([alpha |-> a]))
  /\ \A i \in 0..1 : /\ Data([front_idx |-> i]) \in Effects
                      /\ FlipsTo(Data([front_idx |-> i]), i)
<1> USE DEF Effects, IsReg, IsCommit, SetsFba, StartsDma, Records, Enables,
      Flips, Shows, Switches, Keeps, RecordsAs, EnablesAs, FlipsTo
<1>1. /\ Commit \in Effects /\ IsCommit(Commit) /\ Keeps(Commit)
      /\ \A b \in Buffers : Draw(b) \in Effects /\ Keeps(Draw(b))
      /\ \A on \in BOOLEAN : Pwm(on) \in Effects /\ Keeps(Pwm(on))
  BY DEF Commit, Draw, Pwm
<1>2. /\ \A b \in Buffers :
           Reg([fba |-> b]) \in Effects /\ Shows(Reg([fba |-> b]), b)
      /\ \A on \in BOOLEAN :
           Reg([dma |-> on]) \in Effects /\ Switches(Reg([dma |-> on]), on)
  BY DEF Reg, RegSets
<1>6. /\ \A on \in BOOLEAN, a \in Alphas :
           /\ Reg([dma |-> on, alpha |-> a]) \in Effects
           /\ Switches(Reg([dma |-> on, alpha |-> a]), on)
      /\ \A s \in Sizes :
           Reg([win |-> s]) \in Effects /\ Switches(Reg([win |-> s]), FALSE)
      /\ \A o \in Origins :
           /\ Reg([origin |-> o]) \in Effects
           /\ Switches(Reg([origin |-> o]), FALSE)
  BY DEF Reg, RegSets
<1>3. /\ \A b \in Buffers : /\ Data([active_buf |-> b]) \in Effects
                            /\ RecordsAs(Data([active_buf |-> b]), b)
      /\ \A on \in BOOLEAN : /\ Data([dma_enabled |-> on]) \in Effects
                             /\ EnablesAs(Data([dma_enabled |-> on]), on)
      /\ \A a \in Alphas :
           Data([alpha |-> a]) \in Effects /\ Keeps(Data([alpha |-> a]))
      /\ \A i \in 0..1 : /\ Data([front_idx |-> i]) \in Effects
                          /\ FlipsTo(Data([front_idx |-> i]), i)
  BY DEF Data, DataSets
<1>4. \A s \in Sizes :
           Data([win |-> s]) \in Effects /\ Keeps(Data([win |-> s]))
  BY DEF Data, DataSets
<1>7. \A s \in Sizes, on \in BOOLEAN :
           /\ Data([win |-> s, dma_enabled |-> on]) \in Effects
           /\ EnablesAs(Data([win |-> s, dma_enabled |-> on]), on)
  <2>1. SUFFICES ASSUME NEW s \in Sizes, NEW on \in BOOLEAN
                 PROVE  /\ Data([win |-> s, dma_enabled |-> on]) \in Effects
                        /\ EnablesAs(Data([win |-> s, dma_enabled |-> on]), on)
    OBVIOUS
  <2>2. [win |-> s, dma_enabled |-> on] \in DataSets
    BY DEF DataSets
  <2>3. Data([win |-> s, dma_enabled |-> on]) \in Effects
    BY <2>2 DEF Data
  <2>4. EnablesAs(Data([win |-> s, dma_enabled |-> on]), on)
    BY DEF Data
  <2>5. QED
    BY <2>3, <2>4
<1>5. QED
  BY <1>1, <1>2, <1>3, <1>4, <1>6, <1>7

\* The driver's buffers.
LEMMA BufferFacts ==
  ASSUME TypeOK, NEW l \in Layers
  PROVE  /\ Null \in Buffers /\ AppBufs \subseteq Buffers
         /\ \A i \in 0..1 : Fb(l, i) \in Buffers
         /\ Front(l) \in Buffers
         /\ l \notin NoAlloc /\ DoubleBuffer =>
              \A i \in 0..1 : Fb(l, i) = <<l, i>> /\ Fb(l, i) # Null
         /\ l \notin NoAlloc => Fb(l, 0) # Null
         /\ Writable(l) \subseteq Buffers \ {Null}
         /\ ~WritesOwn => Writable(l) = AppBufs
<1>1. /\ Null \in Buffers /\ AppBufs \subseteq Buffers
      /\ \A i \in 0..1 : Fb(l, i) \in Buffers
  BY DEF Buffers
<1>2. drv[l].front_idx \in 0..1 /\ drv[l].active_buf \in Buffers
  BY DEF TypeOK
<1>3. Front(l) \in Buffers
  BY <1>1, <1>2 DEF Front
<1>4. /\ l \notin NoAlloc /\ DoubleBuffer =>
           \A i \in 0..1 : Fb(l, i) = <<l, i>> /\ Fb(l, i) # Null
      /\ l \notin NoAlloc => Fb(l, 0) # Null
  BY LayerAssumption DEF Fb
<1>5. GetFramebuffer(l) \in Buffers
  BY <1>1, <1>2 DEF GetFramebuffer
<1>6. Writable(l) \subseteq Buffers \ {Null}
  BY <1>1, <1>5, LayerAssumption DEF Writable
<1>7. ~WritesOwn => Writable(l) = AppBufs
  BY DEF Writable
<1>8. QED
  BY <1>1, <1>3, <1>4, <1>6, <1>7

\* xlcdc_layer_swap_buffers.
LEMMA FlipPlan ==
  ASSUME TypeOK, NEW l \in Layers, NEW i \in 0..1, DoubleBuffer,
         Plan(l, <<>>)
  PROVE  Flip(l, i, Fb(l, i)) \in Seq(Effects) /\ Plan(l, Flip(l, i, Fb(l, i)))
<1> DEFINE b == Fb(l, i)
<1> DEFINE t == Flip(l, i, b)
<1>1. b \in Buffers
  BY BufferFacts
<1>2. t = <<Data([front_idx |-> i]), Reg([fba |-> b]), Commit,
            Data([active_buf |-> b])>>
  BY DEF Flip
<1>3. t \in Seq(Effects) /\ Len(t) = 4
  BY <1>1, <1>2, EffectFacts
<1>4. /\ FlipsTo(t[1], i) /\ Shows(t[2], b)
      /\ IsCommit(t[3]) /\ Keeps(t[3]) /\ RecordsAs(t[4], b)
  BY <1>1, <1>2, EffectFacts
<1>5. l \notin NoAlloc => b = <<l, i>> /\ b # Null
  BY BufferFacts
<1> HIDE DEF t, b
<1> USE <1>3, <1>4 DEF FlipsTo, Shows, Keeps, RecordsAs, Plan, Positions
<1>6. NullSafe(l, t) /\ SingleBuffered(l, t)
  BY <1>5 DEF NullSafe, SingleBuffered
<1>7. Tracked(l, t)
  BY DEF Tracked
<1>8. Fronted(l, t)
  BY <1>5 DEF Fronted, Showable
<1>9. Committing(t)
  BY DEF Committing
<1>10. QED
  BY <1>6, <1>7, <1>8, <1>9 DEF t, b

\* xlcdc_layer_write: a pointer swap, or a copy and the swap that completes it.
LEMMA WritePlan ==
  ASSUME TypeOK, NEW l \in Layers, Plan(l, <<>>),
         NEW b \in Writable(l) \cup ({Front(l)} \ {Null}),
         NEW t \in {<<Reg([fba |-> b]), Commit, Data([active_buf |-> b])>>,
                   <<Draw(b), Reg([fba |-> b]), Commit,
                     Data([active_buf |-> b])>>}
  PROVE  t \in Seq(Effects) /\ Plan(l, t)
<1>1. b \in Buffers /\ b # Null
  BY BufferFacts
<1>2. t \in Seq(Effects)
  <2>1. /\ Reg([fba |-> b]) \in Effects /\ Commit \in Effects
        /\ Data([active_buf |-> b]) \in Effects /\ Draw(b) \in Effects
    BY <1>1, EffectFacts
  <2>2. /\ <<Reg([fba |-> b]), Commit, Data([active_buf |-> b])>>
             \in Seq(Effects)
        /\ <<Draw(b), Reg([fba |-> b]), Commit, Data([active_buf |-> b])>>
             \in Seq(Effects)
    BY <2>1
  <2>3. QED
    BY <2>2
<1>3. PICK n \in 0..1 :
        /\ Len(t) = n + 3 /\ (n = 1 => Keeps(t[1]))
        /\ Shows(t[n + 1], b) /\ IsCommit(t[n + 2]) /\ Keeps(t[n + 2])
        /\ RecordsAs(t[n + 3], b)
  <2>1. CASE t = <<Reg([fba |-> b]), Commit, Data([active_buf |-> b])>>
    <3>1. /\ Len(t) = 0 + 3 /\ Shows(t[0 + 1], b)
          /\ IsCommit(t[0 + 2]) /\ Keeps(t[0 + 2]) /\ RecordsAs(t[0 + 3], b)
      BY <1>1, <2>1, EffectFacts
    <3>2. QED
      BY <3>1
  <2>2. CASE t = <<Draw(b), Reg([fba |-> b]), Commit, Data([active_buf |-> b])>>
    <3>1. /\ Len(t) = 1 + 3 /\ Keeps(t[1]) /\ Shows(t[1 + 1], b)
          /\ IsCommit(t[1 + 2]) /\ Keeps(t[1 + 2]) /\ RecordsAs(t[1 + 3], b)
      BY <1>1, <2>2, EffectFacts
    <3>2. QED
      BY <3>1
  <2>3. QED
    BY <2>1, <2>2
<1>4. DoubleBuffer /\ ~WritesOwn /\ l \notin NoAlloc =>
        b \in Showable(l, drv[l].front_idx)
  BY <1>1, BufferFacts DEF Showable, Front, TypeOK
<1> USE <1>1, <1>2, <1>3 DEF Shows, Keeps, RecordsAs, Plan, Positions
<1>5. NullSafe(l, t) /\ SingleBuffered(l, t)
  BY DEF NullSafe, SingleBuffered
<1>6. Tracked(l, t)
  BY DEF Tracked
<1>7. Fronted(l, t)
  BY <1>4 DEF Fronted
<1>8. Committing(t)
  BY DEF Committing
<1>9. QED
  BY <1>5, <1>6, <1>7, <1>8

\* The backlight may follow any call.
LEMMA LightPlan ==
  ASSUME NEW l \in Layers, NEW on \in BOOLEAN, NEW t \in Seq(Effects),
         Plan(l, t), t # <<>>
  PROVE  /\ AndLight(l, t, on) \in Seq(Effects) /\ AndLight(l, t, on) # <<>>
         /\ Plan(l, AndLight(l, t, on))
<1>1. Pwm(on) \in Effects /\ Keeps(Pwm(on))
  BY EffectFacts
<1>2. CASE l = "base"
  <2> DEFINE e == Pwm(on)
             u == Append(t, e)
  <2>1. /\ u \in Seq(Effects) /\ Len(u) = Len(t) + 1
        /\ \A i \in 1..Len(t) : u[i] = t[i]
        /\ u[Len(t) + 1] = e
    BY <1>1
  <2>2. Len(t) \in Nat
    OBVIOUS
  <2>3. Keeps(e)
    BY <1>1
  <2> HIDE DEF e, u
  <2> USE <2>1, <2>2, <2>3 DEF Keeps, Plan, Positions
  <2>4. NullSafe(l, u) /\ SingleBuffered(l, u)
    BY DEF NullSafe, SingleBuffered
  <2>5. Tracked(l, u)
    BY DEF Tracked
  <2>6. Fronted(l, u)
    BY DEF Fronted
  <2>7. Committing(u)
    BY DEF Committing
  <2>8. u # <<>>
    BY <2>1
  <2>9. QED
    BY <1>2, <2>4, <2>5, <2>6, <2>7, <2>8 DEF AndLight, u, e
<1>3. QED
  BY <1>2 DEF AndLight

\* The effects that switch the DMA on or off.
LEMMA DmaFacts ==
  ASSUME NEW l \in Layers, NEW on \in BOOLEAN
  PROVE  LET u == <<SetDma(l, on), Commit, Data([dma_enabled |-> on])>>
         IN  /\ u \in Seq(Effects) /\ Len(u) = 3 /\ Switches(u[1], on)
             /\ IsCommit(u[2]) /\ Keeps(u[2]) /\ EnablesAs(u[3], on)
<1>1. SetDma(l, on) \in Effects /\ Switches(SetDma(l, on), on)
  BY LayerAssumption, EffectFacts DEF SetDma
<1>2. /\ Commit \in Effects /\ IsCommit(Commit) /\ Keeps(Commit)
      /\ Data([dma_enabled |-> on]) \in Effects
      /\ EnablesAs(Data([dma_enabled |-> on]), on)
  BY EffectFacts
<1>3. QED
  BY <1>1, <1>2

\* xlcdc_layer_enable(dev, true): with an address to program, and without.
LEMMA ShowFacts ==
  ASSUME TypeOK, NEW l \in Layers
  PROVE  /\ Show(l) \in Seq(Effects)
         /\ Front(l) # Null =>
              /\ Len(Show(l)) = 5 /\ Shows(Show(l)[1], Front(l))
              /\ RecordsAs(Show(l)[2], Front(l)) /\ Switches(Show(l)[3], TRUE)
              /\ IsCommit(Show(l)[4]) /\ Keeps(Show(l)[4])
              /\ EnablesAs(Show(l)[5], TRUE)
         /\ Front(l) = Null =>
              /\ Len(Show(l)) = 3 /\ Switches(Show(l)[1], TRUE)
              /\ IsCommit(Show(l)[2]) /\ Keeps(Show(l)[2])
              /\ EnablesAs(Show(l)[3], TRUE)
<1> DEFINE u == <<SetDma(l, TRUE), Commit, Data([dma_enabled |-> TRUE])>>
<1>1. /\ u \in Seq(Effects) /\ Len(u) = 3 /\ Switches(u[1], TRUE)
      /\ IsCommit(u[2]) /\ Keeps(u[2]) /\ EnablesAs(u[3], TRUE)
  BY DmaFacts
<1>2. /\ Reg([fba |-> Front(l)]) \in Effects
      /\ Shows(Reg([fba |-> Front(l)]), Front(l))
      /\ Data([active_buf |-> Front(l)]) \in Effects
      /\ RecordsAs(Data([active_buf |-> Front(l)]), Front(l))
  BY BufferFacts, EffectFacts
<1>3. CASE Front(l) # Null
  <2> DEFINE e1 == Reg([fba |-> Front(l)])
             e2 == Data([active_buf |-> Front(l)])
             e3 == SetDma(l, TRUE)
             e4 == Commit
             e5 == Data([dma_enabled |-> TRUE])
  <2>1. Show(l) = <<e1, e2>> \o <<e3, e4, e5>>
    BY <1>3 DEF Show
  <2>2. /\ e1 \in Effects /\ e2 \in Effects /\ e3 \in Effects
        /\ e4 \in Effects /\ e5 \in Effects
    BY <1>2, LayerAssumption, EffectFacts DEF SetDma
  <2>3. /\ Shows(e1, Front(l)) /\ RecordsAs(e2, Front(l)) /\ Switches(e3, TRUE)
        /\ IsCommit(e4) /\ Keeps(e4) /\ EnablesAs(e5, TRUE)
    BY <1>1, <1>2
  <2> HIDE DEF e1, e2, e3, e4, e5
  <2>4. /\ Show(l) \in Seq(Effects) /\ Len(Show(l)) = 5
        /\ Show(l)[1] = e1 /\ Show(l)[2] = e2 /\ Show(l)[3] = e3
        /\ Show(l)[4] = e4 /\ Show(l)[5] = e5
    BY <2>1, <2>2
  <2>5. QED
    BY <1>3, <2>3, <2>4
<1>4. CASE Front(l) = Null
  <2>1. Show(l) = <<>> \o u
    BY <1>4 DEF Show
  <2> HIDE DEF u
  <2>2. Show(l) = u
    BY <1>1, <2>1
  <2>3. QED
    BY <1>1, <1>4, <2>2
<1>5. QED
  BY <1>3, <1>4

\* xlcdc_layer_enable(dev, true) and the same part of blanking_off.
LEMMA ShowPlan ==
  ASSUME TypeOK, NEW l \in Layers, Plan(l, <<>>)
  PROVE  Show(l) \in Seq(Effects) /\ Show(l) # <<>> /\ Plan(l, Show(l))
<1> DEFINE b == Front(l)
           t == Show(l)
<1>1. b \in Buffers /\ (l \notin NoAlloc => b # Null)
  BY BufferFacts DEF Plan, SingleBuffered, Front, TypeOK
<1>2. CASE b # Null
  <2>1. /\ Shows(t[1], b) /\ RecordsAs(t[2], b) /\ Switches(t[3], TRUE)
        /\ IsCommit(t[4]) /\ Keeps(t[4]) /\ EnablesAs(t[5], TRUE)
        /\ t \in Seq(Effects) /\ Len(t) = 5
    BY <1>2, ShowFacts
  <2>2. DoubleBuffer /\ l \notin NoAlloc => b = <<l, drv[l].front_idx>>
    BY BufferFacts DEF Front, TypeOK
  <2>3. b # Null /\ t # <<>>
    BY <1>2, <2>1
  <2> HIDE DEF b, t
  <2> USE <2>1, <2>3
      DEF Shows, Switches, Keeps, RecordsAs, EnablesAs, Plan, Positions
  <2>4. NullSafe(l, t) /\ SingleBuffered(l, t)
    BY DEF NullSafe, SingleBuffered
  <2>5. Tracked(l, t)
    BY DEF Tracked
  <2>6. Fronted(l, t)
    BY <2>2 DEF Fronted, Showable
  <2>7. Committing(t)
    BY DEF Committing
  <2>8. Plan(l, t)
    BY <2>4, <2>5, <2>6, <2>7
  <2>9. QED
    BY <2>3, <2>8 DEF t
<1>3. CASE b = Null
  <2>1. /\ Switches(t[1], TRUE) /\ IsCommit(t[2]) /\ Keeps(t[2])
        /\ EnablesAs(t[3], TRUE) /\ t \in Seq(Effects) /\ Len(t) = 3
    BY <1>3, ShowFacts
  <2>2. l \in NoAlloc
    BY <1>1, <1>3
  <2> HIDE DEF b, t
  <2> USE <2>1, <2>2 DEF Switches, Keeps, EnablesAs, Plan, Positions
  <2>3. NullSafe(l, t) /\ SingleBuffered(l, t)
    BY DEF NullSafe, SingleBuffered
  <2>4. Tracked(l, t)
    BY DEF Tracked
  <2>5. Fronted(l, t)
    BY DEF Fronted
  <2>6. Committing(t)
    BY DEF Committing
  <2>7. QED
    BY <2>3, <2>4, <2>5, <2>6 DEF t
<1>4. QED
  BY <1>2, <1>3

\* A call that writes no address and switches no DMA on, or back on: disable,
\* blanking_on, set_alpha, set_window_size, set_position and a copy alone.
Plain(l, t) ==
  /\ t \in Seq(Effects) /\ Len(t) > 0 /\ Committing(t)
  /\ \A i \in Positions(t) :
       /\ ~SetsFba(t[i]) /\ ~Records(t[i]) /\ ~Flips(t[i])
       /\ StartsDma(t[i]) \/ Enables(t[i]) => drv[l].dma_enabled

LEMMA PlainPlan ==
  ASSUME NEW l \in Layers, Plan(l, <<>>), NEW t, Plain(l, t)
  PROVE  t \in Seq(Effects) /\ t # <<>> /\ Plan(l, t)
<1>1. t \in Seq(Effects) /\ Len(t) > 0
  BY DEF Plain
<1>2. t # <<>>
  BY <1>1
<1> USE DEF Plain, Plan, Positions
<1>3. NullSafe(l, t) /\ SingleBuffered(l, t)
  BY DEF NullSafe, SingleBuffered
<1>4. Tracked(l, t)
  BY DEF Tracked
<1>5. Fronted(l, t)
  BY DEF Fronted
<1>6. QED
  BY <1>1, <1>2, <1>3, <1>4, <1>5

\* xlcdc_layer_heo_display_rgb and _yuv.
LEMMA HeoPlan ==
  ASSUME TypeOK, NEW l \in Layers, Plan(l, <<>>), HeoDisplays,
         NEW b \in AppBufs, NEW s \in Sizes,
         NEW t, t = <<Reg([win |-> s]), Reg([fba |-> b]),
                      Reg([dma |-> TRUE, alpha |-> drv[l].alpha]),
                      Data([win |-> s, dma_enabled |-> TRUE]), Commit>>
  PROVE  t \in Seq(Effects) /\ t # <<>> /\ Plan(l, t)
<1>1. b \in Buffers /\ b # Null /\ drv[l].alpha \in Alphas
  BY BufferFacts, LayerAssumption DEF TypeOK
<1>2. t \in Seq(Effects) /\ Len(t) = 5
  <2>1. /\ Reg([win |-> s]) \in Effects /\ Reg([fba |-> b]) \in Effects
        /\ Reg([dma |-> TRUE, alpha |-> drv[l].alpha]) \in Effects
        /\ Data([win |-> s, dma_enabled |-> TRUE]) \in Effects
        /\ Commit \in Effects
    BY <1>1, EffectFacts
  <2>2. QED
    BY <2>1
<1>3. /\ Switches(t[1], FALSE) /\ Shows(t[2], b) /\ Switches(t[3], TRUE)
      /\ EnablesAs(t[4], TRUE) /\ IsCommit(t[5]) /\ Keeps(t[5])
  BY <1>1, EffectFacts
<1> USE <1>1, <1>2, <1>3
    DEF Shows, Switches, Keeps, EnablesAs, Plan, Positions
<1>4. NullSafe(l, t) /\ SingleBuffered(l, t)
  BY DEF NullSafe, SingleBuffered
<1>5. Tracked(l, t)
  BY DEF Tracked
<1>6. Fronted(l, t)
  BY DEF Fronted, Showable
<1>7. Committing(t)
  BY DEF Committing
<1>8. QED
  BY <1>4, <1>5, <1>6, <1>7

\* Whatever call starts, the invariants hold of it from its first effect on.
LEMMA CallPlan ==
  ASSUME TypeOK, NEW c \in Everyone, NEW l \in Layers, Plan(l, <<>>),
         Start(c, l) \/ SwapBuffers(c, l)
  PROVE  \E t \in Seq(Effects) : t # <<>> /\ Plan(l, t) /\ Call(c, l, t)
<1>1. CASE SwapBuffers(c, l)
  <2> DEFINE i == 1 - drv[l].front_idx
  <2>1. DoubleBuffer /\ i \in 0..1 /\ Call(c, l, Flip(l, i, Fb(l, i)))
    BY <1>1 DEF SwapBuffers, TypeOK
  <2>2. /\ Flip(l, i, Fb(l, i)) \in Seq(Effects)
        /\ Plan(l, Flip(l, i, Fb(l, i)))
    BY <2>1, FlipPlan
  <2>3. Flip(l, i, Fb(l, i)) # <<>>
    BY DEF Flip
  <2>4. QED
    BY <2>1, <2>2, <2>3
<1>2. /\ Show(l) \in Seq(Effects) /\ Show(l) # <<>> /\ Plan(l, Show(l))
      /\ AndLight(l, Show(l), TRUE) \in Seq(Effects)
      /\ AndLight(l, Show(l), TRUE) # <<>>
      /\ Plan(l, AndLight(l, Show(l), TRUE))
  BY ShowPlan, LightPlan
<1>3. /\ Hide(l) \in Seq(Effects) /\ Hide(l) # <<>> /\ Plan(l, Hide(l))
      /\ AndLight(l, Hide(l), FALSE) \in Seq(Effects)
      /\ AndLight(l, Hide(l), FALSE) # <<>>
      /\ Plan(l, AndLight(l, Hide(l), FALSE))
  <2> DEFINE t == Hide(l)
  <2>1. /\ t \in Seq(Effects) /\ Len(t) = 3 /\ Switches(t[1], FALSE)
        /\ IsCommit(t[2]) /\ Keeps(t[2]) /\ EnablesAs(t[3], FALSE)
    BY DmaFacts DEF Hide
  <2> HIDE DEF t
  <2>2. Committing(t)
    BY <2>1 DEF Committing, Positions, Keeps, EnablesAs
  <2>3. Plain(l, t)
    BY <2>1, <2>2 DEF Plain, Positions, Keeps, EnablesAs, Switches
  <2>4. t \in Seq(Effects) /\ t # <<>> /\ Plan(l, t)
    BY <2>3, PlainPlan
  <2>5. QED
    BY <2>4, LightPlan DEF t
<1>4. CASE BlankingOff(c, l) \/ BlankingOn(c, l)
           \/ \E on \in BOOLEAN : Enable(c, l, on)
  BY <1>2, <1>3, <1>4 DEF BlankingOff, BlankingOn, Enable
<1>5. ASSUME NEW b \in Writable(l), WriteFull(c, l, b)
      PROVE  \E t \in Seq(Effects) : t # <<>> /\ Plan(l, t) /\ Call(c, l, t)
  <2> DEFINE t == <<Reg([fba |-> b]), Commit, Data([active_buf |-> b])>>
  <2>1. Call(c, l, t)
    BY <1>5 DEF WriteFull
  <2>2. t # <<>>
    OBVIOUS
  <2>3. t \in Seq(Effects) /\ Plan(l, t)
    BY WritePlan
  <2>4. QED
    BY <2>1, <2>2, <2>3
<1>6. ASSUME NEW incomplete \in BOOLEAN, WritePartial(c, l, incomplete)
      PROVE  \E t \in Seq(Effects) : t # <<>> /\ Plan(l, t) /\ Call(c, l, t)
  <2> DEFINE b == Front(l)
             t == <<Draw(b), Reg([fba |-> b]), Commit,
                    Data([active_buf |-> b])>>
             u == <<Draw(b)>>
  <2>1. l \notin NoAlloc /\ (Call(c, l, t) \/ Call(c, l, u))
    BY <1>6 DEF WritePartial
  <2>2. b \in Buffers /\ b # Null
    BY <2>1, BufferFacts DEF Plan, SingleBuffered, Front, TypeOK
  <2>3. t # <<>> /\ u # <<>>
    OBVIOUS
  <2>4. t \in Seq(Effects) /\ Plan(l, t)
    BY <2>2, WritePlan
  <2>5. u \in Seq(Effects) /\ Plan(l, u)
    <3>1. u \in Seq(Effects) /\ Len(u) = 1 /\ Keeps(u[1])
      BY <2>2, EffectFacts
    <3> HIDE DEF u
    <3>2. Committing(u)
      BY <3>1 DEF Committing, Positions, Keeps
    <3>3. Plain(l, u)
      BY <3>1, <3>2 DEF Plain, Positions, Keeps
    <3>4. QED
      BY <3>3, PlainPlan
  <2>6. QED
    BY <2>1, <2>3, <2>4, <2>5
<1>7. \A e : Switches(e, FALSE) => Switches(e, drv[l].dma_enabled)
  BY DEF Switches
<1>8. ASSUME NEW a \in Alphas, SetAlpha(c, l, a)
      PROVE  \E t \in Seq(Effects) : t # <<>> /\ Plan(l, t) /\ Call(c, l, t)
  <2> DEFINE t == <<Data([alpha |-> a]),
                    Reg([dma |-> drv[l].dma_enabled, alpha |-> a]), Commit>>
  <2>1. Call(c, l, t)
    BY <1>8 DEF SetAlpha
  <2>2. drv[l].dma_enabled \in BOOLEAN
    BY DEF TypeOK
  <2>3. /\ t \in Seq(Effects) /\ Len(t) = 3 /\ IsCommit(t[3]) /\ Keeps(t[3])
        /\ Keeps(t[1]) /\ Switches(t[2], drv[l].dma_enabled)
    BY <2>2, EffectFacts
  <2> HIDE DEF t
  <2>4. Plain(l, t)
    BY <2>3 DEF Plain, Committing, Positions, Keeps, Switches
  <2>5. QED
    BY <2>1, <2>4, PlainPlan
<1>9. ASSUME NEW s \in Sizes, SetWindowSize(c, l, s)
      PROVE  \E t \in Seq(Effects) : t # <<>> /\ Plan(l, t) /\ Call(c, l, t)
  <2> DEFINE t == <<Reg([win |-> s]), Data([win |-> s]), Commit>>
  <2>1. Call(c, l, t)
    BY <1>9 DEF SetWindowSize
  <2>2. /\ Reg([win |-> s]) \in Effects /\ Data([win |-> s]) \in Effects
        /\ Switches(Reg([win |-> s]), drv[l].dma_enabled)
        /\ Keeps(Data([win |-> s]))
        /\ Commit \in Effects /\ IsCommit(Commit) /\ Keeps(Commit)
    BY <1>7, EffectFacts
  <2>3. /\ t \in Seq(Effects) /\ Len(t) = 3 /\ IsCommit(t[3]) /\ Keeps(t[3])
        /\ Switches(t[1], drv[l].dma_enabled) /\ Keeps(t[2])
    BY <2>2
  <2> HIDE DEF t
  <2>4. Plain(l, t)
    BY <2>3 DEF Plain, Committing, Positions, Keeps, Switches
  <2>5. QED
    BY <2>1, <2>4, PlainPlan
<1>10. ASSUME NEW o \in Origins, SetPosition(c, l, o)
       PROVE  \E t \in Seq(Effects) : t # <<>> /\ Plan(l, t) /\ Call(c, l, t)
  <2> DEFINE t == <<Reg([origin |-> o]), Commit>>
  <2>1. Call(c, l, t)
    BY <1>10 DEF SetPosition
  <2>2. /\ Reg([origin |-> o]) \in Effects
        /\ Switches(Reg([origin |-> o]), drv[l].dma_enabled)
        /\ Commit \in Effects /\ IsCommit(Commit) /\ Keeps(Commit)
    BY <1>7, EffectFacts
  <2>3. /\ t \in Seq(Effects) /\ Len(t) = 2 /\ IsCommit(t[2]) /\ Keeps(t[2])
        /\ Switches(t[1], drv[l].dma_enabled)
    BY <2>2
  <2> HIDE DEF t
  <2>4. Plain(l, t)
    BY <2>3 DEF Plain, Committing, Positions, Keeps, Switches
  <2>5. QED
    BY <2>1, <2>4, PlainPlan
<1>11. ASSUME NEW b \in AppBufs, NEW s \in Sizes, HeoDisplay(c, l, b, s)
       PROVE  \E t \in Seq(Effects) : t # <<>> /\ Plan(l, t) /\ Call(c, l, t)
  <2> DEFINE t == <<Reg([win |-> s]), Reg([fba |-> b]),
                    Reg([dma |-> TRUE, alpha |-> drv[l].alpha]),
                    Data([win |-> s, dma_enabled |-> TRUE]), Commit>>
  <2>1. HeoDisplays /\ Call(c, l, t)
    BY <1>11 DEF HeoDisplay
  <2>2. t \in Seq(Effects) /\ t # <<>> /\ Plan(l, t)
    BY <2>1, HeoPlan
  <2>3. QED
    BY <2>1, <2>2
<1>12. QED
  BY <1>1, <1>4, <1>5, <1>6, <1>8, <1>9, <1>10, <1>11 DEF Start

-----------------------------------------------------------------------------

\* An effect is done: on the register or the driver's record of its layer.
Did(c) ==
  /\ job[c].todo # <<>> /\ Done(c)
  /\ live' = live
  /\ reg' = IF IsReg(Next1(c))
              THEN [reg EXCEPT ![job[c].layer] = Updated(@, Next1(c).set)]
              ELSE reg
  /\ drv' = IF Next1(c).op = "data"
              THEN [drv EXCEPT ![job[c].layer] = Updated(@, Next1(c).set)]
              ELSE drv

\* A call begins as a whole.
LEMMA CallBegins ==
  ASSUME IInv, NEW c \in Everyone, NEW l \in Layers,
         Start(c, l) \/ SwapBuffers(c, l)
  PROVE  \E t \in Seq(Effects) : t # <<>> /\ Plan(l, t) /\ Call(c, l, t)
<1>1. Idle(l)
  BY DEF Start, BlankingOff, BlankingOn, Enable, WriteFull, WritePartial,
    SwapBuffers, SetAlpha, SetWindowSize, SetPosition, HeoDisplay, Call
<1>2. Plan(l, <<>>)
  BY <1>1 DEF IInv, LayerInv, Todo, TodoIn, Idle
<1>3. QED
  BY <1>2, CallPlan DEF IInv

\* A step leaves the calls alone, or begins one, or does the next effect of one.
LEMMA NextForms ==
  ASSUME IInv, [Next]_vars
  PROVE  /\ setup' = setup
         /\ \/ /\ UNCHANGED <<job, drv, reg>>
               /\ live' = live \/ \E l \in Layers :
                                     live' = [live EXCEPT ![l] = reg[l]]
            \/ \E c \in Everyone, l \in Layers, t \in Seq(Effects) :
                 t # <<>> /\ Plan(l, t) /\ Call(c, l, t)
            \/ \E c \in Everyone : Did(c)
<1>1. ASSUME NEW c \in Everyone, NEW l \in Layers,
             Start(c, l) \/ SwapBuffers(c, l)
      PROVE  /\ setup' = setup
             /\ \E t \in Seq(Effects) : t # <<>> /\ Plan(l, t) /\ Call(c, l, t)
  BY <1>1, CallBegins DEF Call
<1>2. ASSUME NEW c \in Everyone,
             RegStep(c) \/ DataStep(c) \/ DrawStep(c) \/ PwmStep(c)
             \/ CommitUnlock(c)
      PROVE  setup' = setup /\ Did(c)
  BY <1>2 DEF RegStep, DataStep, DrawStep, PwmStep, CommitUnlock, Doing, Did,
    hwVars, IsReg
<1>3. ASSUME NEW c \in Everyone,
             CommitLock(c) \/ CommitWait(c) \/ CommitWrite(c)
      PROVE  UNCHANGED <<setup, job, drv, reg, live>>
  BY <1>3 DEF CommitLock, CommitWait, CommitWrite, hwVars
<1>4. ASSUME NEW l \in Layers, Latch(l)
      PROVE  UNCHANGED <<setup, job, drv, reg>>
             /\ live' = [live EXCEPT ![l] = reg[l]]
  BY <1>4 DEF Latch, jobVars
<1>5. CASE UNCHANGED vars
  BY <1>5 DEF vars, hwVars, jobVars
<1>6. QED
  BY <1>1, <1>2, <1>3, <1>4, <1>5 DEF Next, Step, VsyncCallback, Everyone

\* The setup, and what it allows, never changes.
LEMMA SetupKept ==
  ASSUME setup' = setup
  PROVE  /\ DoubleBuffer' = DoubleBuffer /\ WritesOwn' = WritesOwn
         /\ HeoDisplays' = HeoDisplays /\ Timeouts' = Timeouts
         /\ KeepsPending' = KeepsPending /\ SipCoversLatch' = SipCoversLatch
         /\ Buffers' = Buffers /\ Effects' = Effects
         /\ Registers' = Registers
<1>1. DoubleBuffer' = DoubleBuffer
  BY DEF DoubleBuffer
<1>2. Buffers' = Buffers
  BY <1>1 DEF Buffers, Fb
<1>3. QED
  BY <1>1, <1>2 DEF WritesOwn, HeoDisplays, Timeouts, KeepsPending,
    SipCoversLatch, Effects, RegSets, DataSets, Registers

\* A sequence of effects with its first one done.
LEMMA TailFacts ==
  ASSUME NEW t \in Seq(Effects), t # <<>>
  PROVE  /\ Head(t) \in Effects /\ Head(t) = t[1]
         /\ Tail(t) \in Seq(Effects)
         /\ Len(t) \in Nat \ {0} /\ Len(Tail(t)) = Len(t) - 1
         /\ Tail(t) = <<>> <=> Len(t) = 1
         /\ \A i \in 1..Len(Tail(t)) : Tail(t)[i] = t[i + 1]
<1>1. Len(t) \in Nat \ {0}
  BY EmptySeq, LenProperties
<1>2. Head(t) \in Effects /\ Head(t) = t[1]
  BY <1>1
<1>3. /\ Tail(t) \in Seq(Effects) /\ Len(Tail(t)) = Len(t) - 1
      /\ \A i \in 1..Len(Tail(t)) : Tail(t)[i] = t[i + 1]
  BY <1>1
<1>4. Tail(t) = <<>> <=> Len(t) = 1
  BY <1>1, <1>3, EmptySeq
<1>5. QED
  BY <1>1, <1>2, <1>3, <1>4

\* What is left of a call, and whose layer it is on, after an effect.
LEMMA DoneFacts ==
  ASSUME JobType, NEW c \in Everyone, job[c].todo # <<>>, Done(c)
  PROVE  /\ job[c].todo \in Seq(Effects) /\ job[c].layer \in Layers
         /\ job' \in [Everyone -> [layer : Layers \cup {Null},
                                  todo : Seq(Effects)]]
         /\ job'[c].todo = Tail(job[c].todo)
         /\ job'[c].layer = IF Tail(job[c].todo) = <<>> THEN Null
                                                       ELSE job[c].layer
         /\ \A d \in Everyone \ {c} : job'[d] = job[d]
<1> DEFINE t == job[c].todo
           l == job[c].layer
<1>1. t \in Seq(Effects) /\ l \in Layers /\ t # <<>>
  BY DEF JobType
<1> HIDE DEF t
<1>2. /\ Tail(t) \in Seq(Effects)
      /\ Tail(t) = <<>> <=> Len(t) = 1
  BY <1>1, TailFacts
<1> DEFINE next == IF Len(t) = 1 THEN NoJob
                                 ELSE [layer |-> l, todo |-> Tail(t)]
<1>3. /\ job' = [job EXCEPT ![c] = next]
      /\ job \in [Everyone -> [layer : Layers \cup {Null},
                               todo : Seq(Effects)]]
  BY DEF Done, JobType, t
<1>4. /\ next \in [layer : Layers \cup {Null}, todo : Seq(Effects)]
      /\ next.todo = Tail(t)
      /\ next.layer = IF Tail(t) = <<>> THEN Null ELSE l
  <2>1. CASE Len(t) = 1
    BY <1>2, <2>1 DEF NoJob
  <2>2. CASE Len(t) # 1
    BY <1>1, <1>2, <2>2
  <2>3. QED
    BY <2>1, <2>2
<1> HIDE DEF l, next
<1>5. /\ job' \in [Everyone -> [layer : Layers \cup {Null},
                               todo : Seq(Effects)]]
      /\ job'[c] = next /\ \A d \in Everyone \ {c} : job'[d] = job[d]
  BY <1>3, <1>4
<1>6. QED
  BY <1>1, <1>4, <1>5 DEF t, l

\* The calls keep their type, and one layer to each caller.
LEMMA JobStep ==
  ASSUME IInv, [Next]_vars
  PROVE  /\ JobType'
         /\ \A c, d \in Everyone : job'[c].layer = job'[d].layer /\ c # d
                                    => job'[c].layer = Null
<1>1. Effects' = Effects
  BY NextForms, SetupKept
<1>2. CASE job' = job
  BY <1>1, <1>2 DEF IInv, JobType, OwnInv
<1>3. ASSUME NEW c \in Everyone, NEW l \in Layers, NEW t \in Seq(Effects),
             t # <<>>, Call(c, l, t)
      PROVE  /\ JobType'
             /\ \A a, b \in Everyone : job'[a].layer = job'[b].layer /\ a # b
                                        => job'[a].layer = Null
  <2>1. job' = [job EXCEPT ![c] = [layer |-> l, todo |-> t]] /\ l # Null
        /\ \A d \in Everyone : job[d].layer # l
    BY <1>3, LayerAssumption DEF Call, Idle
  <2>2. QED
    BY <1>1, <1>3, <2>1 DEF IInv, JobType, OwnInv
<1>4. ASSUME NEW c \in Everyone, Did(c)
      PROVE  /\ JobType'
             /\ \A a, b \in Everyone : job'[a].layer = job'[b].layer /\ a # b
                                        => job'[a].layer = Null
  <2>1. JobType /\ job[c].todo # <<>> /\ Done(c)
    BY <1>4 DEF Did, IInv
  <2>2. /\ job[c].layer \in Layers
        /\ job' \in [Everyone -> [layer : Layers \cup {Null},
                                 todo : Seq(Effects)]]
        /\ job'[c].todo = Tail(job[c].todo)
        /\ job'[c].layer = IF Tail(job[c].todo) = <<>> THEN Null
                                                      ELSE job[c].layer
        /\ \A d \in Everyone \ {c} : job'[d] = job[d]
    BY <2>1, DoneFacts
  <2>3. \A d \in Everyone : job'[d].layer = Null <=> job'[d].todo = <<>>
    <3>1. job'[c].layer = Null <=> job'[c].todo = <<>>
      BY <2>2, LayerAssumption
    <3>2. QED
      BY <2>1, <2>2, <3>1 DEF JobType
  <2>4. JobType'
    BY <1>1, <2>2, <2>3 DEF JobType
  <2>5. \A a \in Everyone : job'[a].layer \in {Null, job[a].layer}
    BY <2>2
  <2>6. QED
    BY <2>4, <2>5 DEF IInv, OwnInv
<1>5. QED
  BY <1>2, <1>3, <1>4, NextForms

\* The caller inside a commit owns the lock, and is at its commit.
LEMMA OwnStep ==
  ASSUME IInv, [Next]_vars
  PROVE  OwnInv'
<1>1. /\ JobType /\ JobType'
      /\ \A c, d \in Everyone : job'[c].layer = job'[d].layer /\ c # d
                                 => job'[c].layer = Null
  BY JobStep DEF IInv
<1>2. /\ stage \in [Everyone -> {"outside", "busy", "clear", "sip"}]
      /\ \A c \in Everyone : attre_lock = c <=> stage[c] # "outside"
      /\ \A c \in Everyone : stage[c] # "outside" =>
           job[c].todo # <<>> /\ Head(job[c].todo).op = "commit"
      /\ Nobody \notin Everyone
  BY LayerAssumption DEF IInv, TypeOK, OwnInv, Next1, Everyone
<1> DEFINE Locked ==
      \A c \in Everyone : attre_lock = c <=> stage[c] # "outside"
<1> DEFINE AtCommit ==
      \A c \in Everyone : stage[c] # "outside" =>
        job[c].todo # <<>> /\ Head(job[c].todo).op = "commit"
<1> SUFFICES Locked' /\ AtCommit'
  BY <1>1 DEF OwnInv, Next1
<1>3. CASE UNCHANGED <<job, stage, attre_lock>>
  BY <1>2, <1>3
<1>4. ASSUME NEW c \in Everyone, NEW l \in Layers, NEW t \in Seq(Effects),
             Call(c, l, t)
      PROVE  Locked' /\ AtCommit'
  <2>1. /\ job[c].todo = <<>> /\ \A d \in Everyone \ {c} : job'[d] = job[d]
        /\ UNCHANGED <<stage, attre_lock>>
    BY <1>1, <1>4 DEF Call, NoJob, JobType
  <2>2. QED
    BY <1>2, <2>1
<1>5. ASSUME NEW c \in Everyone,
             RegStep(c) \/ DataStep(c) \/ DrawStep(c) \/ PwmStep(c)
      PROVE  Locked' /\ AtCommit'
  <2>1. /\ job[c].todo # <<>> /\ Head(job[c].todo).op # "commit" /\ Done(c)
        /\ UNCHANGED <<stage, attre_lock>>
    BY <1>5 DEF RegStep, DataStep, DrawStep, PwmStep, Doing, Next1
  <2>2. \A d \in Everyone \ {c} : job'[d] = job[d]
    BY <1>1, <2>1, DoneFacts
  <2>3. QED
    BY <1>2, <2>1, <2>2
<1>6. ASSUME NEW c \in Everyone, CommitLock(c)
      PROVE  Locked' /\ AtCommit'
  <2>1. /\ job[c].todo # <<>> /\ Head(job[c].todo).op = "commit"
        /\ attre_lock = Nobody /\ attre_lock' = c /\ job' = job
        /\ stage' = [stage EXCEPT ![c] = "busy"]
    BY <1>6 DEF CommitLock, Doing, Next1
  <2>2. QED
    BY <1>2, <2>1
<1>7. ASSUME NEW c \in Everyone, CommitWait(c) \/ CommitWrite(c)
      PROVE  Locked' /\ AtCommit'
  <2>1. /\ stage[c] # "outside" /\ UNCHANGED <<job, attre_lock>>
        /\ \/ stage' = [stage EXCEPT ![c] = "clear"]
           \/ stage' = [stage EXCEPT ![c] = "sip"]
    BY <1>7 DEF CommitWait, CommitWrite
  <2>2. QED
    BY <1>2, <2>1
<1>8. ASSUME NEW c \in Everyone, CommitUnlock(c)
      PROVE  Locked' /\ AtCommit'
  <2>1. /\ stage[c] = "sip" /\ attre_lock' = Nobody
        /\ stage' = [stage EXCEPT ![c] = "outside"]
        /\ job[c].todo # <<>> /\ Done(c)
    BY <1>8 DEF CommitUnlock, Doing
  <2>2. \A d \in Everyone : stage'[d] = "outside"
    BY <1>2, <2>1
  <2>3. QED
    BY <1>2, <2>1, <2>2
<1>9. ASSUME NEW c \in Everyone, NEW l \in Layers,
             Start(c, l) \/ SwapBuffers(c, l)
      PROVE  Locked' /\ AtCommit'
  BY <1>4, <1>9, CallBegins
<1>10. CASE UNCHANGED vars
  BY <1>3, <1>10 DEF vars, jobVars
<1>11. ASSUME NEW l \in Layers, Latch(l)
       PROVE  Locked' /\ AtCommit'
  BY <1>3, <1>11 DEF Latch, jobVars
<1>12. QED
  BY <1>5, <1>6, <1>7, <1>8, <1>9, <1>10, <1>11
    DEF Next, Step, VsyncCallback, Everyone

\* What a register write and an update of the driver's record leave.
DriverData == [front_idx : 0..1, active_buf : Buffers, dma_enabled : BOOLEAN,
               alpha : Alphas, win : Sizes]

LEMMA UpdatedRegisters ==
  ASSUME NEW r \in Registers, NEW s \in RegSets
  PROVE  /\ Updated(r, s) \in Registers
         /\ Updated(r, s).fba = IF "fba" \in DOMAIN s THEN s.fba ELSE r.fba
         /\ Updated(r, s).dma = IF "dma" \in DOMAIN s THEN s.dma ELSE r.dma
         /\ "fba" \in DOMAIN s => s.fba \in Buffers
         /\ "dma" \in DOMAIN s => s.dma \in BOOLEAN
  BY DEF Updated, Registers, RegSets

LEMMA UpdatedData ==
  ASSUME NEW d \in DriverData, NEW s \in DataSets
  PROVE  /\ Updated(d, s) \in DriverData
         /\ Updated(d, s).active_buf =
              IF "active_buf" \in DOMAIN s THEN s.active_buf ELSE d.active_buf
         /\ Updated(d, s).dma_enabled =
              IF "dma_enabled" \in DOMAIN s THEN s.dma_enabled
                                            ELSE d.dma_enabled
         /\ Updated(d, s).front_idx =
              IF "front_idx" \in DOMAIN s THEN s.front_idx ELSE d.front_idx
  BY DEF Updated, DriverData, DataSets

\* The next effect of a call carries a set of fields of its kind.
LEMMA NextEffect ==
  ASSUME JobType, NEW c \in Everyone, job[c].todo # <<>>
  PROVE  /\ Next1(c) \in Effects /\ job[c].layer \in Layers
         /\ Next1(c).op = "reg" => Next1(c).set \in RegSets
         /\ Next1(c).op = "data" => Next1(c).set \in DataSets
         /\ Next1(c).op = "pwm" => Next1(c).on \in BOOLEAN
<1>1. job[c].todo \in Seq(Effects) /\ job[c].layer \in Layers
  BY DEF JobType
<1>2. Next1(c) \in Effects
  BY <1>1, TailFacts DEF Next1
<1>3. QED
  BY <1>1, <1>2 DEF Effects

\* Every step keeps the types.
LEMMA TypeStep ==
  ASSUME IInv, [Next]_vars
  PROVE  TypeOK'
<1>1. /\ setup' = setup /\ Buffers' = Buffers /\ Registers' = Registers
      /\ JobType
  BY NextForms, SetupKept DEF IInv
<1>2. /\ setup \in Setups /\ drv \in [Layers -> DriverData]
      /\ reg \in [Layers -> Registers] /\ live \in [Layers -> Registers]
      /\ committed \in [Layers -> Registers] /\ attre \subseteq Layers
      /\ attre_lock \in Everyone \cup {Nobody} /\ backlight \in BOOLEAN
      /\ stage \in [Everyone -> {"outside", "busy", "clear", "sip"}]
  BY DEF IInv, TypeOK, DriverData
<1>3. SUFFICES
      /\ drv' \in [Layers -> DriverData]
      /\ reg' \in [Layers -> Registers] /\ live' \in [Layers -> Registers]
      /\ committed' \in [Layers -> Registers] /\ attre' \subseteq Layers
      /\ attre_lock' \in Everyone \cup {Nobody} /\ backlight' \in BOOLEAN
      /\ stage' \in [Everyone -> {"outside", "busy", "clear", "sip"}]
  BY <1>1, <1>2 DEF TypeOK, DriverData
<1>4. ASSUME NEW c \in Everyone, NEW l \in Layers,
             Start(c, l) \/ SwapBuffers(c, l)
      PROVE  UNCHANGED <<drv, reg, live, attre, backlight, attre_lock, stage,
                         committed>>
  BY <1>4, CallBegins DEF Call, hwVars
<1>5. ASSUME NEW c \in Everyone, RegStep(c)
      PROVE  /\ reg' \in [Layers -> Registers]
             /\ UNCHANGED <<drv, live, attre, backlight, attre_lock, stage,
                            committed>>
  <2>1. job[c].layer \in Layers /\ Next1(c).set \in RegSets
    BY <1>1, <1>5, NextEffect DEF RegStep, Doing
  <2>2. Updated(reg[job[c].layer], Next1(c).set) \in Registers
    BY <1>2, <2>1, UpdatedRegisters
  <2>3. QED
    BY <1>2, <1>5, <2>1, <2>2 DEF RegStep
<1>6. ASSUME NEW c \in Everyone, DataStep(c)
      PROVE  /\ drv' \in [Layers -> DriverData]
             /\ UNCHANGED <<reg, live, attre, backlight, attre_lock, stage,
                            committed>>
  <2>1. job[c].layer \in Layers /\ Next1(c).set \in DataSets
    BY <1>1, <1>6, NextEffect DEF DataStep, Doing
  <2>2. Updated(drv[job[c].layer], Next1(c).set) \in DriverData
    BY <1>2, <2>1, UpdatedData
  <2>3. QED
    BY <1>2, <1>6, <2>1, <2>2 DEF DataStep, hwVars
<1>7. ASSUME NEW c \in Everyone, DrawStep(c) \/ PwmStep(c)
      PROVE  /\ backlight' \in BOOLEAN
             /\ UNCHANGED <<drv, reg, live, attre, attre_lock, stage,
                            committed>>
  <2>1. CASE DrawStep(c)
    BY <1>2, <2>1 DEF DrawStep, hwVars
  <2>2. CASE PwmStep(c)
    BY <1>1, <1>2, <2>2, NextEffect DEF PwmStep, Doing
  <2>3. QED
    BY <1>7, <2>1, <2>2
<1>8. ASSUME NEW c \in Everyone,
             CommitLock(c) \/ CommitWait(c) \/ CommitUnlock(c)
      PROVE  /\ attre_lock' \in Everyone \cup {Nobody}
             /\ stage' \in [Everyone -> {"outside", "busy", "clear", "sip"}]
             /\ UNCHANGED <<drv, reg, live, attre, backlight, committed>>
  BY <1>2, <1>8 DEF CommitLock, CommitWait, CommitUnlock, hwVars
<1>9. ASSUME NEW c \in Everyone, CommitWrite(c)
      PROVE  /\ attre' \subseteq Layers /\ committed' \in [Layers -> Registers]
             /\ stage' \in [Everyone -> {"outside", "busy", "clear", "sip"}]
             /\ UNCHANGED <<drv, reg, live, backlight, attre_lock>>
  <2>1. job[c].layer \in Layers
    BY <1>1, <1>9, NextEffect DEF CommitWrite, Doing
  <2>2. QED
    BY <1>2, <1>9, <2>1 DEF CommitWrite
<1>10. ASSUME NEW l \in Layers, Latch(l)
       PROVE  /\ live' \in [Layers -> Registers] /\ attre' \subseteq Layers
              /\ UNCHANGED <<drv, reg, backlight, attre_lock, stage, committed>>
  BY <1>2, <1>10 DEF Latch, jobVars
<1>11. CASE UNCHANGED vars
  BY <1>2, <1>11 DEF vars, hwVars, jobVars
<1>12. QED
  BY <1>2, <1>4, <1>5, <1>6, <1>7, <1>8, <1>9, <1>10, <1>11
    DEF Next, Step, VsyncCallback, Everyone

-----------------------------------------------------------------------------

LEMMA TodoFacts ==
  ASSUME NEW jobs, NEW l \in Layers,
         \A c, d \in Everyone : jobs[c].layer = jobs[d].layer /\ c # d
                               => jobs[c].layer = Null
  PROVE  /\ (\A c \in Everyone : jobs[c].layer # l) => TodoIn(jobs, l) = <<>>
         /\ \A c \in Everyone :
              jobs[c].layer = l => TodoIn(jobs, l) = jobs[c].todo
<1>1. ASSUME NEW c \in Everyone, jobs[c].layer = l
      PROVE  TodoIn(jobs, l) = jobs[c].todo
  <2>1. (CHOOSE d \in Everyone : jobs[d].layer = l) = c
    BY <1>1, LayerAssumption
  <2>2. QED
    BY <1>1, <2>1 DEF TodoIn
<1>2. QED
  BY <1>1 DEF TodoIn

\* What is left to do on each layer, before and after a step.
LEMMA TodoStep ==
  ASSUME IInv, [Next]_vars, NEW l \in Layers
  PROVE  /\ (\A c \in Everyone : job[c].layer # l) => Todo(l) = <<>>
         /\ \A c \in Everyone : job[c].layer = l => Todo(l) = job[c].todo
         /\ (\A c \in Everyone : job'[c].layer # l) => Todo(l)' = <<>>
         /\ \A c \in Everyone : job'[c].layer = l => Todo(l)' = job'[c].todo
<1>1. /\ \A c, d \in Everyone : job[c].layer = job[d].layer /\ c # d
                                 => job[c].layer = Null
      /\ \A c, d \in Everyone : job'[c].layer = job'[d].layer /\ c # d
                                 => job'[c].layer = Null
  BY JobStep DEF IInv, OwnInv
<1>2. /\ (\A c \in Everyone : job[c].layer # l) => Todo(l) = <<>>
      /\ \A c \in Everyone : job[c].layer = l => Todo(l) = job[c].todo
  BY <1>1, TodoFacts DEF Todo
<1>3. /\ (\A c \in Everyone : job'[c].layer # l) => Todo(l)' = <<>>
      /\ \A c \in Everyone : job'[c].layer = l => Todo(l)' = job'[c].todo
  BY <1>1, TodoFacts DEF Todo
<1>4. QED
  BY <1>2, <1>3

\* A layer whose callers do not change keeps what is left to do on it.
LEMMA OthersTodo ==
  ASSUME IInv, [Next]_vars, NEW l \in Layers, NEW c \in Everyone,
         job[c].layer # l, job'[c].layer # l,
         \A d \in Everyone \ {c} : job'[d] = job[d]
  PROVE  Todo(l)' = Todo(l)
<1>1. CASE \E d \in Everyone : job[d].layer = l
  BY <1>1, TodoStep
<1>2. CASE \A d \in Everyone : job[d].layer # l
  <2>1. \A d \in Everyone : job'[d].layer # l
    BY <1>2
  <2>2. QED
    BY <1>2, <2>1, TodoStep
<1>3. QED
  BY <1>1, <1>2

\* A call that begins ..
LEMMA CallTodo ==
  ASSUME IInv, [Next]_vars, NEW c \in Everyone, NEW k \in Layers,
         NEW t \in Seq(Effects), Call(c, k, t)
  PROVE  /\ Todo(k) = <<>> /\ Todo(k)' = t
         /\ \A l \in Layers \ {k} : Todo(l)' = Todo(l)
         /\ job[c].todo = <<>> /\ \A d \in Everyone \ {c} : job'[d] = job[d]
         /\ \A d \in Everyone : job[d].layer # k
<1>1. /\ job' = [job EXCEPT ![c] = [layer |-> k, todo |-> t]]
      /\ job[c] = [layer |-> Null, todo |-> <<>>]
      /\ \A d \in Everyone : job[d].layer # k
  BY DEF Call, Idle, NoJob
<1>2. /\ job'[c] = [layer |-> k, todo |-> t]
      /\ \A d \in Everyone \ {c} : job'[d] = job[d]
  BY <1>1 DEF IInv, JobType
<1>3. Todo(k) = <<>> /\ Todo(k)' = t
  BY <1>1, <1>2, TodoStep
<1>4. ASSUME NEW l \in Layers \ {k}
      PROVE  Todo(l)' = Todo(l)
  <2>1. job[c].layer # l /\ job'[c].layer # l
    BY <1>1, <1>2, LayerAssumption
  <2>2. QED
    BY <1>2, <2>1, OthersTodo
<1>5. QED
  BY <1>1, <1>2, <1>3, <1>4

\* .. and one that does an effect.
LEMMA DidTodo ==
  ASSUME IInv, [Next]_vars, NEW c \in Everyone, job[c].todo # <<>>, Done(c)
  PROVE  /\ job[c].todo \in Seq(Effects) /\ job[c].layer \in Layers
         /\ Todo(job[c].layer) = job[c].todo
         /\ \A l \in Layers : Todo(l)' = IF l = job[c].layer THEN Tail(Todo(l))
                                                            ELSE Todo(l)
         /\ \A d \in Everyone \ {c} : job'[d] = job[d]
         /\ job'[c].layer \in {Null, job[c].layer}
<1> DEFINE k == job[c].layer
           t == job[c].todo
<1>1. /\ t \in Seq(Effects) /\ k \in Layers /\ k # Null
      /\ job'[c].todo = Tail(t)
      /\ job'[c].layer = IF Tail(t) = <<>> THEN Null ELSE k
      /\ \A d \in Everyone \ {c} : job'[d] = job[d]
  BY DoneFacts, LayerAssumption DEF IInv
<1>2. Todo(k) = t
  BY <1>1, TodoStep
<1>3. ASSUME NEW l, l = k
      PROVE  Todo(l)' = Tail(t)
  <2>1. CASE Tail(t) = <<>>
    <3>1. \A d \in Everyone \ {c} : job[d].layer # l
      BY <1>1, <1>3 DEF IInv, OwnInv
    <3>2. \A d \in Everyone : job'[d].layer # l
      BY <1>1, <1>3, <2>1, <3>1
    <3>3. QED
      BY <1>1, <1>3, <2>1, <3>2, TodoStep
  <2>2. CASE Tail(t) # <<>>
    BY <1>1, <1>3, <2>2, TodoStep
  <2>3. QED
    BY <2>1, <2>2
<1>4. ASSUME NEW l \in Layers \ {k}
      PROVE  Todo(l)' = Todo(l)
  <2>1. job[c].layer # l /\ job'[c].layer # l
    BY <1>1, <1>4, LayerAssumption
  <2>2. QED
    BY <1>1, <2>1, OthersTodo
<1>5. QED
  BY <1>1, <1>2, <1>3, <1>4

\* Nothing of the layer but what it scans out changes.
Same(l) == /\ drv'[l] = drv[l] /\ reg'[l] = reg[l]
           /\ live'[l] = live[l] \/ live'[l] = reg[l]

\* The first effect of t on the layer.
Effect(l, t) ==
  /\ live'[l] = live[l]
  /\ reg'[l] = IF IsReg(Head(t)) THEN Updated(reg[l], Head(t).set) ELSE reg[l]
  /\ drv'[l] = IF Head(t).op = "data" THEN Updated(drv[l], Head(t).set)
                                      ELSE drv[l]

\* A step as one layer sees it.
LEMMA LayerStep ==
  ASSUME IInv, [Next]_vars, NEW l \in Layers
  PROVE  \/ Todo(l)' = Todo(l) /\ Same(l)
         \/ Todo(l)' \in Seq(Effects) /\ Plan(l, Todo(l)') /\ Same(l)
         \/ /\ Todo(l) \in Seq(Effects) /\ Todo(l) # <<>>
            /\ Todo(l)' = Tail(Todo(l)) /\ Effect(l, Todo(l))
<1>1. JobType
  BY DEF IInv
<1>2. /\ drv \in [Layers -> DriverData] /\ reg \in [Layers -> Registers]
      /\ live \in [Layers -> Registers]
  BY DEF IInv, TypeOK, DriverData
<1>5. CASE UNCHANGED <<job, drv, reg>>
           /\ (live' = live \/ \E k \in Layers :
                                  live' = [live EXCEPT ![k] = reg[k]])
  BY <1>2, <1>5 DEF Todo, Same
<1>6. ASSUME NEW c \in Everyone, NEW k \in Layers, NEW t \in Seq(Effects),
             Plan(k, t), Call(c, k, t)
      PROVE  \/ Todo(l)' = Todo(l) /\ Same(l)
             \/ Todo(l)' \in Seq(Effects) /\ Plan(l, Todo(l)') /\ Same(l)
  <2>1. Same(l)
    BY <1>6 DEF Call, hwVars, Same
  <2>2. QED
    BY <1>6, <2>1, CallTodo
<1>7. ASSUME NEW c \in Everyone, Did(c)
      PROVE  \/ Todo(l)' = Todo(l) /\ Same(l)
             \/ /\ Todo(l) \in Seq(Effects) /\ Todo(l) # <<>>
                /\ Todo(l)' = Tail(Todo(l)) /\ Effect(l, Todo(l))
  <2>1. /\ job[c].todo # <<>> /\ job[c].todo \in Seq(Effects)
        /\ job[c].layer \in Layers
        /\ Todo(job[c].layer) = job[c].todo
        /\ Todo(l)' = IF l = job[c].layer THEN Tail(Todo(l)) ELSE Todo(l)
    BY <1>7, DidTodo DEF Did
  <2>2. CASE job[c].layer = l
    <3>1. Effect(l, job[c].todo)
      BY <1>2, <1>7, <2>1, <2>2 DEF Did, Effect, Next1
    <3>2. QED
      BY <2>1, <2>2, <3>1
  <2>3. CASE job[c].layer # l
    <3>1. Same(l)
      BY <1>2, <1>7, <2>1, <2>3 DEF Did, Same
    <3>2. QED
      BY <2>1, <2>3, <3>1
  <2>4. QED
    BY <2>2, <2>3
<1>8. QED
  BY <1>5, <1>6, <1>7, NextForms

\* What holds of the rest of a call goes on holding while others step ..
LEMMA SameKeeps ==
  ASSUME NEW l \in Layers, NEW t, Plan(l, t), Same(l), setup' = setup
  PROVE  Plan(l, t)'
<1> USE SetupKept DEF Plan, Same
<1>1. NullSafe(l, t)' /\ SingleBuffered(l, t)'
  BY DEF NullSafe, SingleBuffered
<1>2. Tracked(l, t)'
  BY DEF Tracked
<1>3. Fronted(l, t)'
  BY DEF Fronted, Showable
<1>4. Committing(t)'
  BY DEF Committing
<1>5. QED
  BY <1>1, <1>2, <1>3, <1>4

\* .. and after its next effect.
LEMMA EffectKeeps ==
  ASSUME TypeOK, NEW l \in Layers, NEW t \in Seq(Effects), t # <<>>,
         Plan(l, t), Effect(l, t), setup' = setup
  PROVE  Plan(l, Tail(t))'
<1> DEFINE e == t[1]
           u == Tail(t)
<1>1. /\ Len(t) \in Nat \ {0} /\ Len(u) \in Nat /\ Len(u) = Len(t) - 1
      /\ Head(t) = e /\ t[1] = e /\ 1 \in 1..Len(t) /\ e \in Effects
      /\ \A i \in 1..Len(u) : u[i] = t[i + 1]
  BY TailFacts
<1>2. /\ drv[l] \in DriverData /\ reg[l] \in Registers
      /\ live[l] \in Registers
  BY DEF TypeOK, DriverData
<1>3. /\ IsReg(e) => e.set \in RegSets
      /\ e.op = "data" => e.set \in DataSets
  BY <1>1 DEF Effects, IsReg
<1>4. /\ live'[l] = live[l]
      /\ reg'[l].fba = IF SetsFba(e) THEN e.set.fba ELSE reg[l].fba
      /\ reg'[l].dma => StartsDma(e) \/ reg[l].dma
  BY <1>1, <1>2, <1>3, UpdatedRegisters DEF Effect, IsReg, SetsFba, StartsDma
<1>5. /\ drv'[l].active_buf = IF Records(e) THEN e.set.active_buf
                                            ELSE drv[l].active_buf
      /\ drv'[l].dma_enabled => Enables(e) \/ drv[l].dma_enabled
      /\ drv'[l].front_idx = IF Flips(e) THEN e.set.front_idx
                                         ELSE drv[l].front_idx
  BY <1>1, <1>2, <1>3, UpdatedData DEF Effect, Records, Enables, Flips
<1>6. /\ ~(SetsFba(e) /\ Records(e)) /\ ~(SetsFba(e) /\ Flips(e))
      /\ SetsFba(e) => ~Enables(e)
  BY DEF SetsFba, Records, Flips, Enables
<1>7. \A i \in 1..Len(t) : i = 1 \/ (i - 1 \in 1..Len(u) /\ t[i] = u[i - 1])
  BY <1>1
<1> HIDE DEF e, u
<1> USE SetupKept DEF Plan, Positions
<1>8. NullSafe(l, u)'
  BY <1>1, <1>4, <1>5, <1>7 DEF NullSafe
<1>9. SingleBuffered(l, u)'
  BY <1>1, <1>5 DEF SingleBuffered
<1>10. Tracked(l, u)'
  <2>1. SUFFICES ASSUME ~HeoDisplays
                 PROVE  Tracked(l, u)'
    BY DEF Tracked
  <2>2. /\ \A i, j \in Positions(u) : SetsFba(u[i]) /\ SetsFba(u[j]) => i = j
        /\ \A i, j \in Positions(u) : Records(u[i]) /\ Records(u[j]) => i = j
    <3>1. SUFFICES ASSUME NEW i \in Positions(u), NEW j \in Positions(u)
                   PROVE  /\ SetsFba(u[i]) /\ SetsFba(u[j]) => i = j
                          /\ Records(u[i]) /\ Records(u[j]) => i = j
      OBVIOUS
    <3>2. /\ i + 1 \in Positions(t) /\ u[i] = t[i + 1] /\ i \in Nat
          /\ j + 1 \in Positions(t) /\ u[j] = t[j + 1] /\ j \in Nat
      BY <1>1
    <3>3. /\ SetsFba(t[i + 1]) /\ SetsFba(t[j + 1]) => i + 1 = j + 1
          /\ Records(t[i + 1]) /\ Records(t[j + 1]) => i + 1 = j + 1
      BY <2>1, <3>2 DEF Tracked
    <3>4. QED
      BY <3>2, <3>3
  <2>3. \A i \in Positions(u) : SetsFba(u[i]) =>
          \E j \in Positions(u) :
            i < j /\ Records(u[j]) /\ u[j].set.active_buf = u[i].set.fba
    <3>1. SUFFICES ASSUME NEW i \in Positions(u), SetsFba(u[i])
                   PROVE  \E j \in Positions(u) :
                            /\ i < j /\ Records(u[j])
                            /\ u[j].set.active_buf = u[i].set.fba
      OBVIOUS
    <3>2. i + 1 \in Positions(t) /\ u[i] = t[i + 1]
      BY <1>1
    <3>3. PICK j \in Positions(t) :
            /\ i + 1 < j /\ Records(t[j])
            /\ t[j].set.active_buf = t[i + 1].set.fba
      BY <2>1, <3>1, <3>2 DEF Tracked
    <3>4. j - 1 \in Positions(u) /\ i < j - 1 /\ u[j - 1] = t[j]
      BY <1>1, <3>3
    <3>5. QED
      BY <3>2, <3>3, <3>4
  <2>4. \A j \in Positions(u) : Records(u[j]) =>
          \/ \E i \in Positions(u) : SetsFba(u[i])
          \/ u[j].set.active_buf = reg'[l].fba
    <3>1. SUFFICES ASSUME NEW j \in Positions(u), Records(u[j]),
                          \A i \in Positions(u) : ~SetsFba(u[i])
                   PROVE  u[j].set.active_buf = reg'[l].fba
      OBVIOUS
    <3>2. j + 1 \in Positions(t) /\ u[j] = t[j + 1]
      BY <1>1
    <3>3. CASE SetsFba(e)
      <4>1. PICK k \in Positions(t) :
              Records(t[k]) /\ t[k].set.active_buf = e.set.fba
        BY <1>1, <2>1, <3>3 DEF Tracked
      <4>2. k = j + 1
        BY <2>1, <3>1, <3>2, <4>1 DEF Tracked
      <4>3. QED
        BY <1>4, <3>2, <3>3, <4>1, <4>2
    <3>4. CASE ~SetsFba(e)
      <4>1. \A i \in Positions(t) : ~SetsFba(t[i])
        BY <1>1, <1>7, <3>1, <3>4
      <4>2. t[j + 1].set.active_buf = reg[l].fba
        BY <2>1, <3>1, <3>2, <4>1 DEF Tracked
      <4>3. QED
        BY <1>4, <3>2, <3>4, <4>2
    <3>5. QED
      BY <3>3, <3>4
  <2>5. (\A j \in Positions(u) : ~Records(u[j])) =>
          drv'[l].active_buf = reg'[l].fba
    BY <1>1, <1>4, <1>5, <1>6, <1>7, <2>1 DEF Tracked
  <2>6. QED
    BY <2>2, <2>3, <2>4, <2>5 DEF Tracked
<1>11. Fronted(l, u)'
  <2> DEFINE applies == DoubleBuffer /\ ~WritesOwn /\ l \notin NoAlloc
  <2>1. SUFFICES ASSUME applies
                 PROVE  Fronted(l, u)'
    <3>1. (~applies)' => Fronted(l, u)'
      BY DEF Fronted
    <3>2. QED
      BY <3>1
  <2>2. \A i, j \in Positions(u) : Flips(u[i]) /\ Flips(u[j]) => i = j
    BY <1>1, <2>1 DEF Fronted
  <2>3. \A i \in Positions(u) : Flips(u[i]) =>
          /\ \E j \in Positions(u) : i < j /\ SetsFba(u[j])
          /\ \A j \in Positions(u) : SetsFba(u[j]) =>
               u[j].set.fba \in Showable(l, u[i].set.front_idx)
    <3>1. SUFFICES ASSUME NEW i \in Positions(u), Flips(u[i])
                   PROVE  /\ \E j \in Positions(u) : i < j /\ SetsFba(u[j])
                          /\ \A j \in Positions(u) : SetsFba(u[j]) =>
                               u[j].set.fba \in Showable(l, u[i].set.front_idx)
      OBVIOUS
    <3>2. i + 1 \in Positions(t) /\ u[i] = t[i + 1]
      BY <1>1
    <3>3. /\ \E j \in Positions(t) : i + 1 < j /\ SetsFba(t[j])
          /\ \A j \in Positions(t) : SetsFba(t[j]) =>
               t[j].set.fba \in Showable(l, u[i].set.front_idx)
      BY <2>1, <3>1, <3>2 DEF Fronted
    <3>4. PICK j \in Positions(t) : i + 1 < j /\ SetsFba(t[j])
      BY <3>3
    <3>5. j - 1 \in Positions(u) /\ i < j - 1 /\ u[j - 1] = t[j]
      BY <1>1, <3>4
    <3>6. QED
      BY <1>1, <3>3, <3>4, <3>5
  <2>4. ASSUME \A i \in Positions(u) : ~Flips(u[i])
        PROVE  /\ \A j \in Positions(u) : SetsFba(u[j]) =>
                    u[j].set.fba \in Showable(l, drv'[l].front_idx)
               /\ \/ \E j \in Positions(u) : SetsFba(u[j])
                  \/ reg'[l].fba \in Showable(l, drv'[l].front_idx) \cup {Null}
    <3>1. CASE Flips(e)
      <4>1. /\ \E j \in Positions(t) : 1 < j /\ SetsFba(t[j])
            /\ \A j \in Positions(t) : SetsFba(t[j]) =>
                 t[j].set.fba \in Showable(l, drv'[l].front_idx)
        BY <1>1, <1>5, <2>1, <3>1 DEF Fronted
      <4>2. QED
        BY <1>1, <1>7, <4>1
    <3>2. CASE ~Flips(e)
      <4>1. \A i \in Positions(t) : ~Flips(t[i])
        BY <1>1, <1>7, <2>4, <3>2
      <4>2. /\ \A j \in Positions(t) : SetsFba(t[j]) =>
                 t[j].set.fba \in Showable(l, drv'[l].front_idx)
            /\ \/ \E j \in Positions(t) : SetsFba(t[j])
               \/ reg[l].fba \in Showable(l, drv'[l].front_idx) \cup {Null}
        BY <1>5, <2>1, <3>2, <4>1 DEF Fronted
      <4>3. QED
        BY <1>1, <1>4, <1>7, <4>2
    <3>3. QED
      BY <3>1, <3>2
  <2>5. QED
    BY <2>2, <2>3, <2>4 DEF Fronted, Showable
<1>12. Committing(u)'
  BY <1>1, <1>7 DEF Committing
<1>13. QED
  BY <1>8, <1>9, <1>10, <1>11, <1>12 DEF u

-----------------------------------------------------------------------------

\* The calls of no caller have anything left.
LEMMA NoTodo ==
  ASSUME NEW l \in Layers, \A c \in Everyone : job[c].layer # l
  PROVE  Todo(l) = <<>>
  BY DEF Todo, TodoIn

LEMMA InitSatisfiesIInv == ASSUME Init PROVE IInv
<1> USE DEF Init
<1>1. TypeOK
  <2>1. SetupRegisters \in Registers
    BY LayerAssumption DEF SetupRegisters, Registers, Buffers
  <2>2. drv \in [Layers -> [front_idx : 0..1, active_buf : Buffers,
                           dma_enabled : BOOLEAN, alpha : Alphas, win : Sizes]]
    BY LayerAssumption DEF Buffers
  <2>3. QED
    BY <2>1, <2>2 DEF TypeOK
<1>2. /\ JobType /\ OwnInv /\ \A c \in Everyone : job[c].layer = Null
  <2>1. \A c \in Everyone : job[c].layer = Null /\ job[c].todo = <<>>
    BY DEF NoJob
  <2>2. JobType
    BY <2>1 DEF JobType, NoJob
  <2>3. OwnInv
    BY <2>1, LayerAssumption DEF OwnInv, Everyone
  <2>4. QED
    BY <2>1, <2>2, <2>3
<1>3. ASSUME NEW l \in Layers
      PROVE  Plan(l, Todo(l))
  <2> DEFINE t == Todo(l)
  <2>1. t = <<>> /\ Positions(t) = {}
    BY <1>2, LayerAssumption, NoTodo DEF Positions
  <2>2. /\ drv[l].front_idx = 0 /\ drv[l].active_buf = Null
        /\ ~drv[l].dma_enabled /\ reg[l].fba = Null /\ ~reg[l].dma
        /\ ~live[l].dma
    BY DEF SetupRegisters
  <2> HIDE DEF t, Init
  <2>3. NullSafe(l, t) /\ SingleBuffered(l, t) /\ Tracked(l, t)
    BY <2>1, <2>2 DEF NullSafe, SingleBuffered, Tracked
  <2>4. Fronted(l, t) /\ Committing(t)
    BY <2>1, <2>2 DEF Fronted, Committing
  <2>5. QED
    BY <2>3, <2>4 DEF Plan, t
<1>4. QED
  BY <1>1, <1>2, <1>3 DEF IInv, LayerInv

LEMMA NextKeepsIInv == ASSUME IInv, [Next]_vars PROVE IInv'
<1>1. TypeOK' /\ JobType' /\ OwnInv' /\ setup' = setup
  BY TypeStep, JobStep, OwnStep, NextForms
<1>2. ASSUME NEW l \in Layers, NEW u, u = Todo(l)'
      PROVE  Plan(l, u)'
  <2>1. CASE Todo(l)' = Todo(l) /\ Same(l)
    BY <1>1, <1>2, <2>1, SameKeeps DEF IInv, LayerInv
  <2>2. CASE Plan(l, Todo(l)') /\ Same(l)
    BY <1>1, <1>2, <2>2, SameKeeps
  <2>3. CASE /\ Todo(l) \in Seq(Effects) /\ Todo(l) # <<>>
             /\ Todo(l)' = Tail(Todo(l)) /\ Effect(l, Todo(l))
    BY <1>1, <1>2, <2>3, EffectKeeps DEF IInv, LayerInv
  <2>4. QED
    BY <2>1, <2>2, <2>3, LayerStep
<1>3. \A l \in Layers : Plan(l, Todo(l))'
  BY <1>2
<1>4. QED
  BY <1>1, <1>3 DEF IInv, LayerInv

-----------------------------------------------------------------------------

\* A step as the commit of one layer sees it: the layer waits in ATTRE as long
\* as it is not taken over, and its registers are those last committed ..
Unmoved(l) == /\ reg'[l] = reg[l] /\ committed'[l] = committed[l]
              /\ live'[l] = live[l] /\ (l \in attre' <=> l \in attre)

\* .. another caller steps, or the layer's own caller begins a call, takes the
\* lock or waits;
Elsewhere(l) ==
  /\ Todo(l)' = Todo(l) \/ Todo(l) = <<>>
  /\ InSip(l)' <=> InSip(l)
  /\ reg'[l] = reg[l] /\ committed'[l] = committed[l] /\ live'[l] = live[l]
  /\ ~Timeouts \/ KeepsPending => (l \in attre' <=> l \in attre)
Taken(l) ==
  /\ Todo(l)' = Todo(l) /\ (InSip(l)' <=> InSip(l))
  /\ reg'[l] = reg[l] /\ committed'[l] = committed[l]
  /\ l \in attre /\ l \notin attre' /\ live'[l] = reg[l]

\* .. its call does an effect that is no commit;
Goes(l) ==
  /\ Todo(l) \in Seq(Effects) /\ Todo(l) # <<>> /\ ~IsCommit(Head(Todo(l)))
  /\ Todo(l)' = Tail(Todo(l)) /\ ~InSip(l) /\ ~InSip(l)'
  /\ reg'[l] = reg[l] \/ IsReg(Head(Todo(l)))
  /\ committed'[l] = committed[l] /\ live'[l] = live[l]
  /\ l \in attre' <=> l \in attre

\* .. writes ATTRE, or ends its commit.
Writes(l) ==
  /\ Todo(l)' = Todo(l) /\ InSip(l)'
  /\ reg'[l] = reg[l] /\ committed'[l] = reg[l] /\ l \in attre'
Ends(l) ==
  /\ Todo(l) \in Seq(Effects) /\ Todo(l) # <<>>
  /\ Todo(l)' = Tail(Todo(l)) /\ InSip(l) /\ ~InSip(l)'
  /\ Unmoved(l)
  /\ SipCoversLatch /\ ~Timeouts => l \notin attre

CommitForms(l) ==
  Elsewhere(l) \/ Taken(l) \/ Goes(l) \/ Writes(l) \/ Ends(l)

\* Only the owner of the lock is in a commit, and it owns the layer.
LEMMA SipFacts ==
  ASSUME JobType, OwnInv, NEW c \in Everyone, job[c].todo # <<>>
  PROVE  /\ job[c].layer \in Layers
         /\ InSip(job[c].layer) <=> stage[c] = "sip"
         /\ stage[c] # "outside" =>
              \A l \in Layers \ {job[c].layer} : ~InSip(l)
<1>1. job[c].layer \in Layers /\ job[c].layer # Null
  BY LayerAssumption DEF JobType
<1>2. \A d \in Everyone : job[d].layer = job[c].layer => d = c
  BY <1>1 DEF OwnInv
<1>3. stage[c] # "outside" => \A d \in Everyone \ {c} : stage[d] = "outside"
  BY DEF OwnInv
<1>4. QED
  BY <1>1, <1>2, <1>3 DEF InSip

LEMMA CommitStep ==
  ASSUME IInv, ClearInv, [Next]_vars, NEW l \in Layers
  PROVE  CommitForms(l)
<1>1. /\ JobType /\ OwnInv /\ attre \subseteq Layers
      /\ reg \in [Layers -> Registers] /\ live \in [Layers -> Registers]
      /\ committed \in [Layers -> Registers]
      /\ stage \in [Everyone -> {"outside", "busy", "clear", "sip"}]
  BY DEF IInv, TypeOK
<1>2. ASSUME NEW c \in Everyone, NEW k \in Layers, NEW t \in Seq(Effects),
             Call(c, k, t)
      PROVE  Elsewhere(l)
  <2>1. /\ Todo(l)' = Todo(l) \/ Todo(l) = <<>>
        /\ job[c].todo = <<>> /\ \A d \in Everyone \ {c} : job'[d] = job[d]
    BY <1>2, CallTodo
  <2>2. UNCHANGED <<reg, live, attre, stage, committed>>
    BY <1>2 DEF Call, hwVars
  <2>3. stage[c] = "outside"
    BY <1>1, <2>1 DEF OwnInv
  <2>4. InSip(l)' <=> InSip(l)
    BY <2>1, <2>2, <2>3 DEF InSip
  <2>5. QED
    BY <2>1, <2>2, <2>4 DEF Elsewhere
<1>3. ASSUME NEW c \in Everyone,
             RegStep(c) \/ DataStep(c) \/ DrawStep(c) \/ PwmStep(c)
      PROVE  Elsewhere(l) \/ Goes(l)
  <2>1. /\ job[c].todo # <<>> /\ Done(c) /\ Next1(c).op # "commit"
        /\ UNCHANGED <<live, attre, stage, committed>>
        /\ \/ reg' = reg
           \/ /\ Next1(c).op = "reg"
              /\ reg' = [reg EXCEPT ![job[c].layer] =
                           Updated(@, Next1(c).set)]
    BY <1>3 DEF RegStep, DataStep, DrawStep, PwmStep, Doing, hwVars
  <2>2. /\ job[c].todo \in Seq(Effects) /\ job[c].layer \in Layers
        /\ Todo(job[c].layer) = job[c].todo
        /\ Todo(l)' = IF l = job[c].layer THEN Tail(Todo(l)) ELSE Todo(l)
        /\ \A d \in Everyone \ {c} : job'[d] = job[d]
    BY <2>1, DidTodo
  <2>3. stage[c] = "outside"
    BY <1>1, <2>1 DEF OwnInv
  <2>4. InSip(l)' <=> InSip(l)
    BY <2>1, <2>2, <2>3 DEF InSip
  <2>5. CASE l = job[c].layer
    <3>1. ~InSip(l)
      BY <1>1, <2>1, <2>3, <2>5, SipFacts
    <3>2. QED
      BY <2>1, <2>2, <2>4, <2>5, <3>1 DEF Goes, IsReg, IsCommit, Next1
  <2>6. CASE l # job[c].layer
    <3>1. reg'[l] = reg[l]
      BY <1>1, <2>1, <2>6
    <3>2. QED
      BY <2>1, <2>2, <2>4, <2>6, <3>1 DEF Elsewhere
  <2>7. QED
    BY <2>5, <2>6
<1>4. ASSUME NEW c \in Everyone, CommitLock(c) \/ CommitWait(c)
      PROVE  Elsewhere(l)
  <2>1. /\ UNCHANGED <<job, reg, live, attre, committed>>
        /\ stage[c] # "sip" /\ stage'[c] # "sip"
        /\ \A d \in Everyone \ {c} : stage'[d] = stage[d]
    BY <1>1, <1>4 DEF CommitLock, CommitWait, hwVars
  <2>2. (InSip(l)' <=> InSip(l)) /\ Todo(l)' = Todo(l)
    BY <2>1 DEF InSip, Todo
  <2>3. QED
    BY <2>1, <2>2 DEF Elsewhere
<1>5. ASSUME NEW c \in Everyone, CommitWrite(c)
      PROVE  Elsewhere(l) \/ Writes(l)
  <2>1. /\ job[c].todo # <<>> /\ stage[c] = "clear"
        /\ UNCHANGED <<job, reg, live>>
        /\ attre' = {job[c].layer} \cup IF KeepsPending THEN attre ELSE {}
        /\ committed' = [committed EXCEPT ![job[c].layer] = reg[job[c].layer]]
        /\ stage' = [stage EXCEPT ![c] = "sip"]
    BY <1>5 DEF CommitWrite, Doing
  <2>2. Todo(l)' = Todo(l)
    BY <2>1 DEF Todo
  <2>3. CASE l = job[c].layer
    <3>1. InSip(l)'
      BY <1>1, <2>1, <2>3 DEF InSip
    <3>2. QED
      BY <1>1, <2>1, <2>2, <2>3, <3>1 DEF Writes
  <2>4. CASE l # job[c].layer
    <3>1. InSip(l)' <=> InSip(l)
      BY <1>1, <2>1, <2>4 DEF InSip
    <3>2. ~Timeouts => attre = {}
      BY <2>1 DEF ClearInv
    <3>3. QED
      BY <1>1, <2>1, <2>2, <2>4, <3>1, <3>2 DEF Elsewhere
  <2>5. QED
    BY <2>3, <2>4
<1>6. ASSUME NEW c \in Everyone, CommitUnlock(c)
      PROVE  Elsewhere(l) \/ Ends(l)
  <2>1. /\ job[c].todo # <<>> /\ Done(c) /\ stage[c] = "sip"
        /\ SipCoversLatch => job[c].layer \notin attre \/ Timeouts
        /\ UNCHANGED <<reg, live, attre, committed>>
        /\ stage' = [stage EXCEPT ![c] = "outside"]
    BY <1>6 DEF CommitUnlock, Doing, hwVars
  <2>2. /\ job[c].todo \in Seq(Effects) /\ job[c].layer \in Layers
        /\ Todo(job[c].layer) = job[c].todo
        /\ Todo(l)' = IF l = job[c].layer THEN Tail(Todo(l)) ELSE Todo(l)
        /\ \A d \in Everyone \ {c} : job'[d] = job[d]
    BY <2>1, DidTodo
  <2>3. /\ InSip(job[c].layer)
        /\ \A k \in Layers \ {job[c].layer} : ~InSip(k)
    BY <1>1, <2>1, SipFacts
  <2>4. ~InSip(l)'
    <3>1. \A d \in Everyone : stage'[d] = "outside"
      BY <1>1, <2>1 DEF OwnInv
    <3>2. QED
      BY <3>1 DEF InSip
  <2>5. QED
    BY <2>1, <2>2, <2>3, <2>4 DEF Elsewhere, Ends, Unmoved
<1>7. ASSUME NEW k \in Layers, Latch(k)
      PROVE  Elsewhere(l) \/ Taken(l)
  <2>1. /\ UNCHANGED <<job, stage, reg, committed>>
        /\ k \in attre /\ attre' = attre \ {k}
        /\ live' = [live EXCEPT ![k] = reg[k]]
    BY <1>7 DEF Latch, jobVars
  <2>2. Todo(l)' = Todo(l) /\ (InSip(l)' <=> InSip(l))
    BY <2>1 DEF Todo, InSip
  <2>3. QED
    BY <1>1, <2>1, <2>2 DEF Elsewhere, Taken
<1>8. ASSUME UNCHANGED vars
      PROVE  Elsewhere(l)
  <2>1. UNCHANGED <<job, stage, reg, live, attre, committed>>
    BY <1>8 DEF vars, hwVars, jobVars
  <2>2. \A c \in Everyone : job'[c] = job[c] /\ stage'[c] = stage[c]
    BY <2>1
  <2>3. (InSip(l)' <=> InSip(l)) /\ Todo(l)' = Todo(l)
    BY <2>1, <2>2 DEF InSip, Todo
  <2>4. QED
    BY <2>1, <2>3 DEF Elsewhere
<1>9. ASSUME NEW c \in Everyone, NEW k \in Layers,
             Start(c, k) \/ SwapBuffers(c, k)
      PROVE  Elsewhere(l)
  BY <1>2, <1>9, CallBegins
<1>10. QED
  BY <1>3, <1>4, <1>5, <1>6, <1>7, <1>8, <1>9
    DEF CommitForms, Next, Step, VsyncCallback, Everyone

\* ATTRE is clear when it is written, unless the wait for it timed out.
LEMMA ClearStep ==
  ASSUME IInv, ClearInv, [Next]_vars
  PROVE  ClearInv'
<1>1. SUFFICES ASSUME ~Timeouts
               PROVE  \A c \in Everyone : stage'[c] = "clear" => attre' = {}
  <2>1. Timeouts' = Timeouts
    BY NextForms, SetupKept
  <2>2. QED
    BY <2>1 DEF ClearInv
<1>2. /\ stage \in [Everyone -> {"outside", "busy", "clear", "sip"}]
      /\ OwnInv /\ \A c \in Everyone : stage[c] = "clear" => attre = {}
  BY <1>1 DEF IInv, TypeOK, ClearInv
<1>3. CASE UNCHANGED <<stage, attre>>
  BY <1>2, <1>3
<1>4. ASSUME NEW c \in Everyone, NEW l \in Layers,
             Start(c, l) \/ SwapBuffers(c, l)
      PROVE  UNCHANGED <<stage, attre>>
  BY <1>4, CallBegins DEF Call, hwVars
<1>5. ASSUME NEW c \in Everyone,
             RegStep(c) \/ DataStep(c) \/ DrawStep(c) \/ PwmStep(c)
      PROVE  UNCHANGED <<stage, attre>>
  BY <1>5 DEF RegStep, DataStep, DrawStep, PwmStep, hwVars
<1>6. ASSUME NEW c \in Everyone, CommitLock(c) \/ CommitUnlock(c)
      PROVE  /\ stage'[c] # "clear" /\ attre' = attre
             /\ \A d \in Everyone \ {c} : stage'[d] = stage[d]
  BY <1>2, <1>6 DEF CommitLock, CommitUnlock, hwVars
<1>7. ASSUME NEW c \in Everyone, CommitWait(c)
      PROVE  attre' = {}
  BY <1>1, <1>7 DEF CommitWait, hwVars
<1>8. ASSUME NEW c \in Everyone, CommitWrite(c)
      PROVE  \A d \in Everyone : stage'[d] # "clear"
  BY <1>2, <1>8 DEF CommitWrite, OwnInv
<1>9. ASSUME NEW l \in Layers, Latch(l)
      PROVE  stage' = stage /\ attre' \subseteq attre
  BY <1>9 DEF Latch, jobVars
<1>10. CASE UNCHANGED vars
  BY <1>3, <1>10 DEF vars, hwVars, jobVars
<1>11. QED
  BY <1>2, <1>3, <1>4, <1>5, <1>6, <1>7, <1>8, <1>9, <1>10
    DEF Next, Step, VsyncCallback, Everyone

\* CommitInv and SipInv, of one layer.
Settled(l) == \/ CommitAhead(l)
              \/ /\ reg[l] = committed[l]
                 /\ l \in attre \/ live[l] = committed[l]
Covered(l) == /\ l \in attre => InSip(l)
              /\ InSip(l) => reg[l] = committed[l]

\* A commit stays ahead until it is the next effect.
LEMMA AheadStep ==
  ASSUME NEW l \in Layers, Todo(l) \in Seq(Effects), Todo(l) # <<>>,
         Todo(l)' = Tail(Todo(l)), ~InSip(l)',
         NEW j \in Positions(Todo(l)), j > 1, IsCommit(Todo(l)[j])
  PROVE  CommitAhead(l)'
<1> DEFINE t == Todo(l)
<1>1. j - 1 \in 1..Len(Tail(t)) /\ IsCommit(Tail(t)[j - 1])
  BY TailFacts DEF Positions
<1>2. \A u : u = Tail(t) => \E i \in 1..Len(u) : IsCommit(u[i])
  BY <1>1
<1>3. QED
  BY <1>2 DEF CommitAhead, Positions

LEMMA SettledStep ==
  ASSUME IInv, ClearInv, [Next]_vars, NEW l \in Layers, Settled(l),
         ~Timeouts \/ KeepsPending
  PROVE  Settled(l)'
<1> DEFINE t == Todo(l)
<1>1. CASE Elsewhere(l)
  <2>1. CASE t = <<>>
    <3>1. ~CommitAhead(l)
      BY <2>1 DEF CommitAhead, Positions
    <3>2. QED
      BY <1>1, <3>1 DEF Settled, Elsewhere
  <2>2. CASE Todo(l)' = t
    <3>1. CommitAhead(l)' <=> CommitAhead(l)
      BY <1>1, <2>2 DEF CommitAhead, Elsewhere, Positions
    <3>2. QED
      BY <1>1, <3>1 DEF Settled, Elsewhere
  <2>3. QED
    BY <1>1, <2>1, <2>2 DEF Elsewhere
<1>2. CASE Taken(l)
  <2>1. CommitAhead(l)' <=> CommitAhead(l)
    BY <1>2 DEF CommitAhead, Taken, Positions
  <2>2. QED
    BY <1>2, <2>1 DEF Settled, Taken
<1>3. CASE Goes(l)
  <2>1. t \in Seq(Effects) /\ t # <<>> /\ Head(t) = t[1] /\ Len(t) \in Nat \ {0}
    BY <1>3, TailFacts DEF Goes
  <2>2. CASE \E j \in Positions(t) : IsCommit(t[j])
    <3>1. PICK j \in Positions(t) : IsCommit(t[j])
      BY <2>2
    <3>2. j > 1
      BY <1>3, <2>1, <3>1 DEF Goes, Positions
    <3>3. CommitAhead(l)'
      BY <1>3, <3>1, <3>2, AheadStep DEF Goes
    <3>4. QED
      BY <3>3 DEF Settled
  <2>3. CASE \A j \in Positions(t) : ~IsCommit(t[j])
    <3>1. ~IsReg(Head(t))
      BY <2>1, <2>3 DEF IInv, LayerInv, Plan, Committing, Positions
    <3>2. ~CommitAhead(l)
      BY <2>3 DEF CommitAhead
    <3>3. QED
      BY <1>3, <3>1, <3>2 DEF Settled, Goes
  <2>4. QED
    BY <2>2, <2>3
<1>4. CASE Writes(l)
  BY <1>4 DEF Settled, Writes
<1>5. CASE Ends(l)
  <2>1. CASE CommitAhead(l)
    <3>1. PICK j \in Positions(t) : IsCommit(t[j]) /\ j > 1
      BY <1>5, <2>1 DEF CommitAhead, Ends
    <3>2. CommitAhead(l)'
      BY <1>5, <3>1, AheadStep DEF Ends
    <3>3. QED
      BY <3>2 DEF Settled
  <2>2. CASE ~CommitAhead(l)
    BY <1>5, <2>2 DEF Settled, Ends, Unmoved
  <2>3. QED
    BY <2>1, <2>2
<1>6. QED
  BY <1>1, <1>2, <1>3, <1>4, <1>5, CommitStep DEF CommitForms

LEMMA CoveredStep ==
  ASSUME IInv, ClearInv, [Next]_vars, NEW l \in Layers, Covered(l),
         SipCoversLatch, ~Timeouts
  PROVE  Covered(l)'
<1>1. CASE Elsewhere(l) \/ Taken(l) \/ Goes(l)
  BY <1>1 DEF Covered, Elsewhere, Taken, Goes
<1>2. CASE Writes(l) \/ Ends(l)
  BY <1>2 DEF Covered, Writes, Ends, Unmoved
<1>3. QED
  BY <1>1, <1>2, CommitStep DEF CommitForms

-----------------------------------------------------------------------------

CommitsInv == IInv /\ ClearInv /\ CommitInv /\ SipInv

\* Everything the theorems rest on holds of every behaviour.
THEOREM Invariance == Spec => []CommitsInv
<1>1. Init => CommitsInv
  <2>1. SUFFICES ASSUME Init
                 PROVE  CommitsInv
    OBVIOUS
  <2>2. /\ stage = [c \in Everyone |-> "outside"] /\ live = reg
        /\ committed = reg /\ (SipCoversLatch => attre = {})
    BY <2>1 DEF Init
  <2>3. ClearInv
    BY <2>2 DEF ClearInv
  <2>4. CommitInv
    BY <2>2 DEF CommitInv
  <2>5. SipInv
    BY <2>2 DEF SipInv, InSip
  <2>6. QED
    BY <2>1, <2>3, <2>4, <2>5, InitSatisfiesIInv DEF CommitsInv
<1>2. CommitsInv /\ [Next]_vars => CommitsInv'
  <2>1. SUFFICES ASSUME CommitsInv, [Next]_vars
                 PROVE  CommitsInv'
    OBVIOUS
  <2>2. /\ IInv /\ IInv' /\ ClearInv /\ ClearInv'
        /\ UNCHANGED <<Timeouts, KeepsPending, SipCoversLatch>>
    BY <2>1, NextKeepsIInv, ClearStep, NextForms, SetupKept DEF CommitsInv
  <2>3. CommitInv'
    <3>1. ASSUME ~Timeouts \/ KeepsPending, NEW l \in Layers
          PROVE  Settled(l)'
      BY <2>1, <2>2, <3>1, SettledStep DEF CommitsInv, CommitInv, Settled
    <3>2. QED
      BY <2>2, <3>1 DEF CommitInv, Settled
  <2>4. SipInv'
    <3>1. ASSUME SipCoversLatch, ~Timeouts, NEW l \in Layers
          PROVE  Covered(l)'
      BY <2>1, <2>2, <3>1, CoveredStep DEF CommitsInv, SipInv, Covered
    <3>2. QED
      BY <2>2, <3>1 DEF SipInv, Covered
  <2>5. QED
    BY <2>2, <2>3, <2>4 DEF CommitsInv
<1>3. QED
  BY <1>1, <1>2, PTL DEF Spec

\* Driver state, registers and lock stay in their ranges: the index of the
\* front buffer wraps, and no register holds an address of nowhere.
THEOREM TypeCorrect == Spec => []TypeOK
<1>1. CommitsInv => TypeOK
  BY DEF CommitsInv, IInv
<1>2. QED
  BY <1>1, Invariance, PTL

\* A layer that owns its frame buffers never fetches from address 0, whatever
\* calls are made on it and whenever the hardware takes an update over.
THEOREM NeverFetchesNull == Spec => []NoNullFetch
<1>1. CommitsInv => NoNullFetch
  BY DEF CommitsInv, IInv, LayerInv, Plan, NullSafe, NoNullFetch
<1>2. QED
  BY <1>1, Invariance, PTL

\* A layer no call runs on has nothing left to do, and waits for no SIP.
LEMMA IdleFacts ==
  ASSUME NEW l \in Layers, Idle(l)
  PROVE  Todo(l) = <<>> /\ Positions(Todo(l)) = {} /\ ~InSip(l)
         /\ ~CommitAhead(l)
<1>1. Todo(l) = <<>> /\ ~InSip(l)
  BY DEF Idle, Todo, TodoIn, InSip
<1>2. QED
  BY <1>1 DEF CommitAhead, Positions

\* Without the HEO surface calls, active_buf is the address in the DMA register
\* whenever no call on the layer is running, so that a full-screen write is
\* skipped only when its buffer is shown already.
THEOREM ActiveBufIsTracked == Spec => []ActiveBufIsInDmaWithoutHeo
<1>1. CommitsInv => ActiveBufIsInDmaWithoutHeo
  <2>1. SUFFICES ASSUME CommitsInv, ~HeoDisplays, NEW l \in Layers, Idle(l)
                 PROVE  drv[l].active_buf = reg[l].fba
    BY DEF ActiveBufIsInDmaWithoutHeo, ActiveBufIsInDma
  <2>2. Tracked(l, Todo(l)) /\ Positions(Todo(l)) = {}
    BY <2>1, IdleFacts DEF CommitsInv, IInv, LayerInv, Plan
  <2>3. QED
    BY <2>1, <2>2 DEF Tracked
<1>2. QED
  BY <1>1, Invariance, PTL

\* Whatever calls interleave on other layers, what a returned call wrote has
\* been committed, and what was committed is shown or still waits in ATTRE.
THEOREM NothingIsUncommitted == Spec => []NothingUncommitted
<1>1. CommitsInv => NothingUncommitted
  BY IdleFacts DEF CommitsInv, CommitInv, NothingUncommitted
<1>2. QED
  BY <1>1, Invariance, PTL

\* The buffer that get_framebuffer hands out is not the one on the screen.
THEOREM BackBufferStaysHidden == Spec => []BackBufferIsHidden
<1>1. CommitsInv => BackBufferIsHidden
  <2>1. SUFFICES ASSUME CommitsInv, DoubleBuffer, ~WritesOwn, SipCoversLatch,
                        ~Timeouts, NEW l \in Layers \ NoAlloc, Idle(l),
                        live[l].dma
                 PROVE  GetFramebuffer(l) # live[l].fba
    BY DEF BackBufferIsHidden
  <2>2. /\ TypeOK /\ NullSafe(l, Todo(l)) /\ Fronted(l, Todo(l))
        /\ Positions(Todo(l)) = {} /\ ~InSip(l) /\ ~CommitAhead(l)
    BY <2>1, IdleFacts DEF CommitsInv, IInv, LayerInv, Plan
  <2>3. live[l] = reg[l]
    BY <2>1, <2>2 DEF CommitsInv, CommitInv, SipInv
  <2>4. live[l].fba # Null
    BY <2>1, <2>2 DEF NullSafe
  <2>5. live[l].fba \in AppBufs \cup {<<l, drv[l].front_idx>>}
    BY <2>1, <2>2, <2>3, <2>4 DEF Fronted, Showable
  <2>6. drv[l].front_idx \in 0..1 /\ 1 - drv[l].front_idx \in 0..1
    BY <2>2 DEF TypeOK
  <2>7. GetFramebuffer(l) = <<l, 1 - drv[l].front_idx>>
    BY <2>1, <2>2, <2>6, BufferFacts DEF GetFramebuffer
  <2>8. <<l, 1 - drv[l].front_idx>> \notin AppBufs
    BY <2>6, LayerAssumption
  <2>9. <<l, 1 - drv[l].front_idx>> # <<l, drv[l].front_idx>>
    BY <2>6
  <2>10. QED
    BY <2>5, <2>7, <2>8, <2>9
<1>2. QED
  BY <1>1, Invariance, PTL

\* The hardware never takes over the registers of a half-made call.
THEOREM CommitsAreAtomic == Spec => LatchIsWhole
<1> DEFINE Whole ==
      SipCoversLatch /\ ~Timeouts =>
        \A l \in Layers :
          l \in attre /\ l \notin attre' => live'[l] = committed[l]
<1>1. CommitsInv /\ [Next]_vars => Whole
  <2>1. SUFFICES ASSUME CommitsInv, [Next]_vars, SipCoversLatch, ~Timeouts,
                        NEW l \in Layers, l \in attre, l \notin attre'
                 PROVE  live'[l] = committed[l]
    OBVIOUS
  <2>2. CommitForms(l) /\ reg[l] = committed[l]
    BY <2>1, CommitStep DEF CommitsInv, SipInv
  <2>3. Taken(l)
    BY <2>1, <2>2 DEF CommitForms, Elsewhere, Goes, Writes, Ends, Unmoved
  <2>4. QED
    BY <2>2, <2>3 DEF Taken
<1>2. QED
  BY <1>1, Invariance, PTL DEF Spec, LatchIsWhole
=============================================================================
