----------------------------- MODULE HyperProof -----------------------------
(* The registers of a guest follow it through every trap and every switch,  *)
(* device interrupts cannot flood the core, and injecting one disturbs none *)
(* in the list registers, for any number of guests, registers and ticks.    *)
EXTENDS Hyper, WellFoundedInduction, TLAPS

\* (a + 1) % n is another number below n.
LEMMA Successor ==
  ASSUME NEW n \in Nat \ {0, 1}, NEW a \in 0 .. n - 1
  PROVE  (a + 1) % n \in 0 .. n - 1 /\ (a + 1) % n # a
OBVIOUS

\* On one core the scan of _schedule finds the next task in the list.
LEMMA NextTaskWaits ==
  ASSUME TypeOK, OnlyCurrentRuns
  PROVE  NextTask \in Guests /\ NextTask # current
<1> USE HyperAssumption DEF TypeOK, OnlyCurrentRuns, Guests
<1> DEFINE P(i) == /\ state[(current + i) % TASK_COUNT] = "WAITING"
                   /\ \A j \in 1 .. i - 1 : state[(current + j) % TASK_COUNT] = "RUNNING"
<1>1. (current + 1) % TASK_COUNT \in Guests /\ (current + 1) % TASK_COUNT # current
  <2>1. TASK_COUNT \in Nat \ {0, 1} /\ current \in 0 .. TASK_COUNT - 1
    BY SMTT(60), ZenonT(60)
  <2> QED BY <2>1, Successor
<1>2. state[(current + 1) % TASK_COUNT] = "WAITING"
  BY <1>1
<1>3. 1 \in 1 .. TASK_COUNT - 1 /\ P(1)
  BY <1>2
<1> DEFINE offset == CHOOSE i \in 1 .. TASK_COUNT - 1 : P(i)
<1>4. offset \in 1 .. TASK_COUNT - 1 /\ P(offset)
  <2> HIDE DEF P
  <2> QED BY <1>3
<1>5. NextTask = (current + offset) % TASK_COUNT
  BY DEF NextTask
<1>6. NextTask \in Guests /\ state[NextTask] = "WAITING"
  <2> HIDE DEF offset
  <2> QED BY <1>4, <1>5
<1> QED BY <1>6

\* Init establishes the inductive invariant.
LEMMA InitIInv == Init => IInv
BY HyperAssumption DEF Init, NewTask, IInv, TypeOK, RegistersFollowGuest, OneDeviceInterruptPerTick,
   OnlyCurrentRuns, FrameIsCurrents, LoweredAfterInjection, Guests, Vectors, Devices, PCs,
   HV_TIMER_VECTOR, TIMER_VECTOR, PL011_INT, NoVector, Enabled0, Raised, Lowered

\* Steps that touch neither the registers nor the scheduler.
LEMMA OutsideKeeps ==
  ASSUME IInv,
         \/ \E v \in Vectors : LineUp(v)
         \/ \E b \in BOOLEAN : GuestMasks(b)
         \/ \E k \in LRs : GuestAck(k) \/ GuestServes(k) \/ GuestEoi(k)
  PROVE  IInv'
<1> USE HyperAssumption DEF IInv, TypeOK, swvars
<1>0. Linux \in Guests BY DEF Guests
<1>1. UNCHANGED <<pc, vec, swvars, prio, enabled, taken>>
  BY DEF LineUp, GuestMasks, GuestAck, GuestServes, GuestEoi
<1>2. line' \in [Vectors -> BOOLEAN] /\ masked' \in [Guests -> BOOLEAN]
  BY <1>0, ZenonT(60), SMTT(60) DEF LineUp, GuestMasks, GuestAck, GuestServes, GuestEoi
<1> QED BY <1>1, <1>2 DEF RegistersFollowGuest, OneDeviceInterruptPerTick, OnlyCurrentRuns,
           FrameIsCurrents, LoweredAfterInjection

\* What a trap leaves behind: everything of every guest is saved.
LEMMA TrapSaves ==
  ASSUME IInv, pc = "guest", Trap
  PROVE  /\ UNCHANGED <<current, state, counter, gp, sys, ctx, sysreg>>
         /\ frame' = current /\ gp_stale' = {} /\ sys_stale' = {}
<1> USE DEF IInv, TypeOK, RegistersFollowGuest
<1>1. gp = current /\ sys = current
  OBVIOUS
<1>2. ctx' = ctx /\ sysreg' = sysreg
  BY <1>1 DEF Trap, VmOut
<1>3. gp_stale \subseteq {current} /\ sys_stale \subseteq {current}
  OBVIOUS
<1> QED BY <1>1, <1>2, <1>3 DEF Trap, VmOut

\* Entering EL2, for an interrupt or an instruction, preserves the invariant.
LEMMA TakeKeeps ==
  ASSUME IInv,
         \/ \E v \in Vectors : TakeIrq(v)
         \/ \E v \in Devices : TakeEnable(v)
         \/ TakeOther \/ TakeFault
  PROVE  IInv'
<1> USE DEF IInv, TypeOK, irqvars
<1>1. pc = "guest" /\ Trap /\ UNCHANGED irqvars /\ pc' \in PCs \ {"guest"}
  BY DEF TakeIrq, TakeEnable, TakeOther, TakeFault, PCs
<1>2. /\ UNCHANGED <<current, state, counter, gp, sys, ctx, sysreg>>
      /\ frame' = current /\ gp_stale' = {} /\ sys_stale' = {}
  BY <1>1, TrapSaves
<1>3. vec' \in Vectors \cup {NoVector}
  BY DEF TakeIrq, TakeEnable, TakeOther, TakeFault, Vectors
<1>4. TypeOK'
  BY <1>1, <1>2, <1>3 DEF PCs
<1>5. RegistersFollowGuest' /\ OnlyCurrentRuns' /\ FrameIsCurrents' /\ OneDeviceInterruptPerTick'
  BY <1>1, <1>2 DEF RegistersFollowGuest, OnlyCurrentRuns, FrameIsCurrents, OneDeviceInterruptPerTick
<1>6. LoweredAfterInjection'
  <2>1. ASSUME NEW v \in Vectors, TakeIrq(v)
        PROVE  LoweredAfterInjection'
    <3>1. v \in Devices => taken = 0
      BY <2>1 DEF TakeIrq, Acknowledged, Signalled, LoweredAfterInjection, PMR, Lowered
    <3> QED BY <2>1, <3>1, <1>1 DEF TakeIrq, LoweredAfterInjection
  <2>2. ASSUME NEW v \in Devices, TakeEnable(v)
        PROVE  LoweredAfterInjection'
    BY <2>2, <1>1 DEF TakeEnable, LoweredAfterInjection
  <2>3. ASSUME TakeOther \/ TakeFault
        PROVE  LoweredAfterInjection'
    BY <2>3, <1>1 DEF TakeOther, TakeFault, LoweredAfterInjection
  <2> QED BY <2>1, <2>2, <2>3
<1> QED BY <1>4, <1>5, <1>6

\* Steps of EL2 that do not switch: only priorities, enables and the count.
LEMMA DeviceStepKeeps ==
  ASSUME IInv, EmulateEnable \/ VgicInject
  PROVE  IInv'
<1> USE DEF IInv, TypeOK, swvars
<1>1. UNCHANGED swvars /\ pc # "guest" /\ pc' = "return" /\ UNCHANGED <<vec, line, masked>>
  BY DEF EmulateEnable, VgicInject
<1>2. /\ prio' \in [Vectors -> {0, Enabled0, Raised, Lowered}]
      /\ enabled' \in [Vectors -> BOOLEAN]
      /\ taken' \in Nat
  <2>1. CASE EmulateEnable
    <3>1. vec \in Vectors
      BY <2>1 DEF EmulateEnable, LoweredAfterInjection, Vectors
    <3> QED BY <2>1, <3>1 DEF EmulateEnable
  <2>2. CASE VgicInject
    BY <2>2 DEF VgicInject, SetPriorities
  <2> QED BY <2>1, <2>2
<1>3. OneDeviceInterruptPerTick' /\ LoweredAfterInjection'
  BY <1>1 DEF EmulateEnable, VgicInject, SetPriorities, LoweredAfterInjection, OneDeviceInterruptPerTick, Vectors
<1>4. RegistersFollowGuest' /\ OnlyCurrentRuns' /\ FrameIsCurrents'
  BY <1>1 DEF RegistersFollowGuest, OnlyCurrentRuns, FrameIsCurrents
<1> QED BY <1>1, <1>2, <1>3, <1>4 DEF PCs

\* The tick: with or without a switch the frame is the current guest's.
LEMMA TimerInterruptKeeps ==
  ASSUME IInv, TimerInterrupt
  PROVE  IInv'
<1> USE HyperAssumption DEF IInv, TypeOK
<1>1. /\ pc # "guest" /\ pc' = "return"
      /\ UNCHANGED <<vec, gp, sys, ctx, sysreg, gp_stale, sys_stale, enabled, masked>>
      /\ taken' = 0
      /\ prio' \in [Vectors -> {0, Enabled0, Raised, Lowered}]
      /\ line' \in [Vectors -> BOOLEAN]
  BY DEF TimerInterrupt, SetPriorities
<1>2. /\ current' \in Guests /\ frame' = current'
      /\ state' \in [Guests -> {"RUNNING", "WAITING"}]
      /\ counter' \in [Guests -> 0 .. SYS_TASK_TICK]
      /\ OnlyCurrentRuns'
  <2>1. CASE counter[current] - 1 > 0
    BY <2>1 DEF TimerInterrupt, SetPriorities, FrameIsCurrents, OnlyCurrentRuns
  <2>2. CASE ~ (counter[current] - 1 > 0)
    <3>1. NextTask \in Guests /\ NextTask # current
      BY NextTaskWaits
    <3>2. Schedule /\ counter' = [counter EXCEPT ![current] = SYS_TASK_TICK]
      BY <2>2 DEF TimerInterrupt, SetPriorities
    <3>3. frame' = current' /\ current' \in Guests
      BY <3>1, <3>2 DEF Schedule, RegistersFollowGuest
    <3>4. /\ state' \in [Guests -> {"RUNNING", "WAITING"}]
          /\ OnlyCurrentRuns'
      BY <3>1, <3>2 DEF Schedule, OnlyCurrentRuns
    <3>5. counter' \in [Guests -> 0 .. SYS_TASK_TICK]
      BY <3>2
    <3> QED BY <3>3, <3>4, <3>5
  <2> QED BY <2>1, <2>2
<1>3. RegistersFollowGuest' /\ FrameIsCurrents'
  BY <1>1, <1>2 DEF RegistersFollowGuest, FrameIsCurrents
<1>4. OneDeviceInterruptPerTick' /\ LoweredAfterInjection'
  BY <1>1 DEF OneDeviceInterruptPerTick, LoweredAfterInjection
<1>5. frame' \in Guests /\ gp' \in Guests /\ sys' \in Guests
  BY <1>1, <1>2
<1> QED BY <1>1, <1>2, <1>3, <1>4, <1>5 DEF PCs

\* vm_in and the frame give the current guest both halves of its registers.
LEMMA ReturnKeeps ==
  ASSUME IInv, Return
  PROVE  IInv'
<1> USE DEF IInv, TypeOK, irqvars
<1>1. /\ pc = "return" /\ pc' = "guest" /\ vec' = NoVector
      /\ UNCHANGED <<current, state, counter, frame, ctx, sysreg, irqvars>>
      /\ gp' = frame /\ sys' = sysreg[current]
  BY DEF Return
<1>2. gp' = current /\ sys' = current
  BY <1>1 DEF FrameIsCurrents, RegistersFollowGuest
<1>3. gp_stale' = {current} /\ sys_stale' = {current}
  BY <1>1, <1>2 DEF Return, FrameIsCurrents, RegistersFollowGuest
<1>4. RegistersFollowGuest'
  BY <1>1, <1>2, <1>3 DEF RegistersFollowGuest
<1> QED BY <1>1, <1>2, <1>3, <1>4 DEF OneDeviceInterruptPerTick, OnlyCurrentRuns,
           FrameIsCurrents, LoweredAfterInjection, PCs

\* Every step preserves the invariant.
LEMMA NextKeeps == IInv /\ [Next]_vars => IInv'
<1> SUFFICES ASSUME IInv, [Next]_vars PROVE IInv'
  OBVIOUS
<1>1. CASE Next
  BY <1>1, OutsideKeeps, TakeKeeps, DeviceStepKeeps, TimerInterruptKeeps, ReturnKeeps DEF Next, El2
<1>2. CASE UNCHANGED vars
  BY <1>2 DEF vars, swvars, irqvars, IInv, TypeOK, RegistersFollowGuest,
     OneDeviceInterruptPerTick, OnlyCurrentRuns, FrameIsCurrents, LoweredAfterInjection
<1> QED BY <1>1, <1>2

\* The invariant holds in every reachable state.
THEOREM Invariance == Spec => []IInv
BY InitIInv, NextKeeps, PTL DEF Spec

\* A guest executes with its own registers, and the latest copy of everything
\* else is where the next switch will look for it.
THEOREM RegistersFollow == Spec => []RegistersFollowGuest
BY Invariance, PTL DEF IInv

\* Between two ticks the host takes at most one device interrupt, unless the
\* guest enables one anew.
THEOREM NoInterruptFlood == Spec => []OneDeviceInterruptPerTick
BY Invariance, PTL DEF IInv

-----------------------------------------------------------------------------
(* The list registers *)

\* A set of numbers has a least element: the natural numbers are well founded.
LEMMA LeastElement ==
  ASSUME NEW T \in SUBSET Nat, T # {}
  PROVE  \E x \in T : \A y \in T : x <= y
<1>1. ASSUME NEW R, \E x \in T : \A y \in T : ~(<<y, x>> \in R),
             \A x, y \in Nat : x < y => <<x, y>> \in R
      PROVE  \E x \in T : \A y \in T : x <= y
  <2>1. PICK x \in T : \A y \in T : ~(<<y, x>> \in R)
    BY <1>1
  <2>2. ASSUME NEW y \in T PROVE x <= y
    <3>1. ~(y < x)
      BY <1>1, <2>1
    <3> QED BY <3>1
  <2> QED BY <2>2
<1> DEFINE Less == OpToRel(<, Nat)
<1>2. \E x \in T : \A y \in T : ~(<<y, x>> \in Less)
  BY NatLessThanWellFounded, WFMin
<1>3. \A x, y \in Nat : x < y => <<x, y>> \in Less
  BY Zenon DEF OpToRel
<1> HIDE DEF Less
<1> QED BY <1>1, <1>2, <1>3, Zenon

\* What a list register can hold.  Every interrupt has the priority 0, so that
\* no injection pushes another one out of its register.
ListRegister == [st : {"invalid", "pending", "active"}, vid : Vectors \cup {NoVector}, pri : {0}]

LrInv == lr \in [LRs -> ListRegister]

\* The recursion that defines InjectLoop, for the interrupt h.
LoopBody(s, i, h) == IF i = 0 THEN [lrs |-> lr, mask |-> h] ELSE InjectStep(s[i - 1], i - 1)

\* Before iteration i: the first empty register, e, is filled if it was passed.
Placed(i, h, e) ==
  IF e < i THEN [lrs |-> [lr EXCEPT ![e] = h], mask |-> Empty] ELSE [lrs |-> lr, mask |-> h]

\* e is the first empty register, or the number of registers if there is none.
FirstEmpty(e) ==
  /\ e \in 0 .. GICH_LR_NUM
  /\ e # GICH_LR_NUM => IsEmpty(e)
  /\ \A k \in 0 .. e - 1 : ~IsEmpty(k)

LEMMA FirstEmptyExists == \E e \in 0 .. GICH_LR_NUM : FirstEmpty(e)
<1> DEFINE T == {k \in 0 .. GICH_LR_NUM : k = GICH_LR_NUM \/ IsEmpty(k)}
<1>0. GICH_LR_NUM \in Nat
  BY HyperAssumption
<1>1. T \in SUBSET Nat /\ T # {}
  <2>1. GICH_LR_NUM \in T
    BY <1>0
  <2>2. T \subseteq Nat
    BY <1>0
  <2> QED BY <2>1, <2>2
<1>2. PICK e \in T : \A k \in T : e <= k
  <2> HIDE DEF T
  <2> QED BY <1>1, LeastElement
<1>3. e \in 0 .. GICH_LR_NUM /\ (e # GICH_LR_NUM => IsEmpty(e))
  BY <1>2
<1>4. ASSUME NEW k \in 0 .. e - 1 PROVE ~IsEmpty(k)
  <2>1. k \in 0 .. GICH_LR_NUM /\ ~(e <= k)
    BY <1>0, <1>3
  <2>2. k \notin T
    <3> HIDE DEF T
    <3> QED BY <1>2, <2>1
  <2> QED BY <2>1, <2>2
<1> HIDE DEF T
<1> QED BY <1>3, <1>4 DEF FirstEmpty

\* One iteration.
LEMMA PlacedNext ==
  ASSUME LrInv, NEW v \in Devices, NEW e, FirstEmpty(e), NEW s, NEW i \in 1 .. GICH_LR_NUM,
         s[i - 1] = Placed(i - 1, HardwareInterrupt(v), e)
  PROVE  LoopBody(s, i, HardwareInterrupt(v)) = Placed(i, HardwareInterrupt(v), e)
<1> DEFINE h == HardwareInterrupt(v)
           k == i - 1
<1>0. GICH_LR_NUM \in Nat /\ i \in Int /\ k \in LRs /\ e \in Int /\ i # 0 /\ k >= 0
  BY HyperAssumption DEF LRs, FirstEmpty
<1>1. h # Empty /\ h.pri = 0
  BY DEF HardwareInterrupt, Empty
<1>2. lr[k].pri = 0
  BY <1>0 DEF LrInv, ListRegister
<1> HIDE DEF h
<1>3. CASE e < k
  <2>1. s[k] = [lrs |-> [lr EXCEPT ![e] = h], mask |-> Empty]
    BY <1>3 DEF Placed, h
  <2>2. LoopBody(s, i, h) = s[k]
    BY <1>0, <2>1 DEF LoopBody, InjectStep
  <2>3. e < i
    BY <1>0, <1>3
  <2> QED BY <2>1, <2>2, <2>3 DEF Placed, h
<1>4. CASE ~(e < k)
  <2>1. s[k] = [lrs |-> lr, mask |-> h]
    BY <1>4 DEF Placed, h
  <2>2. CASE e = k
    <3>1. IsEmpty(k)
      BY <1>0, <2>2 DEF FirstEmpty, LRs
    <3>2. LoopBody(s, i, h) = [lrs |-> [lr EXCEPT ![k] = h], mask |-> Empty]
      BY <1>0, <1>1, <2>1, <3>1 DEF LoopBody, InjectStep
    <3>3. e < i
      BY <1>0, <2>2
    <3> QED BY <2>2, <3>2, <3>3 DEF Placed, h
  <2>3. CASE e # k
    <3>1. k \in 0 .. e - 1 /\ ~(e < i)
      BY <1>0, <1>4, <2>3
    <3>2. ~IsEmpty(k)
      BY <3>1 DEF FirstEmpty
    <3>3. ~(lr[k].pri > h.pri)
      BY <1>1, <1>2
    <3>4. LoopBody(s, i, h) = s[k]
      BY <1>0, <1>1, <2>1, <3>2, <3>3 DEF LoopBody, InjectStep
    <3> QED BY <2>1, <3>1, <3>4 DEF Placed, h
  <2> QED BY <2>2, <2>3
<1> QED BY <1>3, <1>4

\* The loop writes the interrupt into the first empty register, if there is one.
LEMMA InjectLoopFacts ==
  ASSUME LrInv, NEW v \in Devices, NEW e, FirstEmpty(e)
  PROVE  InjectLoop(v) = IF e < GICH_LR_NUM THEN [lr EXCEPT ![e] = HardwareInterrupt(v)] ELSE lr
<1> DEFINE h == HardwareInterrupt(v)
           n == GICH_LR_NUM
           Rec(f) == f = [i \in 0 .. n |-> LoopBody(f, i, h)]
           s == CHOOSE f : Rec(f)
<1>0. n \in Nat /\ e \in 0 .. n
  BY HyperAssumption DEF FirstEmpty
<1>1. InjectLoop(v) = s[n].lrs
  BY DEF InjectLoop, LoopBody
<1>2. Placed(0, h, e) = [lrs |-> lr, mask |-> h] /\ \A f : LoopBody(f, 0, h) = [lrs |-> lr, mask |-> h]
  BY <1>0 DEF Placed, LoopBody
<1>3. \E f : Rec(f)
  <2> DEFINE g == [i \in 0 .. n |-> Placed(i, h, e)]
  <2>1. ASSUME NEW i \in 0 .. n PROVE Placed(i, h, e) = LoopBody(g, i, h)
    <3>1. CASE i = 0
      BY <1>2, <3>1
    <3>2. CASE i # 0
      <4>1. i \in 1 .. n /\ i - 1 \in 0 .. n
        BY <1>0, <3>2
      <4>2. g[i - 1] = Placed(i - 1, h, e)
        BY <4>1
      <4> HIDE DEF g
      <4> QED BY <4>1, <4>2, PlacedNext
    <3> QED BY <3>1, <3>2
  <2>2. g = [i \in 0 .. n |-> LoopBody(g, i, h)]
    <3> DEFINE B(i) == LoopBody(g, i, h)
    <3>1. \A i \in 0 .. n : Placed(i, h, e) = B(i)
      BY <2>1
    <3> HIDE DEF B
    <3>2. g = [i \in 0 .. n |-> B(i)]
      BY <3>1
    <3> HIDE DEF g
    <3> QED BY <3>2 DEF B
  <2> HIDE DEF g
  <2> QED BY <2>2
<1>4. Rec(s)
  <2> HIDE DEF Rec
  <2> QED BY <1>3, Zenon
<1> HIDE DEF s
<1>5. \A i \in 0 .. n : s[i] = LoopBody(s, i, h)
  <2> DEFINE B(i) == LoopBody(s, i, h)
  <2>1. s = [i \in 0 .. n |-> B(i)]
    BY <1>4
  <2> HIDE DEF B
  <2>2. \A i \in 0 .. n : s[i] = B(i)
    BY <2>1
  <2> QED BY <2>2 DEF B
<1> HIDE DEF Rec, n, h
<1> DEFINE bad == {i \in 0 .. n : s[i] # Placed(i, h, e)}
<1>6. ASSUME NEW i \in bad PROVE \E l \in bad : ~(i <= l)
  <2>1. i \in 0 .. n /\ s[i] # Placed(i, h, e)
    OBVIOUS
  <2> HIDE DEF bad
  <2>2. i # 0
    BY <1>2, <1>5, <2>1
  <2>3. i \in 1 .. n /\ i - 1 \in 0 .. n /\ ~(i <= i - 1)
    BY <1>0, <2>1, <2>2
  <2>4. s[i - 1] # Placed(i - 1, h, e)
    <3> SUFFICES ASSUME s[i - 1] = Placed(i - 1, h, e) PROVE FALSE
      OBVIOUS
    <3>1. LoopBody(s, i, h) = Placed(i, h, e)
      BY <2>3, PlacedNext DEF n, h
    <3> QED BY <1>5, <2>1, <3>1
  <2>5. i - 1 \in bad
    BY <2>3, <2>4 DEF bad
  <2> QED BY <2>3, <2>5
<1>7. bad \in SUBSET Nat
  BY <1>0
<1>8. bad = {}
  <2> HIDE DEF bad
  <2> QED BY <1>6, <1>7, LeastElement
<1>9. s[n] = Placed(n, h, e)
  <2>1. n \in 0 .. n
    BY <1>0
  <2> QED BY <1>8, <2>1
<1> QED BY <1>1, <1>9 DEF Placed, n, h

LEMMA LrInvariant == Spec => []LrInv
<1>1. Init => LrInv
  BY DEF Init, LrInv, ListRegister, Empty
<1>2. LrInv /\ [Next]_vars => LrInv'
  <2> SUFFICES ASSUME LrInv, [Next]_vars PROVE LrInv'
    OBVIOUS
  <2>1. CASE VgicInject
    <3>1. PICK e \in 0 .. GICH_LR_NUM : FirstEmpty(e)
      BY FirstEmptyExists
    <3>2. vec \in Devices /\ lr' = InjectLoop(vec)
      BY <2>1 DEF VgicInject
    <3>3. lr' = IF e < GICH_LR_NUM THEN [lr EXCEPT ![e] = HardwareInterrupt(vec)] ELSE lr
      BY <3>1, <3>2, InjectLoopFacts
    <3>4. HardwareInterrupt(vec) \in ListRegister
      BY <3>2 DEF HardwareInterrupt, ListRegister, Vectors
    <3> QED BY <3>3, <3>4 DEF LrInv
  <2>2. CASE \E k \in LRs : GuestAck(k) \/ GuestEoi(k)
    <3>1. PICK k \in LRs : lr' = [lr EXCEPT ![k].st = "active"] \/ lr' = [lr EXCEPT ![k] = Empty]
      BY <2>2 DEF GuestAck, GuestEoi
    <3>2. lr[k] \in ListRegister /\ Empty \in ListRegister
      BY DEF LrInv, ListRegister, Empty
    <3>3. [lr[k] EXCEPT !.st = "active"] \in ListRegister
      BY <3>2 DEF ListRegister
    <3> QED BY <3>1, <3>2, <3>3 DEF LrInv
  <2>3. CASE ~VgicInject /\ ~\E k \in LRs : GuestAck(k) \/ GuestEoi(k)
    <3>1. lr' = lr
      BY <2>3 DEF Next, El2, LineUp, TakeIrq, TakeEnable, GuestServes, GuestMasks, TakeOther, TakeFault,
         EmulateEnable, TimerInterrupt, Return, vars, irqvars
    <3> QED BY <3>1 DEF LrInv
  <2> QED BY <2>1, <2>2, <2>3
<1> QED BY <1>1, <1>2, PTL DEF Spec

\* vgic_inject disturbs no interrupt that is in a list register, and places the new
\* one in a register of its own whenever one is free.
THEOREM InjectionAlwaysAddsOne == Spec => InjectionAddsOne
<1> DEFINE A == pc = "irq" /\ vec \in Devices /\ pc' = "return" =>
                  /\ \A k \in Occupied : lr'[k] = lr[k]
                  /\ Occupied # LRs => \E k \in LRs \ Occupied :
                       /\ Occupied' = Occupied \cup {k}
                       /\ lr'[k].vid = vec /\ lr'[k].st = "pending"
<1>1. LrInv /\ [Next]_vars => [A]_vars
  <2> SUFFICES ASSUME LrInv, Next, pc = "irq", vec \in Devices, pc' = "return"
               PROVE  /\ \A k \in Occupied : lr'[k] = lr[k]
                      /\ Occupied # LRs => \E k \in LRs \ Occupied :
                           /\ Occupied' = Occupied \cup {k}
                           /\ lr'[k].vid = vec /\ lr'[k].st = "pending"
    OBVIOUS
  <2>1. VgicInject
    BY DEF Next, El2, LineUp, TakeIrq, TakeEnable, GuestAck, GuestServes, GuestEoi, GuestMasks, TakeOther,
       TakeFault, EmulateEnable, TimerInterrupt, Return, Devices, HV_TIMER_VECTOR, PL011_INT, TIMER_VECTOR
  <2>2. PICK e \in 0 .. GICH_LR_NUM : FirstEmpty(e)
    BY FirstEmptyExists
  <2>3. lr' = IF e < GICH_LR_NUM THEN [lr EXCEPT ![e] = HardwareInterrupt(vec)] ELSE lr
    BY <2>1, <2>2, InjectLoopFacts DEF VgicInject
  <2>n. GICH_LR_NUM \in Nat
    BY HyperAssumption
  <2>4. CASE e < GICH_LR_NUM
    <3>1. e \in LRs /\ e \notin Occupied /\ lr[e] = Empty
      BY <2>2, <2>4, <2>n DEF FirstEmpty, LRs, Occupied, IsEmpty
    <3>2. lr'[e] = HardwareInterrupt(vec) /\ \A k \in LRs : k # e => lr'[k] = lr[k]
      BY <2>3, <2>4, <3>1 DEF LrInv
    <3>3. HardwareInterrupt(vec) # Empty /\ HardwareInterrupt(vec).vid = vec
          /\ HardwareInterrupt(vec).st = "pending"
      BY DEF HardwareInterrupt, Empty
    <3>4. Occupied' = Occupied \cup {e}
      BY <3>1, <3>2, <3>3 DEF Occupied, IsEmpty
    <3>5. \A k \in Occupied : k \in LRs
      BY DEF Occupied
    <3> QED BY <3>1, <3>2, <3>3, <3>4, <3>5
  <2>5. CASE ~(e < GICH_LR_NUM)
    <3>1. e = GICH_LR_NUM
      BY <2>2, <2>5, <2>n
    <3>2. Occupied = LRs
      BY <2>2, <3>1 DEF FirstEmpty, Occupied, LRs
    <3> QED BY <2>3, <2>5, <3>2
  <2> QED BY <2>4, <2>5
<1>2. []LrInv /\ [][Next]_vars => [][A]_vars
  BY <1>1, PTL
<1> QED BY <1>2, LrInvariant, PTL DEF Spec, InjectionAddsOne
=============================================================================
