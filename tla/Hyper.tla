-------------------------------- MODULE Hyper --------------------------------
(***************************************************************************)
(* The hypervisor build on its one core: interrupts taken from a guest to  *)
(* EL2 (exception/exception_el2.S, .c), the switch of guests in the timer  *)
(* handler (schedule/task.c, timer/timer.c, hyper/hyper_ctx.S), and the    *)
(* injection of virtual interrupts (hyper/vgic.c, hyper/vm.c).             *)
(*                                                                         *)
(* EL2 runs with interrupts masked, so between a trap and the eret only    *)
(* the device lines can change.  Register contents are abstracted to the   *)
(* guest they belong to; a saved copy older than the guest's registers is  *)
(* recorded in gp_stale or sys_stale.                                      *)
(***************************************************************************)
EXTENDS Integers, FiniteSets

CONSTANTS
  TASK_COUNT,       \* guests created by hyper_main
  SYS_TASK_TICK,    \* timer ticks in a time slice
  GICH_LR_NUM,      \* list registers
  Linux,            \* the guest that owns the virtual timer and the console
  TickOutlastsHandler  \* TRUE: the timer does not expire again before the handler
                       \* that has just set it returns; a timing assumption

ASSUME HyperAssumption ==
  /\ TASK_COUNT \in Nat /\ TASK_COUNT > 1
  /\ SYS_TASK_TICK \in Nat \ {0}
  /\ GICH_LR_NUM \in Nat \ {0}
  /\ Linux \in 1 .. TASK_COUNT - 1
  /\ TickOutlastsHandler \in BOOLEAN

Guests  == 0 .. TASK_COUNT - 1
LRs     == 0 .. GICH_LR_NUM - 1

HV_TIMER_VECTOR == 27
TIMER_VECTOR    == 30
PL011_INT       == 33
Devices == {HV_TIMER_VECTOR, PL011_INT}
Vectors == Devices \cup {TIMER_VECTOR}
NoVector == -1

\* Priorities written by the code, and the mask in GICC_PMR: an interrupt is
\* signalled only when its priority is a smaller number.
PMR      == 248     \* 0xf8
Lowered  == 248     \* vgic_inject
Raised   == 240     \* handle_timer_interrupt
Enabled0 == 128     \* gic_enable_int(v, 0)

Empty == [st |-> "invalid", vid |-> NoVector, pri |-> 0]

VARIABLES
  pc,          \* "guest", or where EL2 is
  vec,         \* the interrupt acknowledged, or the one the guest wants enabled
  current,     \* current_thread
  state,       \* task_list[t].state
  counter,     \* task_list[t].counter
  gp, sys,     \* whose general and whose EL1 system registers the core has
  frame,       \* whose registers the trap frame holds
  ctx, sysreg, \* whose registers cpu_info of task t holds
  gp_stale, sys_stale,
  masked,      \* PSTATE.I of guest t
  line,        \* interrupt lines of the devices and of the physical timer
  enabled,     \* GICD_ISENABLER
  prio,        \* GICD_IPRIORITYR
  lr,          \* GICH_LR
  taken        \* auxiliary: device interrupts since the last tick or enable

swvars == <<current, state, counter, gp, sys, frame, ctx, sysreg, gp_stale, sys_stale>>
irqvars == <<line, enabled, prio, lr, taken, masked>>
vars == <<pc, vec, swvars, irqvars>>

PCs == {"guest", "irq", "sync", "return", "halt"}

\* What the list registers hold is left to InjectionAddsOne.
TypeOK ==
  /\ pc \in PCs
  /\ vec \in Vectors \cup {NoVector}
  /\ current \in Guests
  /\ state \in [Guests -> {"RUNNING", "WAITING"}]
  /\ counter \in [Guests -> 0 .. SYS_TASK_TICK]
  /\ gp \in Guests /\ sys \in Guests /\ frame \in Guests
  /\ ctx \in [Guests -> Guests] /\ sysreg \in [Guests -> Guests]
  /\ gp_stale \subseteq Guests /\ sys_stale \subseteq Guests
  /\ masked \in [Guests -> BOOLEAN]
  /\ line \in [Vectors -> BOOLEAN]
  /\ enabled \in [Vectors -> BOOLEAN]
  /\ prio \in [Vectors -> {0, Enabled0, Raised, Lowered}]
  /\ taken \in Nat

\* craete_vm_task: what the t-th call leaves in task_list[t].
NewTask(t) == [state |-> "WAITING", counter |-> SYS_TASK_TICK, ctx |-> t, sys_reg |-> t]

\* After hyper_main and guest_start.  The code has two guests: the test guest 0,
\* which guest_start starts with interrupts masked, and Linux, which starts with
\* interrupts enabled; a larger TASK_COUNT means more test guests.
\* gic_virtual_init has enabled the private interrupts, the console is for the
\* guest to enable.
Init ==
  /\ pc = "guest" /\ vec = NoVector
  /\ current = 0
  /\ state = [t \in Guests |-> IF t = 0 THEN "RUNNING" ELSE NewTask(t).state]
  /\ counter = [t \in Guests |-> NewTask(t).counter]
  /\ gp = 0 /\ sys = 0 /\ frame = 0
  /\ ctx = [t \in Guests |-> NewTask(t).ctx]
  /\ sysreg = [t \in Guests |-> NewTask(t).sys_reg]
  /\ gp_stale = {0} /\ sys_stale = {0}
  /\ masked = [t \in Guests |-> t # Linux]
  /\ line = [v \in Vectors |-> FALSE]
  /\ enabled = [v \in Vectors |-> v # PL011_INT]
  /\ prio = [v \in Vectors |-> IF v = PL011_INT THEN 0 ELSE Enabled0]
  /\ lr = [k \in LRs |-> Empty]
  /\ taken = 0

-----------------------------------------------------------------------------
(* The devices and the guests *)

\* A device asks for attention: level-sensitive lines stay up until served.
LineUp(v) ==
  /\ ~line[v]
  /\ TickOutlastsHandler /\ v = TIMER_VECTOR => ~ (pc = "return" /\ vec = v)
  /\ line' = [line EXCEPT ![v] = TRUE]
  /\ UNCHANGED <<pc, vec, swvars, enabled, prio, lr, taken, masked>>

\* Linux switches its interrupts off or on, outside its interrupt handler.
GuestMasks(b) ==
  /\ pc = "guest" /\ current = Linux
  /\ \A k \in LRs : lr[k].st # "active"
  /\ masked[Linux] # b
  /\ masked' = [masked EXCEPT ![Linux] = b]
  /\ UNCHANGED <<pc, vec, swvars, line, enabled, prio, lr, taken>>

\* Linux takes a virtual interrupt: it becomes active.  All have one priority,
\* so an active one keeps the others out.
GuestAck(k) ==
  /\ pc = "guest" /\ current = Linux /\ ~masked[Linux]
  /\ lr[k].st = "pending"
  /\ \A j \in LRs : lr[j].st # "active"
  /\ lr' = [lr EXCEPT ![k].st = "active"]
  /\ masked' = [masked EXCEPT ![Linux] = TRUE]
  /\ UNCHANGED <<pc, vec, swvars, line, enabled, prio, taken>>

\* It serves the device, which lets its line fall ...
GuestServes(k) ==
  /\ pc = "guest" /\ current = Linux
  /\ lr[k].st = "active" /\ line[lr[k].vid]
  /\ line' = [line EXCEPT ![lr[k].vid] = FALSE]
  /\ UNCHANGED <<pc, vec, swvars, enabled, prio, lr, taken, masked>>

\* ... and ends the interrupt; the list register is free again.
GuestEoi(k) ==
  /\ pc = "guest" /\ current = Linux
  /\ lr[k].st = "active" /\ ~line[lr[k].vid]
  /\ lr' = [lr EXCEPT ![k] = Empty]
  /\ masked' = [masked EXCEPT ![Linux] = FALSE]
  /\ UNCHANGED <<pc, vec, swvars, line, enabled, prio, taken>>

-----------------------------------------------------------------------------
(* Entry to and return from EL2 *)

VmOut == /\ sysreg' = [sysreg EXCEPT ![current] = sys]
         /\ sys_stale' = sys_stale \ {current}

\* Variant: vm_out is left out of the macro.
TrapNoVmOut == /\ frame' = gp
               /\ ctx' = [ctx EXCEPT ![current] = gp]
               /\ gp_stale' = gp_stale \ {current}
               /\ UNCHANGED <<current, state, counter, gp, sys, sysreg, sys_stale>>

\* SAVE_REGS_EL2 with vm_out, and save_cpu_ctx, which both handlers call
\* before they do anything with the frame.
Trap == /\ frame' = gp
        /\ VmOut
        /\ ctx' = [ctx EXCEPT ![current] = gp]
        /\ gp_stale' = gp_stale \ {current}
        /\ UNCHANGED <<current, state, counter, gp, sys>>

\* RESTORE_REGS_EL2 with vm_in, and eret: the guest executes, so that what is
\* saved of its registers is old from now on.
Return ==
  /\ pc = "return"
  /\ sys' = sysreg[current]
  /\ gp' = frame
  /\ sys_stale' = sys_stale \cup {t \in Guests : sysreg[t] = sys'}
  /\ gp_stale' = gp_stale \cup {t \in Guests : ctx[t] = frame}
  /\ pc' = "guest" /\ vec' = NoVector
  /\ UNCHANGED <<current, state, counter, frame, ctx, sysreg, irqvars>>

\* What the CPU interface signals, and IAR returns: of the enabled lines that
\* are up and above the mask, the smallest priority value, then the smallest id.
Signalled == {v \in Vectors : line[v] /\ enabled[v] /\ prio[v] < PMR}
Acknowledged(v) ==
  /\ v \in Signalled
  /\ \A w \in Signalled : prio[v] < prio[w] \/ (prio[v] = prio[w] /\ v <= w)

\* handle_irq_exception_el2 up to the handler; EOIR and DIR are written at once,
\* so a line that is still up is pending again.
TakeIrq(v) ==
  /\ pc = "guest"
  /\ Acknowledged(v)
  /\ Trap
  /\ vec' = v
  /\ pc' = "irq"
  /\ UNCHANGED irqvars

\* A trapped access of the guest to GICD_ISENABLER: it enables v.
TakeEnable(v) ==
  /\ pc = "guest" /\ current = Linux
  /\ Trap
  /\ vec' = v
  /\ pc' = "sync"
  /\ UNCHANGED irqvars

\* intc_handler: gic_enable_int(v, 0), which also sets the priority.
EmulateEnable ==
  /\ pc = "sync"
  /\ enabled' = [enabled EXCEPT ![vec] = TRUE]
  /\ prio' = [prio EXCEPT ![vec] = Enabled0]
  /\ taken' = 0
  /\ pc' = "return"
  /\ UNCHANGED <<vec, swvars, line, lr, masked>>

\* Any other trap that returns (hvc, smc, wfi, an emulated read).
TakeOther ==
  /\ pc = "guest"
  /\ Trap
  /\ pc' = "return"
  /\ UNCHANGED <<vec, irqvars>>

\* An exception class without a handler: the registers are printed, for ever.
TakeFault ==
  /\ pc = "guest"
  /\ Trap
  /\ pc' = "halt"
  /\ UNCHANGED <<vec, irqvars>>

-----------------------------------------------------------------------------
(* vgic_inject *)

\* gic_make_virtual_hardware_interrupt(v, v, 0, 0).
HardwareInterrupt(v) == [st |-> "pending", vid |-> v, pri |-> 0]

\* A bit of GICH_ELSR0: the list register holds no interrupt.
IsEmpty(k) == lr[k] = Empty

\* The two calls of gic_set_ipriority: bytes 27 and 33 get the priority p.  (The
\* other bytes of the two registers get 0; their interrupts have no device.)
SetPriorities(p) == prio' = [v \in Vectors |-> IF v \in Devices THEN p ELSE prio[v]]

\* Variant: the bits of ELSR0 read the wrong way round.
InjectLoopInverted(v) ==
  LET full == {k \in LRs : ~IsEmpty(k)}
  IN IF full = {} THEN lr
     ELSE [lr EXCEPT ![CHOOSE k \in full : \A j \in full : k <= j] = HardwareInterrupt(v)]

\* One iteration of the loop, at register k: p is what the registers hold and the
\* interrupt that is still to be placed (Empty after the return).
InjectStep(p, k) ==
  CASE p.mask = Empty -> p
    [] p.mask # Empty /\ IsEmpty(k) ->
         [lrs |-> [p.lrs EXCEPT ![k] = p.mask], mask |-> Empty]
    [] p.mask # Empty /\ ~IsEmpty(k) /\ lr[k].pri > p.mask.pri ->
         [lrs |-> [p.lrs EXCEPT ![k] = p.mask], mask |-> lr[k]]
    [] OTHER -> p

\* The loop over the list registers; s[i] is before iteration i.
InjectLoop(v) ==
  LET s[i \in 0 .. GICH_LR_NUM] ==
        IF i = 0 THEN [lrs |-> lr, mask |-> HardwareInterrupt(v)] ELSE InjectStep(s[i - 1], i - 1)
  IN s[GICH_LR_NUM].lrs

\* Variant: only the priority of the injected interrupt is lowered.
VgicInjectOwnPriority ==
  /\ pc = "irq" /\ vec \in Devices
  /\ prio' = [prio EXCEPT ![vec] = Lowered]
  /\ lr' = InjectLoop(vec)
  /\ taken' = taken + 1
  /\ pc' = "return"
  /\ UNCHANGED <<vec, swvars, line, enabled, masked>>

\* v_timer_handler and fake_console.
VgicInject ==
  /\ pc = "irq" /\ vec \in Devices
  /\ SetPriorities(Lowered)
  /\ lr' = InjectLoop(vec)
  /\ taken' = taken + 1
  /\ pc' = "return"
  /\ UNCHANGED <<vec, swvars, line, enabled, masked>>

-----------------------------------------------------------------------------
(* handle_timer_interrupt *)

\* The first waiting task after the current one; one core, so there is one.
NextTask ==
  LET offset == CHOOSE i \in 1 .. TASK_COUNT - 1 :
        /\ state[(current + i) % TASK_COUNT] = "WAITING"
        /\ \A j \in 1 .. i - 1 : state[(current + j) % TASK_COUNT] = "RUNNING"
  IN (current + offset) % TASK_COUNT

\* _schedule(sp): current_thread changes, and with switch_context_el the frame.
Schedule ==
  /\ current' = NextTask
  /\ state' = [state EXCEPT ![current] = "WAITING", ![NextTask] = "RUNNING"]
  /\ frame' = ctx[NextTask]

\* Variant: the priorities stay lowered.
TimerInterruptKeepsPriority ==
  /\ pc = "irq" /\ vec = TIMER_VECTOR
  /\ line' = [line EXCEPT ![TIMER_VECTOR] = FALSE]
  /\ IF counter[current] - 1 > 0
     THEN /\ counter' = [counter EXCEPT ![current] = @ - 1]
          /\ UNCHANGED <<current, state, frame>>
     ELSE /\ counter' = [counter EXCEPT ![current] = SYS_TASK_TICK]
          /\ Schedule
  /\ taken' = 0
  /\ pc' = "return"
  /\ UNCHANGED <<vec, gp, sys, ctx, sysreg, gp_stale, sys_stale, enabled, lr, masked, prio>>

\* The timer is set again, which lets its line fall; timer_tick_schedule; the
\* priorities of the device interrupts are raised above the mask.
TimerInterrupt ==
  /\ pc = "irq" /\ vec = TIMER_VECTOR
  /\ line' = [line EXCEPT ![TIMER_VECTOR] = FALSE]
  /\ IF counter[current] - 1 > 0
     THEN /\ counter' = [counter EXCEPT ![current] = @ - 1]
          /\ UNCHANGED <<current, state, frame>>
     ELSE /\ counter' = [counter EXCEPT ![current] = SYS_TASK_TICK]
          /\ Schedule
  /\ SetPriorities(Raised)
  /\ taken' = 0
  /\ pc' = "return"
  /\ UNCHANGED <<vec, gp, sys, ctx, sysreg, gp_stale, sys_stale, enabled, lr, masked>>

-----------------------------------------------------------------------------
El2 == EmulateEnable \/ VgicInject \/ TimerInterrupt \/ Return

Next == \/ \E v \in Vectors : LineUp(v) \/ TakeIrq(v)
        \/ \E v \in Devices : TakeEnable(v)
        \/ \E k \in LRs : GuestAck(k) \/ GuestServes(k) \/ GuestEoi(k)
        \/ \E b \in BOOLEAN : GuestMasks(b)
        \/ TakeOther \/ TakeFault \/ El2

Spec == Init /\ [][Next]_vars

\* EL2 code keeps executing, the timer that was set expires, and a signalled
\* interrupt is taken.  Linux is a guest that does not keep its interrupts off
\* for ever and that serves the interrupts it takes, as often as it runs.
Fairness ==
  /\ WF_vars(El2)
  /\ WF_vars(LineUp(TIMER_VECTOR))
  /\ \A v \in Vectors : SF_vars(TakeIrq(v))
  /\ SF_vars(GuestMasks(FALSE))
  /\ \A k \in LRs : SF_vars(GuestAck(k)) /\ SF_vars(GuestServes(k)) /\ SF_vars(GuestEoi(k))

FairSpec == Spec /\ Fairness

-----------------------------------------------------------------------------
(* Properties *)

\* A guest that executes has its own general and its own system registers, and
\* of every other guest the latest of both is in its own slot.  The two halves
\* are saved and loaded in different places (the handlers and switch_context_el,
\* vm_out and vm_in), on either side of the change of current_thread.
RegistersFollowGuest ==
  /\ pc = "guest" => gp = current /\ sys = current
  /\ \A t \in Guests : /\ ctx[t] = t /\ sysreg[t] = t
                       /\ t \in gp_stale \cup sys_stale => pc = "guest" /\ t = current

\* A device line that stays up cannot keep the core at EL2: between two ticks
\* the host takes at most one device interrupt, unless the guest enables one
\* anew.  vgic_inject lowers both priorities, the tick handler raises them.
OneDeviceInterruptPerTick == taken <= 1

Occupied == {k \in LRs : ~IsEmpty(k)}

\* vgic_inject disturbs no interrupt that is already in a list register, pending
\* or active, and places the new one whenever a register is free.
InjectionAddsOne ==
  [][pc = "irq" /\ vec \in Devices /\ pc' = "return" =>
       /\ \A k \in Occupied : lr'[k] = lr[k]
       /\ Occupied # LRs => \E k \in LRs \ Occupied :
            /\ Occupied' = Occupied \cup {k}
            /\ lr'[k].vid = vec /\ lr'[k].st = "pending"]_vars

\* Drivers enable their interrupts when they start.  A guest that kept enabling
\* the console would raise its priority each time and could fill the registers.
EnablesSettle == <>[](pc # "sync")

\* The virtual timer is always served, although its interrupt is dropped when
\* the list registers are full and masked from each injection to the next tick.
TimerServed ==
  EnablesSettle => (line[HV_TIMER_VECTOR] ~> (~line[HV_TIMER_VECTOR] \/ pc = "halt"))

\* The console is served once the virtual timer leaves it a turn: at every tick
\* only one of the two gets through, and the timer comes first.
ConsoleServed ==
  EnablesSettle /\ <>[](~line[HV_TIMER_VECTOR]) =>
    (line[PL011_INT] /\ enabled[PL011_INT] ~> (~line[PL011_INT] \/ pc = "halt"))

-----------------------------------------------------------------------------
(* The inductive invariant behind the two safety properties *)

\* On one core the state field names the current guest and no other.
OnlyCurrentRuns == \A t \in Guests : state[t] = "RUNNING" <=> t = current

\* From the trap to the eret the frame is the one of the current guest, also
\* after current_thread has changed.
FrameIsCurrents == pc # "guest" => frame = current /\ gp_stale = {} /\ sys_stale = {}

\* Both priorities stay below the mask from the injection to the next tick.
LoweredAfterInjection ==
  /\ taken # 0 => \A v \in Devices : prio[v] = Lowered
  /\ pc = "irq" /\ vec \in Devices => taken = 0
  /\ pc = "irq" => vec \in Vectors
  /\ pc = "sync" => vec \in Devices

\* The conjunction; it is inductive.
IInv ==
  /\ TypeOK
  /\ RegistersFollowGuest
  /\ OneDeviceInterruptPerTick
  /\ OnlyCurrentRuns
  /\ FrameIsCurrents
  /\ LoweredAfterInjection

\* What the comment in vgic_inject says: with the priority lowered the host does
\* not get the interrupt again.  Then no two list registers hold one interrupt.
NoSecondInjection ==
  \A j, k \in Occupied : lr[j].vid = lr[k].vid => j = k
=============================================================================
