------------------------------ MODULE Scheduler ------------------------------
(***************************************************************************)
(* The multi-core round-robin scheduler of the EL1 kernel and the code     *)
(* that enters and leaves it: schedule/task.c, the exception entry and     *)
(* return of exception/exception.S, the handlers of exception/exception.c, *)
(* the timer handler of timer/timer.c, the system calls of                 *)
(* syscall/syscall.c, and the tail of main_entry (main.c) from             *)
(* schedule_init_local on.                                                 *)
(*                                                                         *)
(* A core executes a program: an application that create_task put in       *)
(* task_list, or the boot code of the core itself, which ends in the       *)
(* "while (1)" of main_entry.  Register contents are abstracted to the     *)
(* program they belong to; that a saved copy is older than the program's   *)
(* registers is recorded by putting its slot in `stale'.                   *)
(***************************************************************************)
EXTENDS Integers, FiniteSets

CONSTANTS
  SMP_NUM,            \* number of cores
  TASK_COUNT,         \* task_count once core 0 has created the tasks
  SYS_TASK_TICK,      \* timer ticks in a time slice
  CounterModulus,     \* 2^32 in the code: tcb_t.counter is a uint32_t
  SlicesOutlastBoot   \* TRUE: no time slice ends while a core is still between
                      \* the boot barrier and the end of schedule_init_local;
                      \* a timing assumption, nothing in the code enforces it

ASSUME ConstantsAssumption ==
  /\ SMP_NUM \in Nat \ {0}
  /\ TASK_COUNT \in Nat /\ SMP_NUM <= TASK_COUNT
  /\ SYS_TASK_TICK \in Nat \ {0}
  /\ CounterModulus \in Nat /\ SYS_TASK_TICK < CounterModulus
  /\ SlicesOutlastBoot \in BOOLEAN

Cores  == 0 .. SMP_NUM - 1
Tasks  == 0 .. TASK_COUNT - 1
NoTask == -1
NoCore == -1

App(t)      == <<"app", t>>      \* the function given to create_task
BootLoop(c) == <<"boot", c>>     \* main_entry of core c
Programs    == {App(t) : t \in Tasks} \cup {BootLoop(c) : c \in Cores}

VARIABLES
  pc,          \* where each core is
  state,       \* task_list[t].state
  counter,     \* task_list[t].counter
  ctx,         \* whose registers task_list[t].cpu_info->ctx holds
  stale,       \* the tasks whose ctx is older than the program's registers
  current,     \* thread_info of core c: current_thread
  regs,        \* the program whose registers (or trap frame) core c has
  lock,        \* owner of the static lock of task.c
  print_lock,  \* owner of print_lock
  i,           \* loop variable of _schedule on core c
  next,        \* next_task_id of _schedule on core c
  rx           \* the UART has a character to read

vars == <<pc, state, counter, ctx, stale, current, regs, lock, print_lock, i, next, rx>>

\* schedule_init_local; then the program ("run") with interrupts enabled, or a
\* handler with interrupts masked.
BootPCs  == {"print_lock", "set_current", "set_running", "print_unlock"}
SchedPCs == {"lock", "scan", "claim", "unlock", "switch"}
PCs      == BootPCs \cup SchedPCs \cup {"run", "tick", "svc", "getc", "getc_read", "halt"}

SchedLock == INSTANCE AbstractLock WITH owner <- lock
PrintLock == INSTANCE AbstractLock WITH owner <- print_lock

TypeOK ==
  /\ pc \in [Cores -> PCs]
  /\ state \in [Tasks -> {"RUNNING", "WAITING"}]
  /\ counter \in [Tasks -> 0 .. CounterModulus - 1]
  /\ ctx \in [Tasks -> Programs]
  /\ stale \subseteq Tasks
  /\ current \in [Cores -> Tasks \cup {NoTask}]
  /\ regs \in [Cores -> Programs]
  /\ lock \in Cores \cup {NoCore}
  /\ print_lock \in Cores \cup {NoCore}
  /\ i \in [Cores -> 0 .. TASK_COUNT]
  /\ next \in [Cores -> Tasks \cup {NoTask}]
  /\ rx \in BOOLEAN

Goto(c, l) == pc' = [pc EXCEPT ![c] = l]

\* Core 0 has run schedule_init and TASK_COUNT times create_task, and every
\* core has passed the barrier of main_entry.
Init ==
  /\ pc = [c \in Cores |-> "print_lock"]
  /\ state = [t \in Tasks |-> "WAITING"]
  /\ counter = [t \in Tasks |-> SYS_TASK_TICK]
  /\ ctx = [t \in Tasks |-> App(t)]
  /\ stale = {}
  /\ current = [c \in Cores |-> NoTask]
  /\ regs = [c \in Cores |-> BootLoop(c)]
  /\ SchedLock!Init /\ PrintLock!Init
  /\ i = [c \in Cores |-> 0]
  /\ next = [c \in Cores |-> NoTask]
  /\ rx = FALSE

-----------------------------------------------------------------------------
(* schedule_init_local, and enable_interrupts after it *)

AcquirePrintLock(c) ==
  /\ pc[c] = "print_lock"
  /\ PrintLock!Acquire(c)
  /\ Goto(c, "set_current")
  /\ UNCHANGED <<state, counter, ctx, stale, current, regs, lock, i, next, rx>>

\* Variant: every core starts on the first task.
SetCurrentFirst(c) ==
  /\ pc[c] = "set_current"
  /\ current' = [current EXCEPT ![c] = 0]
  /\ Goto(c, "set_running")
  /\ UNCHANGED <<state, counter, ctx, stale, regs, lock, print_lock, i, next, rx>>

SetCurrent(c) ==
  /\ pc[c] = "set_current"
  /\ current' = [current EXCEPT ![c] = c]
  /\ Goto(c, "set_running")
  /\ UNCHANGED <<state, counter, ctx, stale, regs, lock, print_lock, i, next, rx>>

SetRunning(c) ==
  /\ pc[c] = "set_running"
  /\ state' = [state EXCEPT ![c] = "RUNNING"]
  /\ Goto(c, "print_unlock")
  /\ UNCHANGED <<counter, ctx, stale, current, regs, lock, print_lock, i, next, rx>>

EnterLoop(c) ==
  /\ pc[c] = "print_unlock"
  /\ PrintLock!Release(c)
  /\ Goto(c, "run")
  /\ UNCHANGED <<state, counter, ctx, stale, current, regs, lock, i, next, rx>>

-----------------------------------------------------------------------------
(* Exception entry and return *)

\* save_cpu_ctx: the trap frame is copied into the context of the current task.
SaveCpuCtx(c) == /\ ctx' = [ctx EXCEPT ![current[c]] = regs[c]]
                 /\ stale' = stale \ {current[c]}

\* RESTORE_REGS and eret of a frame that holds program p: p executes, so every
\* saved copy of p becomes old.
Resume(c, p) == /\ regs' = [regs EXCEPT ![c] = p]
                /\ stale' = stale \cup {t \in Tasks : ctx[t] = p}
                /\ Goto(c, "run")

\* Variant: the handler runs without save_cpu_ctx.
IrqNoSave(c) ==
  /\ pc[c] = "run"
  /\ Goto(c, "tick")
  /\ UNCHANGED <<state, counter, ctx, stale, current, regs, lock, print_lock, i, next, rx>>

\* The timer interrupt is taken: handle_irq_exception saves the context and
\* calls handle_timer_interrupt.
Irq(c) ==
  /\ pc[c] = "run"
  /\ SaveCpuCtx(c)
  /\ Goto(c, "tick")
  /\ UNCHANGED <<state, counter, current, regs, lock, print_lock, i, next, rx>>

\* An application executes svc (or smc, which also just returns): putc and
\* debug return, getc waits with interrupts masked.
Svc(c) ==
  /\ pc[c] = "run"
  /\ regs[c] \notin {BootLoop(d) : d \in Cores}
  /\ SaveCpuCtx(c)
  /\ \E l \in {"svc", "getc"} : Goto(c, l)
  /\ UNCHANGED <<state, counter, current, regs, lock, print_lock, i, next, rx>>

SvcReturn(c) ==
  /\ pc[c] = "svc"
  /\ Resume(c, regs[c])
  /\ UNCHANGED <<state, counter, ctx, current, lock, print_lock, i, next, rx>>

\* The polling loop of getc ends: the UART says that a character is there.
GetcPoll(c) ==
  /\ pc[c] = "getc"
  /\ rx
  /\ Goto(c, "getc_read")
  /\ UNCHANGED <<state, counter, ctx, stale, current, regs, lock, print_lock, i, next, rx>>

\* The data register is read; another core may have been faster, which getc does
\* not notice.
GetcReturn(c) ==
  /\ pc[c] = "getc_read"
  /\ rx' = FALSE
  /\ Resume(c, regs[c])
  /\ UNCHANGED <<state, counter, ctx, current, lock, print_lock, i, next>>

\* Any other synchronous exception of an application: handle_sync_exception
\* saves the context, prints and never returns.
Fault(c) ==
  /\ pc[c] = "run"
  /\ regs[c] \notin {BootLoop(d) : d \in Cores}
  /\ SaveCpuCtx(c)
  /\ Goto(c, "halt")
  /\ UNCHANGED <<state, counter, current, regs, lock, print_lock, i, next, rx>>

\* The world outside: a character is typed.
CharArrives ==
  /\ rx' = TRUE
  /\ UNCHANGED <<pc, state, counter, ctx, stale, current, regs, lock, print_lock, i, next>>

-----------------------------------------------------------------------------
(* timer_tick_schedule *)

\* --curr->counter, modulo 2^32 in the code.
Decremented(c) == (counter[current[c]] - 1) % CounterModulus

\* The slice is not over: return to the interrupted program.
TickReturn(c) ==
  /\ pc[c] = "tick"
  /\ Decremented(c) > 0
  /\ counter' = [counter EXCEPT ![current[c]] = Decremented(c)]
  /\ Resume(c, regs[c])
  /\ UNCHANGED <<state, ctx, current, lock, print_lock, i, next, rx>>

Timing == SlicesOutlastBoot => \A d \in Cores : pc[d] \notin BootPCs

\* Variant: the counter is not set for the next slice.
SliceEndNoReset(c) ==
  /\ pc[c] = "tick"
  /\ Decremented(c) = 0
  /\ Timing
  /\ counter' = [counter EXCEPT ![current[c]] = 0]
  /\ IF TASK_COUNT = SMP_NUM
     THEN Resume(c, regs[c])
     ELSE Goto(c, "lock") /\ UNCHANGED <<regs, stale>>
  /\ UNCHANGED <<state, ctx, current, lock, print_lock, i, next, rx>>

\* The slice is over.  _schedule returns at once when there are as many tasks
\* as cores.
SliceEnd(c) ==
  /\ pc[c] = "tick"
  /\ Decremented(c) = 0
  /\ Timing
  /\ counter' = [counter EXCEPT ![current[c]] = SYS_TASK_TICK]
  /\ IF TASK_COUNT = SMP_NUM
     THEN Resume(c, regs[c])
     ELSE Goto(c, "lock") /\ UNCHANGED <<regs, stale>>
  /\ UNCHANGED <<state, ctx, current, lock, print_lock, i, next, rx>>

-----------------------------------------------------------------------------
(* _schedule *)

\* Variant: the scan without the lock.
AcquireLockNot(c) ==
  /\ pc[c] = "lock"
  /\ i' = [i EXCEPT ![c] = 1]
  /\ Goto(c, "scan")
  /\ UNCHANGED <<state, counter, ctx, stale, current, regs, lock, print_lock, next, rx>>

AcquireLock(c) ==
  /\ pc[c] = "lock"
  /\ SchedLock!Acquire(c)
  /\ i' = [i EXCEPT ![c] = 1]
  /\ Goto(c, "scan")
  /\ UNCHANGED <<state, counter, ctx, stale, current, regs, print_lock, next, rx>>

\* Variant: every scan starts at the front of the list.
CandidateFromFront(c) == i[c] % TASK_COUNT

\* The task that the loop looks at: (curr->id + i) % task_count.
Candidate(c) == (current[c] + i[c]) % TASK_COUNT

\* Variant: break instead of continue at a running task.
ScanSkipBreaks(c) ==
  /\ pc[c] = "scan"
  /\ state[Candidate(c)] = "RUNNING"
  /\ next' = [next EXCEPT ![c] = Candidate(c)]
  /\ i' = [i EXCEPT ![c] = i[c] + 1]
  /\ Goto(c, "unlock")
  /\ UNCHANGED <<state, counter, ctx, stale, current, regs, lock, print_lock, rx>>

\* One iteration that finds a running task and continues, or leaves the loop
\* when it was the last one.
ScanSkip(c) ==
  /\ pc[c] = "scan"
  /\ state[Candidate(c)] = "RUNNING"
  /\ next' = [next EXCEPT ![c] = Candidate(c)]
  /\ i' = [i EXCEPT ![c] = i[c] + 1]
  /\ Goto(c, IF i[c] + 1 < TASK_COUNT THEN "scan" ELSE "unlock")
  /\ UNCHANGED <<state, counter, ctx, stale, current, regs, lock, print_lock, rx>>

\* The iteration that finds a waiting task.
ScanFind(c) ==
  /\ pc[c] = "scan"
  /\ state[Candidate(c)] = "WAITING"
  /\ next' = [next EXCEPT ![c] = Candidate(c)]
  /\ Goto(c, "claim")
  /\ UNCHANGED <<state, counter, ctx, stale, current, regs, lock, print_lock, i, rx>>

ClaimForgetsNew(c) ==
  /\ pc[c] = "claim"
  /\ state' = [state EXCEPT ![current[c]] = "WAITING"]
  /\ current' = [current EXCEPT ![c] = next[c]]
  /\ Goto(c, "unlock")
  /\ UNCHANGED <<counter, ctx, stale, regs, lock, print_lock, i, next, rx>>

\* The else branch of the loop: the two states are exchanged, the core now has
\* that task as its current one, and break.
Claim(c) ==
  /\ pc[c] = "claim"
  /\ state' = [state EXCEPT ![current[c]] = "WAITING", ![next[c]] = "RUNNING"]
  /\ current' = [current EXCEPT ![c] = next[c]]
  /\ Goto(c, "unlock")
  /\ UNCHANGED <<counter, ctx, stale, regs, lock, print_lock, i, next, rx>>

ReleaseLock(c) ==
  /\ pc[c] = "unlock"
  /\ SchedLock!Release(c)
  /\ Goto(c, "switch")
  /\ UNCHANGED <<state, counter, ctx, stale, current, regs, print_lock, i, next, rx>>

\* Variant: the trap frame keeps the old program.
SwitchKeepsFrame(c) ==
  /\ pc[c] = "switch"
  /\ Resume(c, regs[c])
  /\ i' = [i EXCEPT ![c] = 0]
  /\ next' = [next EXCEPT ![c] = NoTask]
  /\ UNCHANGED <<state, counter, ctx, current, lock, print_lock, rx>>

\* After the lock is released: return when next_task_id is still -1, otherwise
\* switch_context_el overwrites the trap frame with the saved context of the
\* next task; then the exception returns.
Switch(c) ==
  /\ pc[c] = "switch"
  /\ Resume(c, IF next[c] = NoTask THEN regs[c] ELSE ctx[next[c]])
  /\ i' = [i EXCEPT ![c] = 0]
  /\ next' = [next EXCEPT ![c] = NoTask]
  /\ UNCHANGED <<state, counter, ctx, current, lock, print_lock, rx>>

-----------------------------------------------------------------------------
Boot(c) == AcquirePrintLock(c) \/ SetCurrent(c) \/ SetRunning(c) \/ EnterLoop(c)

Kernel(c) == \/ SvcReturn(c) \/ GetcPoll(c) \/ GetcReturn(c)
             \/ TickReturn(c) \/ SliceEnd(c)
             \/ AcquireLock(c) \/ ScanSkip(c) \/ ScanFind(c) \/ Claim(c)
             \/ ReleaseLock(c) \/ Switch(c)

Next == \/ \E c \in Cores : Boot(c) \/ Irq(c) \/ Svc(c) \/ Fault(c) \/ Kernel(c)
        \/ CharArrives

Spec == Init /\ [][Next]_vars

\* A core keeps executing instructions of the kernel.  The timer of the core
\* fires again and again and stays pending while interrupts are masked, so it
\* is taken if the core is infinitely often outside the kernel, however many
\* system calls come in between.  Nobody has to type, call or fault.
Fairness == \A c \in Cores : /\ WF_vars(Boot(c))
                             /\ WF_vars(Kernel(c))
                             /\ SF_vars(Irq(c))

FairSpec == Spec /\ Fairness

-----------------------------------------------------------------------------
(* Properties *)

\* The task whose number a core has in current_thread is on that core only:
\* two cores never run one task, also not in the window between a scan and the
\* load of the context, nor while another core is still starting up.
TaskOnOneCore == \A c, d \in Cores : current[c] = current[d] /\ current[c] # NoTask => c = d

\* state and current_thread are two records of one fact, written under two
\* different locks.  Outside the moment in schedule_init_local where only one
\* of them is written, they agree.
StateMatchesCurrent ==
  \A t \in Tasks : state[t] = "RUNNING" <=> \E c \in Cores : current[c] = t /\ pc[c] # "set_running"

\* The programs that may be found in the slot of task t: its own application
\* and, for a slot that a core boots on, the boot loop of that core.
Home(t) == {App(t)} \cup {BootLoop(c) : c \in Cores \cap {t}}

\* Contexts never move to the slot of another task: whatever task a core is on
\* when it leaves the kernel, the registers are those of that task's slot.
RunsItsOwnTask ==
  /\ \A t \in Tasks : ctx[t] \in Home(t)
  /\ \A c \in Cores : pc[c] = "run" => regs[c] \in Home(current[c])

\* No two cores execute the same program (the same registers and stack).
ProgramOnOneCore ==
  \A c, d \in Cores : pc[c] = "run" /\ pc[d] = "run" /\ regs[c] = regs[d] => c = d

\* The context that switch_context_el is about to load is the latest one: the
\* core that ran the task before saved it in time, though the saving happens
\* outside the lock and the loading after the unlock.
LoadsLatestContext ==
  \A c \in Cores : pc[c] = "switch" /\ next[c] # NoTask => next[c] \notin stale

\* _schedule never leaves its loop without a task it has just claimed: the test
\* for next_task_id == -1 cannot tell an exhausted scan (the variable holds the
\* last task looked at), so an exhausted scan would load a running task.
SwitchIsClaimed ==
  \A c \in Cores : pc[c] \in {"unlock", "switch"} => next[c] = current[c] /\ next[c] # NoTask

\* The unsigned counter is never decremented at 0: every slice has between one
\* and SYS_TASK_TICK ticks left.
SliceNeverWraps == \A t \in Tasks : counter[t] \in 1 .. SYS_TASK_TICK

\* A task that leaves the processor is taken off by the core that is on it, which
\* holds the lock and puts a waiting task on in the same step.
HandsOverStep ==
  \A t \in Tasks :
    state[t] = "RUNNING" /\ state'[t] = "WAITING" =>
      \E c \in Cores : /\ current[c] = t /\ lock = c
                       /\ state[current'[c]] = "WAITING"
                       /\ state'[current'[c]] = "RUNNING"

\* Only the core that is on a task takes it off the processor, under the lock,
\* and it puts a waiting task on in the same step: no core is ever left without
\* a task and no task is taken from under a core.
HandsOver == [][HandsOverStep]_vars

Assignment == INSTANCE CoreAssignment WITH running <- current

\* The scheduler implements CoreAssignment: current_thread only ever moves to a
\* task that no core is on.
ImplementsAssignment == Assignment!Spec

\* A core that will never again take a timer tick unless a key is pressed.
Blocked(c) == pc[c] \in {"getc", "halt"}

\* Every waiting task gets a core, unless every core sits in getc or has been
\* stopped by a fault: one core that still takes ticks is enough, and skipping
\* running tasks starves nobody.
EveryTaskGetsACore ==
  \A t \in Tasks : state[t] = "WAITING" ~> state[t] = "RUNNING" \/ \A c \in Cores : Blocked(c)

\* An application that no core booted on is executed again and again, unless
\* its core is stopped in it, spins for the lock with it (spin_lock is not fair:
\* the other cores may always be faster), or every core is blocked.
AppsExecute ==
  \A t \in Tasks \ Cores :
    []<>(\/ \E c \in Cores : regs[c] = App(t) /\ (pc[c] \in {"run", "lock"} \/ Blocked(c))
         \/ \A c \in Cores : Blocked(c))

-----------------------------------------------------------------------------
(* The inductive invariant behind the safety properties *)

\* Who is between spin_lock and spin_unlock of which lock.
LocksHeld ==
  \A c \in Cores :
    /\ lock = c <=> pc[c] \in {"scan", "claim", "unlock"}
    /\ print_lock = c <=> pc[c] \in {"set_current", "set_running", "print_unlock"}

\* current_thread is set exactly from the second step of schedule_init_local on.
CurrentIsSet == \A c \in Cores : current[c] = NoTask <=> pc[c] \in {"print_lock", "set_current"}

\* While a core is still starting, nobody schedules and every core that has a
\* task has the one it boots on.  The two locks do not give this: it is the
\* timing assumption, or that there is nothing to schedule.
BootIsQuiet ==
  \A c, d \in Cores : pc[c] \in BootPCs => pc[d] \notin SchedPCs /\ current[d] \in {NoTask, d}

\* The scan is entered only when there are more tasks than cores.
MoreTasksThanCores == \A c \in Cores : pc[c] \in SchedPCs => SMP_NUM < TASK_COUNT

\* What the scan has established so far: everything it went past is running, and
\* what it is about to claim is waiting.
ScanKnows ==
  \A c \in Cores :
    /\ pc[c] = "scan" =>
         /\ i[c] \in 1 .. TASK_COUNT - 1
         /\ \A j \in 1 .. i[c] - 1 : state[(current[c] + j) % TASK_COUNT] = "RUNNING"
    /\ pc[c] = "claim" => next[c] \in Tasks /\ state[next[c]] = "WAITING"

\* The slot that a core saves to; before schedule_init_local it has none, but
\* its boot code belongs to the slot it will get.
Slot(c) == IF current[c] = NoTask THEN c ELSE current[c]

\* RunsItsOwnTask, inside the kernel too: only between the claim and the load of
\* the frame does a core have the registers of another task than its current.
ContextsAtHome ==
  /\ \A t \in Tasks : ctx[t] \in Home(t)
  /\ \A c \in Cores : pc[c] \notin {"unlock", "switch"} => regs[c] \in Home(Slot(c))

\* A saved context is old only while its task executes outside the kernel.
OldOnlyWhileRunning == \A t \in stale : \E c \in Cores : current[c] = t /\ pc[c] = "run"

IInv == /\ TypeOK
        /\ LocksHeld
        /\ CurrentIsSet
        /\ BootIsQuiet
        /\ MoreTasksThanCores
        /\ TaskOnOneCore
        /\ StateMatchesCurrent
        /\ ScanKnows
        /\ SwitchIsClaimed
        /\ ContextsAtHome
        /\ OldOnlyWhileRunning
        /\ SliceNeverWraps

-----------------------------------------------------------------------------
(* What comments of the code say and the code does not do *)

\* "save the processor state of the task in which the exception happened"
\* (exception.c, at both calls of save_cpu_ctx): the context of a task is that
\* of its own program.
SavesTrappedTask == \A t \in Tasks : ctx[t] = App(t)
=============================================================================
