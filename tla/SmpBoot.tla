------------------------------- MODULE SmpBoot -------------------------------
(***************************************************************************)
(* Bringing the cores up: kernel_main, second_kernel_main and main_entry   *)
(* (main.c), start_secondary_cpus and thread_info_init (smp.c),            *)
(* schedule_init and create_task (schedule/task.c), and the entry code of  *)
(* boot/boot.S.  Interrupts are masked throughout; a core waits for the    *)
(* others in "while (inited_cpu_num != SMP_NUM) wfi();".                   *)
(*                                                                         *)
(* The initial state of Scheduler.tla is what this module establishes when *)
(* a core leaves that loop.                                                *)
(***************************************************************************)
EXTENDS Integers, FiniteSets

CONSTANTS
  SMP_NUM,        \* number of cores
  MAX_TASKS,      \* size of task_list
  CreateCalls     \* how often main_entry calls create_task

ASSUME BootAssumption ==
  /\ SMP_NUM \in Nat \ {0}
  /\ MAX_TASKS \in Nat /\ SMP_NUM <= MAX_TASKS
  /\ CreateCalls \in Nat /\ SMP_NUM <= CreateCalls   \* 2 in the code: SMP_NUM 1 or 2

Cores      == 0 .. SMP_NUM - 1
Slots      == 0 .. MAX_TASKS - 1
NoCore     == -1
NoTask     == -1
Unset      == -2       \* memory that thread_info_init has not written

VARIABLES
  pc,              \* where each core is
  k,               \* loop variable of start_secondary_cpus
  ti,              \* struct thread_info at the bottom of each core's stack
  id,              \* task_list[s].id
  task_count,
  calls,           \* calls of create_task made so far
  inited_cpu_num,
  reg,             \* what a core has read of inited_cpu_num for the ++
  lock,            \* owner of the global lock of main.c
  timer            \* each core's timer: "off", "armed" or "pending"

vars == <<pc, k, ti, id, task_count, calls, inited_cpu_num, reg, lock, timer>>

BootLock == INSTANCE AbstractLock WITH owner <- lock

\* Only core 0: "start", "cpu_on", "ti_init", "schedule_init", "create".
\* Only the others: "off", "failed" (CPU_ON was refused), "second".
EarlyPCs   == {"start", "cpu_on", "ti_init", "schedule_init", "create", "off", "failed", "second"}
BarrierPCs == {"inc_lock", "inc_read", "inc_write", "inc_unlock", "check", "wfi"}
LatePCs    == {"local", "online"}

\* Where a core that has counted itself can be.
Counted(c) == pc[c] \in {"inc_unlock", "check", "wfi"} \cup LatePCs

TypeOK ==
  /\ pc \in [Cores -> EarlyPCs \cup BarrierPCs \cup LatePCs]
  /\ k \in 0 .. SMP_NUM
  /\ ti \in [Cores -> [cpu : Cores \cup {Unset}, current : Slots \cup {NoTask, Unset}]]
  /\ id \in [Slots -> Slots \cup {NoTask}]
  /\ task_count \in 0 .. MAX_TASKS
  /\ calls \in 0 .. CreateCalls
  /\ inited_cpu_num \in 0 .. SMP_NUM
  /\ reg \in [Cores -> 0 .. SMP_NUM]
  /\ lock \in Cores \cup {NoCore}
  /\ timer \in [Cores -> {"off", "armed", "pending"}]

Goto(c, l) == pc' = [pc EXCEPT ![c] = l]

\* Core 0 is at kernel_main; task_list is in .bss.
Init ==
  /\ pc = [c \in Cores |-> IF c = 0 THEN "start" ELSE "off"]
  /\ k = 0
  /\ ti = [c \in Cores |-> [cpu |-> Unset, current |-> Unset]]
  /\ id = [s \in Slots |-> 0]
  /\ task_count = 0
  /\ calls = 0
  /\ inited_cpu_num = 0
  /\ reg = [c \in Cores |-> 0]
  /\ BootLock!Init
  /\ timer = [c \in Cores |-> "off"]

-----------------------------------------------------------------------------
(* Core 0: kernel_main and start_secondary_cpus *)

\* memset to 0, then the core number.
ThreadInfoInit(c) == ti' = [ti EXCEPT ![c] = [cpu |-> c, current |-> NoTask]]

\* kernel_main up to start_secondary_cpus: timer_init, spinlock_init and the
\* thread_info of core 0 itself.
KernelMain ==
  /\ pc[0] = "start"
  /\ timer' = [timer EXCEPT ![0] = "armed"]
  /\ lock' = NoCore
  /\ ThreadInfoInit(0)
  /\ k' = 1
  /\ Goto(0, IF SMP_NUM > 1 THEN "cpu_on" ELSE "schedule_init")
  /\ UNCHANGED <<id, task_count, calls, inited_cpu_num, reg>>

\* hvc_call(CPU_ON): the core starts at second_entry, or the call is refused,
\* which is printed and otherwise ignored.
CpuOn ==
  /\ pc[0] = "cpu_on"
  /\ \E l \in {"second", "failed"} : pc' = [pc EXCEPT ![0] = "ti_init", ![k] = l]
  /\ UNCHANGED <<k, ti, id, task_count, calls, inited_cpu_num, reg, lock, timer>>

\* Variant: the thread_info at the wrong end of the stack area.
SecondThreadInfoShifted ==
  /\ pc[0] = "ti_init"
  /\ ThreadInfoInit(k - 1)
  /\ k' = k + 1
  /\ Goto(0, IF k + 1 < SMP_NUM THEN "cpu_on" ELSE "schedule_init")
  /\ UNCHANGED <<id, task_count, calls, inited_cpu_num, reg, lock, timer>>

\* After the delay loop, which orders nothing: the thread_info of a core that may
\* already be running.
SecondThreadInfo ==
  /\ pc[0] = "ti_init"
  /\ ThreadInfoInit(k)
  /\ k' = k + 1
  /\ Goto(0, IF k + 1 < SMP_NUM THEN "cpu_on" ELSE "schedule_init")
  /\ UNCHANGED <<id, task_count, calls, inited_cpu_num, reg, lock, timer>>

-----------------------------------------------------------------------------
(* Core 0: the first part of main_entry *)

ScheduleInit ==
  /\ pc[0] = "schedule_init"
  /\ id' = [s \in Slots |-> NoTask]
  /\ Goto(0, "create")
  /\ UNCHANGED <<k, ti, task_count, calls, inited_cpu_num, reg, lock, timer>>

\* create_task: refused when the list is full.
CreateTask ==
  /\ pc[0] = "create"
  /\ calls < CreateCalls
  /\ calls' = calls + 1
  /\ IF task_count >= MAX_TASKS
     THEN UNCHANGED <<id, task_count>>
     ELSE /\ id' = [id EXCEPT ![task_count] = task_count]
          /\ task_count' = task_count + 1
  /\ UNCHANGED <<pc, k, ti, inited_cpu_num, reg, lock, timer>>

\* Variant: core 0 does not wait for all tasks to be created.
TasksCreatedEarly ==
  /\ pc[0] = "create"
  /\ Goto(0, "inc_lock")
  /\ UNCHANGED <<k, ti, id, task_count, calls, inited_cpu_num, reg, lock, timer>>

TasksCreated ==
  /\ pc[0] = "create"
  /\ calls = CreateCalls
  /\ Goto(0, "inc_lock")
  /\ UNCHANGED <<k, ti, id, task_count, calls, inited_cpu_num, reg, lock, timer>>

-----------------------------------------------------------------------------
(* The other cores: second_entry and second_kernel_main *)

\* Variant: the timer of the core is not started.
SecondKernelMainNoTimer(c) ==
  /\ pc[c] = "second"
  /\ Goto(c, "inc_lock")
  /\ UNCHANGED <<k, ti, id, task_count, calls, inited_cpu_num, reg, lock, timer>>

SecondKernelMain(c) ==
  /\ pc[c] = "second"
  /\ timer' = [timer EXCEPT ![c] = "armed"]
  /\ Goto(c, "inc_lock")
  /\ UNCHANGED <<k, ti, id, task_count, calls, inited_cpu_num, reg, lock>>

-----------------------------------------------------------------------------
(* Every core: the barrier of main_entry *)

IncLock(c) ==
  /\ pc[c] = "inc_lock"
  /\ BootLock!Acquire(c)
  /\ Goto(c, "inc_read")
  /\ UNCHANGED <<k, ti, id, task_count, calls, inited_cpu_num, reg, timer>>

\* The load of inited_cpu_num++ ...
IncRead(c) ==
  /\ pc[c] = "inc_read"
  /\ reg' = [reg EXCEPT ![c] = inited_cpu_num]
  /\ Goto(c, "inc_write")
  /\ UNCHANGED <<k, ti, id, task_count, calls, inited_cpu_num, lock, timer>>

\* ... and its store.
IncWrite(c) ==
  /\ pc[c] = "inc_write"
  /\ inited_cpu_num' = reg[c] + 1
  /\ Goto(c, "inc_unlock")
  /\ UNCHANGED <<k, ti, id, task_count, calls, reg, lock, timer>>

IncUnlock(c) ==
  /\ pc[c] = "inc_unlock"
  /\ BootLock!Release(c)
  /\ Goto(c, "check")
  /\ UNCHANGED <<k, ti, id, task_count, calls, inited_cpu_num, reg, timer>>

\* Variant: the barrier opens when one core is still missing.
CheckEarly(c) ==
  /\ pc[c] = "check"
  /\ Goto(c, IF inited_cpu_num < SMP_NUM - 1 THEN "wfi" ELSE "local")
  /\ UNCHANGED <<k, ti, id, task_count, calls, inited_cpu_num, reg, lock, timer>>

\* The condition of the loop, read without the lock.
Check(c) ==
  /\ pc[c] = "check"
  /\ Goto(c, IF inited_cpu_num # SMP_NUM THEN "wfi" ELSE "local")
  /\ UNCHANGED <<k, ti, id, task_count, calls, inited_cpu_num, reg, lock, timer>>

\* wfi falls through when an interrupt is pending, masked or not.  Nobody sends
\* one when inited_cpu_num changes: the core's own timer is the only source.
Wake(c) ==
  /\ pc[c] = "wfi"
  /\ timer[c] = "pending"
  /\ Goto(c, "check")
  /\ UNCHANGED <<k, ti, id, task_count, calls, inited_cpu_num, reg, lock, timer>>

\* schedule_init_local (its steps are in Scheduler.tla) and enable_interrupts.
ScheduleInitLocal(c) ==
  /\ pc[c] = "local"
  /\ ti' = [ti EXCEPT ![c].current = ti[c].cpu]
  /\ Goto(c, "online")
  /\ UNCHANGED <<k, id, task_count, calls, inited_cpu_num, reg, lock, timer>>

\* The timer of a core reaches its compare value; interrupts are masked, so it
\* stays pending until the core goes online, where Scheduler.tla takes over.
TimerFires(c) ==
  /\ timer[c] = "armed"
  /\ timer' = [timer EXCEPT ![c] = "pending"]
  /\ UNCHANGED <<pc, k, ti, id, task_count, calls, inited_cpu_num, reg, lock>>

-----------------------------------------------------------------------------
Primary == KernelMain \/ CpuOn \/ SecondThreadInfo \/ ScheduleInit \/ CreateTask \/ TasksCreated

Any(c) == \/ SecondKernelMain(c)
          \/ IncLock(c) \/ IncRead(c) \/ IncWrite(c) \/ IncUnlock(c)
          \/ Check(c) \/ Wake(c) \/ ScheduleInitLocal(c)

Next == Primary \/ \E c \in Cores : Any(c) \/ TimerFires(c)

Spec == Init /\ [][Next]_vars

\* Cores execute, and an armed timer counts down.  Taking the lock needs no more
\* than that: every core takes it once.
Fairness == /\ WF_vars(Primary)
            /\ \A c \in Cores : WF_vars(Any(c)) /\ WF_vars(TimerFires(c))

FairSpec == Spec /\ Fairness

-----------------------------------------------------------------------------
(* Properties *)

\* The barrier: no core goes on before every core has counted itself.
BarrierHolds ==
  \A c \in Cores : pc[c] \in LatePCs => \A d \in Cores : Counted(d)

\* No increment is lost and none is made twice, whatever the interleaving.
CountIsExact == inited_cpu_num = Cardinality({c \in Cores : Counted(c)})

\* thread_info_init of a core comes after the CPU_ON of that core, and the core
\* may be running by then; still the core finds its number when it needs it, and
\* the memset never wipes out a current_thread that the core has stored.
ThreadInfoSurvives ==
  \A c \in Cores : /\ pc[c] = "local" => ti[c] = [cpu |-> c, current |-> NoTask]
                   /\ pc[c] = "online" => ti[c] = [cpu |-> c, current |-> c]

\* The tasks are complete before any core takes the one it boots on, which is one
\* of them, although only core 0 creates them and task_count has no lock.
TasksReady ==
  \A c \in Cores : pc[c] \in LatePCs =>
    /\ calls = CreateCalls /\ id[c] = c
    /\ \A s \in Slots : id[s] = IF s < task_count THEN s ELSE NoTask

\* After core 0 has passed the barrier, task_count does not change any more: the
\* other cores may read it without a lock.
TaskCountSettles ==
  [][(\E c \in Cores : pc[c] \in LatePCs) => UNCHANGED <<task_count, id>>]_vars

\* If every CPU_ON succeeds, every core comes online: the core that looks at
\* inited_cpu_num too early is woken by its timer.
AllComeOnline ==
  <>(\A c \in Cores : pc[c] = "online") \/ <>(\E c \in Cores : pc[c] = "failed")

\* If one CPU_ON fails, no core ever comes online: the failure is only printed,
\* and the barrier still counts to SMP_NUM.
FailureStopsAll ==
  \A c \in Cores : pc[c] = "failed" => \A d \in Cores : pc[d] \notin LatePCs

-----------------------------------------------------------------------------
(* The inductive invariant behind the safety properties *)

\* Who executes which part of the code.
Roles ==
  /\ pc[0] \notin {"off", "failed", "second"}
  /\ \A c \in Cores \ {0} : pc[c] \notin {"start", "cpu_on", "ti_init", "schedule_init", "create"}

\* How far start_secondary_cpus is: the cores it has not come to are off.
LoopPosition ==
  /\ pc[0] = "start" => \A c \in Cores \ {0} : pc[c] = "off"
  /\ pc[0] \in {"cpu_on", "ti_init"} => k \in 1 .. SMP_NUM - 1
  /\ pc[0] = "cpu_on" => \A c \in Cores : c >= k => pc[c] = "off"
  /\ pc[0] = "ti_init" => \A c \in Cores : c > k => pc[c] = "off"

\* The thread_infos that start_secondary_cpus has come past are written, and
\* only schedule_init_local changes them again.
ThreadInfos ==
  /\ pc[0] \in {"cpu_on", "ti_init"} => \A c \in Cores : c < k => ti[c].cpu = c
  /\ pc[0] \notin {"start", "cpu_on", "ti_init"} => \A c \in Cores : ti[c].cpu = c
  /\ \A c \in Cores : ti[c].cpu = c =>
       ti[c].current = IF pc[c] = "online" THEN c ELSE NoTask

\* The increment: the lock is held, and what was read is still the value.
Increment ==
  \A c \in Cores : /\ lock = c <=> pc[c] \in {"inc_read", "inc_write", "inc_unlock"}
                   /\ pc[c] = "inc_write" => reg[c] = inited_cpu_num

\* The task list while core 0 fills it and afterwards.
TaskList ==
  /\ task_count = IF calls <= MAX_TASKS THEN calls ELSE MAX_TASKS
  /\ pc[0] \in {"start", "cpu_on", "ti_init", "schedule_init"} => calls = 0
  /\ pc[0] \notin {"start", "cpu_on", "ti_init", "schedule_init"} =>
       \A s \in Slots : id[s] = IF s < task_count THEN s ELSE NoTask
  /\ pc[0] \notin {"start", "cpu_on", "ti_init", "schedule_init", "create"} => calls = CreateCalls

IInv == /\ TypeOK
        /\ Roles
        /\ LoopPosition
        /\ ThreadInfos
        /\ Increment
        /\ CountIsExact
        /\ BarrierHolds
        /\ TaskList
=============================================================================
