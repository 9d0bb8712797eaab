--------------------------- MODULE SchedulerProof ---------------------------
(***************************************************************************)
(* For any number of cores and tasks: under the timing assumption, or when *)
(* there is one core, or when there are as many tasks as cores, the        *)
(* scheduler keeps IInv, and with it every safety property of Scheduler.   *)
(***************************************************************************)
EXTENDS Scheduler, FiniteSetTheorems, TLAPS

\* The cases in which schedule_init_local cannot race with _schedule.
NoBootRace == SlicesOutlastBoot \/ SMP_NUM = 1 \/ TASK_COUNT = SMP_NUM

-----------------------------------------------------------------------------
(* Facts about the operators *)

\* Every core number is also a task number.
LEMMA CoresAreTasks == Cores \subseteq Tasks /\ NoTask \notin Tasks /\ NoCore \notin Cores
BY ConstantsAssumption DEF Cores, Tasks, NoTask, NoCore

\* No program is at home in two slots.
LEMMA HomesDisjoint ==
  ASSUME NEW t \in Tasks, NEW u \in Tasks, NEW p, p \in Home(t), p \in Home(u)
  PROVE  t = u
BY DEF Home, App, BootLoop

\* What is at home in a slot is a program.
LEMMA HomesArePrograms ==
  ASSUME NEW t \in Tasks
  PROVE  Home(t) \subseteq Programs
BY DEF Home, Programs

\* A program at home in the slot of a task is an application or the boot loop.
LEMMA HomeMembers ==
  /\ \A t \in Tasks : App(t) \in Home(t)
  /\ \A c \in Cores : BootLoop(c) \in Home(c)
BY DEF Home

\* (a + j) % n without the modulo, for two numbers below n.
LEMMA ModSum ==
  ASSUME NEW n \in Nat \ {0}, NEW a \in 0 .. n - 1, NEW j \in 0 .. n - 1
  PROVE  (a + j) % n = IF a + j < n THEN a + j ELSE a + j - n
OBVIOUS

\* The scan only looks at tasks of the list, and never at the current one.
LEMMA CandidateIsOtherTask ==
  ASSUME NEW c \in Cores, current[c] \in Tasks, i[c] \in 1 .. TASK_COUNT - 1
  PROVE  Candidate(c) \in Tasks /\ Candidate(c) # current[c]
<1>1. TASK_COUNT \in Nat \ {0}
  BY ConstantsAssumption
<1>2. current[c] \in 0 .. TASK_COUNT - 1 /\ i[c] \in 0 .. TASK_COUNT - 1
  BY <1>1 DEF Tasks
<1> DEFINE a == current[c]
           j == i[c]
<1>3. (a + j) % TASK_COUNT = IF a + j < TASK_COUNT THEN a + j ELSE a + j - TASK_COUNT
  <2> HIDE DEF a, j
  <2>1. a \in 0 .. TASK_COUNT - 1 /\ j \in 0 .. TASK_COUNT - 1
    BY <1>2 DEF a, j
  <2> QED
    BY <1>1, <2>1, ModSum
<1> QED
  BY <1>1, <1>2, <1>3 DEF Tasks, Candidate

\* A scan that goes through all its iterations has seen every other task.
LEMMA ScanSeesAll ==
  ASSUME NEW a \in Tasks, NEW t \in Tasks, t # a
  PROVE  \E j \in 1 .. TASK_COUNT - 1 : (a + j) % TASK_COUNT = t
<1>1. TASK_COUNT \in Nat \ {0}
  BY ConstantsAssumption
<1>2. CASE a < t
  <2>1. t - a \in 1 .. TASK_COUNT - 1
    BY <1>1, <1>2 DEF Tasks
  <2>2. (a + (t - a)) % TASK_COUNT = t
    BY <1>1, <1>2, <2>1, ModSum DEF Tasks
  <2> QED
    BY <2>1, <2>2
<1>3. CASE t < a
  <2>1. t - a + TASK_COUNT \in 1 .. TASK_COUNT - 1
    BY <1>1, <1>3 DEF Tasks
  <2>2. (a + (t - a + TASK_COUNT)) % TASK_COUNT = t
    BY <1>1, <1>3, <2>1, ModSum DEF Tasks
  <2> QED
    BY <2>1, <2>2
<1> QED
  BY <1>1, <1>2, <1>3 DEF Tasks

\* With fewer cores than tasks, some task has no core.
LEMMA SomeTaskHasNoCore ==
  ASSUME TypeOK, SMP_NUM < TASK_COUNT
  PROVE  \E t \in Tasks : \A c \in Cores : current[c] # t
<1> SUFFICES ASSUME \A t \in Tasks : \E c \in Cores : current[c] = t
             PROVE  FALSE
  OBVIOUS
<1> DEFINE f == [t \in Tasks |-> CHOOSE c \in Cores : current[c] = t]
<1>1. \A t \in Tasks : f[t] \in Cores /\ current[f[t]] = t
  OBVIOUS
<1>2. f \in [Tasks -> Cores]
  BY <1>1
<1>3. IsFiniteSet(Tasks) /\ Cardinality(Tasks) = TASK_COUNT
  BY FS_Interval, ConstantsAssumption DEF Tasks
<1>4. IsFiniteSet(Cores) /\ Cardinality(Cores) = SMP_NUM
  BY FS_Interval, ConstantsAssumption DEF Cores
<1> HIDE DEF f
<1>5. PICK x, y \in Tasks : x # y /\ f[x] = f[y]
  BY <1>2, <1>3, <1>4, FS_PigeonHole
<1> QED
  BY <1>1, <1>5

\* The decrement at a live counter does not wrap.
LEMMA DecrementedIs ==
  ASSUME NEW c \in Cores, counter[current[c]] \in 1 .. SYS_TASK_TICK
  PROVE  /\ Decremented(c) = counter[current[c]] - 1
         /\ Decremented(c) \in 0 .. SYS_TASK_TICK - 1
<1> DEFINE n == counter[current[c]]
<1>1. (n - 1) % CounterModulus = n - 1
  <2> HIDE DEF n
  <2>1. n \in 1 .. SYS_TASK_TICK
    BY DEF n
  <2> QED
    BY <2>1, ConstantsAssumption
<1> QED
  BY <1>1, ConstantsAssumption DEF Decremented

\* Returning to the program of the current task makes only the saved context of
\* that task old.
LEMMA ResumeMakesOneOld ==
  ASSUME IInv, NEW c \in Cores, NEW p, Resume(c, p),
         pc[c] # "run", current[c] \in Tasks, p \in Home(current[c]),
         UNCHANGED <<ctx, current>>
  PROVE  OldOnlyWhileRunning'
<1> SUFFICES ASSUME NEW t \in stale' PROVE \E d \in Cores : current[d] = t /\ pc'[d] = "run"
  BY DEF OldOnlyWhileRunning
<1>1. CASE t \in stale
  BY <1>1 DEF IInv, OldOnlyWhileRunning, Resume, Goto, TypeOK
<1>2. CASE t \notin stale
  <2>1. t \in Tasks /\ ctx[t] = p
    BY <1>2 DEF Resume
  <2>2. t = current[c]
    BY <2>1, HomesDisjoint DEF IInv, ContextsAtHome
  <2> QED
    BY <2>2 DEF Resume, Goto, IInv, TypeOK
<1> QED
  BY <1>1, <1>2

-----------------------------------------------------------------------------
(* The invariant is inductive *)

\* Core 0 has created the tasks and no core has started scheduling.
LEMMA SchedulerInit == Init => IInv
<1> SUFFICES ASSUME Init PROVE IInv
  OBVIOUS
<1> USE CoresAreTasks, ConstantsAssumption DEF Init, SchedLock!Init, PrintLock!Init, PCs, BootPCs, SchedPCs
<1>1. TypeOK
  <2>1. ctx \in [Tasks -> Programs] /\ regs \in [Cores -> Programs]
    BY DEF Programs
  <2>2. SYS_TASK_TICK \in 0 .. CounterModulus - 1 /\ 0 \in 0 .. TASK_COUNT
    OBVIOUS
  <2> QED
    BY <2>1, <2>2 DEF TypeOK
<1>2. LocksHeld /\ CurrentIsSet /\ BootIsQuiet /\ MoreTasksThanCores
  BY DEF LocksHeld, CurrentIsSet, BootIsQuiet, MoreTasksThanCores
<1>3. TaskOnOneCore /\ StateMatchesCurrent /\ ScanKnows /\ SwitchIsClaimed
  BY DEF TaskOnOneCore, StateMatchesCurrent, ScanKnows, SwitchIsClaimed
<1>4. ContextsAtHome
  BY HomeMembers DEF ContextsAtHome, Slot
<1>5. OldOnlyWhileRunning /\ SliceNeverWraps
  BY DEF OldOnlyWhileRunning, SliceNeverWraps
<1> QED
  BY <1>1, <1>2, <1>3, <1>4, <1>5 DEF IInv

\* spin_lock(&print_lock) of schedule_init_local keeps the invariant.
LEMMA AcquirePrintLockKeeps ==
  ASSUME IInv, NoBootRace, NEW c \in Cores, AcquirePrintLock(c)
  PROVE  IInv'
<1> USE CoresAreTasks, ConstantsAssumption DEF IInv, TypeOK, AcquirePrintLock, PrintLock!Acquire, Goto
<1>1. TypeOK'
  BY DEF PCs, BootPCs
<1>2. LocksHeld' /\ CurrentIsSet'
  BY DEF LocksHeld, CurrentIsSet
<1>3. BootIsQuiet' /\ MoreTasksThanCores'
  BY DEF BootIsQuiet, MoreTasksThanCores, BootPCs, SchedPCs
<1>4. TaskOnOneCore' /\ StateMatchesCurrent'
  BY DEF TaskOnOneCore, StateMatchesCurrent
<1>5. ScanKnows' /\ SwitchIsClaimed'
  BY DEF ScanKnows, SwitchIsClaimed
<1>6. ContextsAtHome'
  BY DEF ContextsAtHome, Slot
<1>7. OldOnlyWhileRunning'
  BY DEF OldOnlyWhileRunning
<1>8. SliceNeverWraps'
  BY DEF SliceNeverWraps
<1> QED
  BY <1>1, <1>2, <1>3, <1>4, <1>5, <1>6, <1>7, <1>8

\* Setting current_thread keeps the invariant: BootIsQuiet says that no other
\* core is on the task that the core starts on.
LEMMA SetCurrentKeeps ==
  ASSUME IInv, NoBootRace, NEW c \in Cores, SetCurrent(c)
  PROVE  IInv'
<1> USE CoresAreTasks, ConstantsAssumption DEF IInv, TypeOK, SetCurrent, Goto
<1>1. TypeOK'
  BY DEF PCs, BootPCs
<1>2. LocksHeld' /\ CurrentIsSet'
  BY DEF LocksHeld, CurrentIsSet
<1>3. BootIsQuiet' /\ MoreTasksThanCores'
  BY DEF BootIsQuiet, MoreTasksThanCores, BootPCs, SchedPCs
<1>4. TaskOnOneCore' /\ StateMatchesCurrent'
  BY DEF TaskOnOneCore, StateMatchesCurrent, BootIsQuiet, ScanKnows, CurrentIsSet, BootPCs, SchedPCs
<1>5. ScanKnows' /\ SwitchIsClaimed'
  BY DEF ScanKnows, SwitchIsClaimed
<1>6. ContextsAtHome'
  BY DEF ContextsAtHome, Slot, CurrentIsSet
<1>7. OldOnlyWhileRunning'
  BY DEF OldOnlyWhileRunning
<1>8. SliceNeverWraps'
  BY DEF SliceNeverWraps
<1> QED
  BY <1>1, <1>2, <1>3, <1>4, <1>5, <1>6, <1>7, <1>8

\* Marking the first task RUNNING keeps the invariant.
LEMMA SetRunningKeeps ==
  ASSUME IInv, NoBootRace, NEW c \in Cores, SetRunning(c)
  PROVE  IInv'
<1> USE CoresAreTasks, ConstantsAssumption DEF IInv, TypeOK, SetRunning, Goto
<1>1. TypeOK'
  BY DEF PCs, BootPCs
<1>2. LocksHeld' /\ CurrentIsSet'
  BY DEF LocksHeld, CurrentIsSet
<1>3. BootIsQuiet' /\ MoreTasksThanCores'
  BY DEF BootIsQuiet, MoreTasksThanCores, BootPCs, SchedPCs
<1>4. TaskOnOneCore' /\ StateMatchesCurrent'
  BY DEF TaskOnOneCore, StateMatchesCurrent, BootIsQuiet, ScanKnows, CurrentIsSet, BootPCs, SchedPCs
<1>5. ScanKnows' /\ SwitchIsClaimed'
  BY DEF ScanKnows, SwitchIsClaimed, BootIsQuiet, BootPCs, SchedPCs
<1>6. ContextsAtHome'
  BY DEF ContextsAtHome, Slot
<1>7. OldOnlyWhileRunning'
  BY DEF OldOnlyWhileRunning
<1>8. SliceNeverWraps'
  BY DEF SliceNeverWraps
<1> QED
  BY <1>1, <1>2, <1>3, <1>4, <1>5, <1>6, <1>7, <1>8

\* Releasing print_lock and enabling interrupts keeps the invariant.
LEMMA EnterLoopKeeps ==
  ASSUME IInv, NoBootRace, NEW c \in Cores, EnterLoop(c)
  PROVE  IInv'
<1> USE CoresAreTasks, ConstantsAssumption DEF IInv, TypeOK, EnterLoop, PrintLock!Release, Goto
<1>1. TypeOK'
  BY DEF PCs
<1>2. LocksHeld' /\ CurrentIsSet'
  BY DEF LocksHeld, CurrentIsSet
<1>3. BootIsQuiet' /\ MoreTasksThanCores'
  BY DEF BootIsQuiet, MoreTasksThanCores, BootPCs, SchedPCs
<1>4. TaskOnOneCore' /\ StateMatchesCurrent'
  BY DEF TaskOnOneCore, StateMatchesCurrent
<1>5. ScanKnows' /\ SwitchIsClaimed'
  BY DEF ScanKnows, SwitchIsClaimed
<1>6. ContextsAtHome'
  BY DEF ContextsAtHome, Slot
<1>7. OldOnlyWhileRunning'
  BY DEF OldOnlyWhileRunning
<1>8. SliceNeverWraps'
  BY DEF SliceNeverWraps
<1> QED
  BY <1>1, <1>2, <1>3, <1>4, <1>5, <1>6, <1>7, <1>8

\* Taking the timer interrupt keeps the invariant.
LEMMA IrqKeeps ==
  ASSUME IInv, NoBootRace, NEW c \in Cores, Irq(c)
  PROVE  IInv'
<1> USE CoresAreTasks, ConstantsAssumption DEF IInv, TypeOK, Irq, SaveCpuCtx, Goto
<1>1. TypeOK'
  BY DEF PCs
<1>2. LocksHeld' /\ CurrentIsSet'
  BY DEF LocksHeld, CurrentIsSet
<1>3. BootIsQuiet' /\ MoreTasksThanCores'
  BY DEF BootIsQuiet, MoreTasksThanCores, BootPCs, SchedPCs
<1>4. TaskOnOneCore' /\ StateMatchesCurrent'
  BY DEF TaskOnOneCore, StateMatchesCurrent
<1>5. ScanKnows' /\ SwitchIsClaimed'
  BY DEF ScanKnows, SwitchIsClaimed
<1>6. ContextsAtHome'
  BY DEF ContextsAtHome, Slot
<1>7. OldOnlyWhileRunning'
  BY DEF OldOnlyWhileRunning
<1>8. SliceNeverWraps'
  BY DEF SliceNeverWraps
<1> QED
  BY <1>1, <1>2, <1>3, <1>4, <1>5, <1>6, <1>7, <1>8

\* A system call keeps the invariant.
LEMMA SvcKeeps ==
  ASSUME IInv, NoBootRace, NEW c \in Cores, Svc(c)
  PROVE  IInv'
<1> USE CoresAreTasks, ConstantsAssumption DEF IInv, TypeOK, Svc, SaveCpuCtx, Goto
<1>1. TypeOK'
  BY ZenonT(60), SMTT(60) DEF PCs
<1>2. LocksHeld' /\ CurrentIsSet'
  BY DEF LocksHeld, CurrentIsSet
<1>3. BootIsQuiet' /\ MoreTasksThanCores'
  BY DEF BootIsQuiet, MoreTasksThanCores, BootPCs, SchedPCs
<1>4. TaskOnOneCore' /\ StateMatchesCurrent'
  BY DEF TaskOnOneCore, StateMatchesCurrent
<1>5. ScanKnows' /\ SwitchIsClaimed'
  BY DEF ScanKnows, SwitchIsClaimed
<1>6. ContextsAtHome'
  BY DEF ContextsAtHome, Slot
<1>7. OldOnlyWhileRunning'
  BY DEF OldOnlyWhileRunning
<1>8. SliceNeverWraps'
  BY DEF SliceNeverWraps
<1> QED
  BY <1>1, <1>2, <1>3, <1>4, <1>5, <1>6, <1>7, <1>8

\* The return from putc or debug keeps the invariant.
LEMMA SvcReturnKeeps ==
  ASSUME IInv, NoBootRace, NEW c \in Cores, SvcReturn(c)
  PROVE  IInv'
<1> USE CoresAreTasks, ConstantsAssumption DEF IInv, TypeOK, SvcReturn, Resume, Goto
<1>1. TypeOK'
  BY DEF PCs
<1>2. LocksHeld' /\ CurrentIsSet'
  BY DEF LocksHeld, CurrentIsSet
<1>3. BootIsQuiet' /\ MoreTasksThanCores'
  BY DEF BootIsQuiet, MoreTasksThanCores, BootPCs, SchedPCs
<1>4. TaskOnOneCore' /\ StateMatchesCurrent'
  BY DEF TaskOnOneCore, StateMatchesCurrent
<1>5. ScanKnows' /\ SwitchIsClaimed'
  BY DEF ScanKnows, SwitchIsClaimed
<1>6. ContextsAtHome'
  BY DEF ContextsAtHome, Slot
<1>7. OldOnlyWhileRunning'
  <2>1. current[c] \in Tasks /\ regs[c] \in Home(current[c])
    BY DEF CurrentIsSet, ContextsAtHome, Slot
  <2> QED
    BY <2>1, ResumeMakesOneOld
<1>8. SliceNeverWraps'
  BY DEF SliceNeverWraps
<1> QED
  BY <1>1, <1>2, <1>3, <1>4, <1>5, <1>6, <1>7, <1>8

\* Seeing a character in getc keeps the invariant.
LEMMA GetcPollKeeps ==
  ASSUME IInv, NoBootRace, NEW c \in Cores, GetcPoll(c)
  PROVE  IInv'
<1> USE CoresAreTasks, ConstantsAssumption DEF IInv, TypeOK, GetcPoll, Goto
<1>1. TypeOK'
  BY DEF PCs
<1>2. LocksHeld' /\ CurrentIsSet'
  BY DEF LocksHeld, CurrentIsSet
<1>3. BootIsQuiet' /\ MoreTasksThanCores'
  BY DEF BootIsQuiet, MoreTasksThanCores, BootPCs, SchedPCs
<1>4. TaskOnOneCore' /\ StateMatchesCurrent'
  BY DEF TaskOnOneCore, StateMatchesCurrent
<1>5. ScanKnows' /\ SwitchIsClaimed'
  BY DEF ScanKnows, SwitchIsClaimed
<1>6. ContextsAtHome'
  BY DEF ContextsAtHome, Slot
<1>7. OldOnlyWhileRunning'
  BY DEF OldOnlyWhileRunning
<1>8. SliceNeverWraps'
  BY DEF SliceNeverWraps
<1> QED
  BY <1>1, <1>2, <1>3, <1>4, <1>5, <1>6, <1>7, <1>8

\* The return from getc keeps the invariant.
LEMMA GetcReturnKeeps ==
  ASSUME IInv, NoBootRace, NEW c \in Cores, GetcReturn(c)
  PROVE  IInv'
<1> USE CoresAreTasks, ConstantsAssumption DEF IInv, TypeOK, GetcReturn, Resume, Goto
<1>1. TypeOK'
  BY DEF PCs
<1>2. LocksHeld' /\ CurrentIsSet'
  BY DEF LocksHeld, CurrentIsSet
<1>3. BootIsQuiet' /\ MoreTasksThanCores'
  BY DEF BootIsQuiet, MoreTasksThanCores, BootPCs, SchedPCs
<1>4. TaskOnOneCore' /\ StateMatchesCurrent'
  BY DEF TaskOnOneCore, StateMatchesCurrent
<1>5. ScanKnows' /\ SwitchIsClaimed'
  BY DEF ScanKnows, SwitchIsClaimed
<1>6. ContextsAtHome'
  BY DEF ContextsAtHome, Slot
<1>7. OldOnlyWhileRunning'
  <2>1. current[c] \in Tasks /\ regs[c] \in Home(current[c])
    BY DEF CurrentIsSet, ContextsAtHome, Slot
  <2> QED
    BY <2>1, ResumeMakesOneOld
<1>8. SliceNeverWraps'
  BY DEF SliceNeverWraps
<1> QED
  BY <1>1, <1>2, <1>3, <1>4, <1>5, <1>6, <1>7, <1>8

\* A fault of an application keeps the invariant.
LEMMA FaultKeeps ==
  ASSUME IInv, NoBootRace, NEW c \in Cores, Fault(c)
  PROVE  IInv'
<1> USE CoresAreTasks, ConstantsAssumption DEF IInv, TypeOK, Fault, SaveCpuCtx, Goto
<1>1. TypeOK'
  BY DEF PCs
<1>2. LocksHeld' /\ CurrentIsSet'
  BY DEF LocksHeld, CurrentIsSet
<1>3. BootIsQuiet' /\ MoreTasksThanCores'
  BY DEF BootIsQuiet, MoreTasksThanCores, BootPCs, SchedPCs
<1>4. TaskOnOneCore' /\ StateMatchesCurrent'
  BY DEF TaskOnOneCore, StateMatchesCurrent
<1>5. ScanKnows' /\ SwitchIsClaimed'
  BY DEF ScanKnows, SwitchIsClaimed
<1>6. ContextsAtHome'
  BY DEF ContextsAtHome, Slot
<1>7. OldOnlyWhileRunning'
  BY DEF OldOnlyWhileRunning
<1>8. SliceNeverWraps'
  BY DEF SliceNeverWraps
<1> QED
  BY <1>1, <1>2, <1>3, <1>4, <1>5, <1>6, <1>7, <1>8

\* A tick inside the slice keeps the invariant.
LEMMA TickReturnKeeps ==
  ASSUME IInv, NoBootRace, NEW c \in Cores, TickReturn(c)
  PROVE  IInv'
<1> USE CoresAreTasks, ConstantsAssumption DEF IInv, TypeOK, TickReturn, Resume, Goto
<1>0. /\ current[c] \in Tasks
      /\ Decremented(c) \in 1 .. SYS_TASK_TICK
      /\ Decremented(c) \in 0 .. CounterModulus - 1
  <2>1. current[c] \in Tasks /\ counter[current[c]] \in 1 .. SYS_TASK_TICK
    BY DEF CurrentIsSet, SliceNeverWraps
  <2> QED
    BY <2>1, DecrementedIs
<1>1. TypeOK'
  <2>1. pc' \in [Cores -> PCs] /\ regs' = regs /\ stale' \subseteq Tasks
    BY DEF PCs
  <2> QED
    BY <1>0, <2>1
<1>2. LocksHeld' /\ CurrentIsSet'
  BY DEF LocksHeld, CurrentIsSet
<1>3. BootIsQuiet' /\ MoreTasksThanCores'
  BY DEF BootIsQuiet, MoreTasksThanCores, BootPCs, SchedPCs
<1>4. TaskOnOneCore' /\ StateMatchesCurrent'
  BY DEF TaskOnOneCore, StateMatchesCurrent
<1>5. ScanKnows' /\ SwitchIsClaimed'
  BY DEF ScanKnows, SwitchIsClaimed
<1>6. ContextsAtHome'
  BY DEF ContextsAtHome, Slot
<1>7. OldOnlyWhileRunning'
  <2>1. current[c] \in Tasks /\ regs[c] \in Home(current[c])
    BY DEF CurrentIsSet, ContextsAtHome, Slot
  <2> QED
    BY <2>1, ResumeMakesOneOld
<1>8. SliceNeverWraps'
  BY <1>0 DEF SliceNeverWraps
<1> QED
  BY <1>1, <1>2, <1>3, <1>4, <1>5, <1>6, <1>7, <1>8

\* The end of a slice keeps the invariant: with the timing assumption no core
\* is still booting; otherwise there is no other core, or nothing to schedule.
LEMMA SliceEndKeeps ==
  ASSUME IInv, NoBootRace, NEW c \in Cores, SliceEnd(c)
  PROVE  IInv'
<1> USE CoresAreTasks, ConstantsAssumption DEF IInv, TypeOK, SliceEnd, Resume, Goto
<1>1. TypeOK'
  BY DEF PCs, BootPCs, SchedPCs, ContextsAtHome, CurrentIsSet, SwitchIsClaimed, Slot
<1>2. LocksHeld' /\ CurrentIsSet'
  BY DEF LocksHeld, CurrentIsSet
<1>3. BootIsQuiet' /\ MoreTasksThanCores'
  <2>1. CASE TASK_COUNT = SMP_NUM
    BY <2>1 DEF BootIsQuiet, MoreTasksThanCores, BootPCs, SchedPCs
  <2>2. CASE TASK_COUNT # SMP_NUM
    <3>1. SMP_NUM < TASK_COUNT
      BY <2>2
    <3>2. \A d \in Cores : pc'[d] \notin BootPCs
      BY <2>2, SMTT(60), ZenonT(60) DEF NoBootRace, Timing, Cores, BootPCs
    <3> QED
      BY <3>1, <3>2 DEF BootIsQuiet, MoreTasksThanCores
  <2> QED
    BY <2>1, <2>2
<1>4. TaskOnOneCore' /\ StateMatchesCurrent'
  BY DEF TaskOnOneCore, StateMatchesCurrent
<1>5. ScanKnows' /\ SwitchIsClaimed'
  BY DEF ScanKnows, SwitchIsClaimed
<1>6. ContextsAtHome'
  BY DEF ContextsAtHome, Slot
<1>7. OldOnlyWhileRunning'
  <2>1. current[c] \in Tasks /\ regs[c] \in Home(current[c])
    BY DEF CurrentIsSet, ContextsAtHome, Slot
  <2>2. CASE TASK_COUNT = SMP_NUM
    BY <2>1, <2>2, ResumeMakesOneOld
  <2>3. CASE TASK_COUNT # SMP_NUM
    BY <2>3 DEF OldOnlyWhileRunning
  <2> QED
    BY <2>2, <2>3
<1>8. SliceNeverWraps'
  BY DEF SliceNeverWraps
<1> QED
  BY <1>1, <1>2, <1>3, <1>4, <1>5, <1>6, <1>7, <1>8

\* spin_lock(&lock) of _schedule keeps the invariant.
LEMMA AcquireLockKeeps ==
  ASSUME IInv, NoBootRace, NEW c \in Cores, AcquireLock(c)
  PROVE  IInv'
<1> USE CoresAreTasks, ConstantsAssumption DEF IInv, TypeOK, AcquireLock, SchedLock!Acquire, Goto
<1>1. TypeOK'
  BY DEF PCs, SchedPCs
<1>2. LocksHeld' /\ CurrentIsSet'
  BY DEF LocksHeld, CurrentIsSet
<1>3. BootIsQuiet' /\ MoreTasksThanCores'
  BY DEF BootIsQuiet, MoreTasksThanCores, BootPCs, SchedPCs
<1>4. TaskOnOneCore' /\ StateMatchesCurrent'
  BY DEF TaskOnOneCore, StateMatchesCurrent
<1>5. ScanKnows' /\ SwitchIsClaimed'
  BY DEF ScanKnows, SwitchIsClaimed, MoreTasksThanCores, SchedPCs
<1>6. ContextsAtHome'
  BY DEF ContextsAtHome, Slot
<1>7. OldOnlyWhileRunning'
  BY DEF OldOnlyWhileRunning
<1>8. SliceNeverWraps'
  BY DEF SliceNeverWraps
<1> QED
  BY <1>1, <1>2, <1>3, <1>4, <1>5, <1>6, <1>7, <1>8

\* Skipping a running task keeps the invariant: with more tasks than cores the
\* scan cannot run out of tasks, so the loop is not left this way.
LEMMA ScanSkipKeeps ==
  ASSUME IInv, NoBootRace, NEW c \in Cores, ScanSkip(c)
  PROVE  IInv'
<1> USE CoresAreTasks, ConstantsAssumption DEF IInv, TypeOK, ScanSkip, Goto
<1>0. current[c] \in Tasks /\ Candidate(c) \in Tasks
  <2>1. current[c] \in Tasks /\ i[c] \in 1 .. TASK_COUNT - 1
    BY DEF CurrentIsSet, ScanKnows
  <2> QED
    BY <2>1, CandidateIsOtherTask
<1>a. i[c] \in 1 .. TASK_COUNT - 1 /\ i[c] + 1 < TASK_COUNT
  <2>1. i[c] \in 1 .. TASK_COUNT - 1 /\ SMP_NUM < TASK_COUNT
    BY DEF ScanKnows, MoreTasksThanCores, SchedPCs
  <2>2. SUFFICES ASSUME i[c] = TASK_COUNT - 1 PROVE FALSE
    BY <2>1
  <2>3. PICK t \in Tasks : \A d \in Cores : current[d] # t
    BY <2>1, SomeTaskHasNoCore
  <2>4. state[t] = "WAITING"
    BY <2>3 DEF StateMatchesCurrent
  <2>5. PICK j \in 1 .. TASK_COUNT - 1 : (current[c] + j) % TASK_COUNT = t
    BY <1>0, <2>3, ScanSeesAll
  <2>6. j \in 1 .. i[c] - 1 \/ j = i[c]
    BY <2>2, <2>5
  <2> QED
    BY <2>4, <2>5, <2>6 DEF ScanKnows, Candidate
<1>1. TypeOK'
  <2>1. i[c] + 1 \in 0 .. TASK_COUNT
    BY <1>a
  <2> QED
    BY <1>0, <2>1 DEF PCs, SchedPCs
<1>2. LocksHeld' /\ CurrentIsSet'
  BY DEF LocksHeld, CurrentIsSet
<1>3. BootIsQuiet' /\ MoreTasksThanCores'
  BY DEF BootIsQuiet, MoreTasksThanCores, BootPCs, SchedPCs
<1>4. TaskOnOneCore' /\ StateMatchesCurrent'
  BY DEF TaskOnOneCore, StateMatchesCurrent
<1>5. ScanKnows' /\ SwitchIsClaimed'
  <2>1. /\ pc'[c] = "scan" /\ i'[c] \in 1 .. TASK_COUNT - 1
        /\ \A j \in 1 .. i'[c] - 1 : j \in 1 .. i[c] - 1 \/ j = i[c]
    BY <1>a
  <2>2. \A j \in 1 .. i'[c] - 1 : state[(current[c] + j) % TASK_COUNT] = "RUNNING"
    BY <2>1 DEF ScanKnows, Candidate
  <2>3. ScanKnows'
    BY <2>1, <2>2 DEF ScanKnows, LocksHeld
  <2>4. SwitchIsClaimed'
    BY <2>1 DEF SwitchIsClaimed
  <2> QED
    BY <2>3, <2>4
<1>6. ContextsAtHome'
  BY DEF ContextsAtHome, Slot
<1>7. OldOnlyWhileRunning'
  BY DEF OldOnlyWhileRunning
<1>8. SliceNeverWraps'
  BY DEF SliceNeverWraps
<1> QED
  BY <1>1, <1>2, <1>3, <1>4, <1>5, <1>6, <1>7, <1>8

\* Finding a waiting task keeps the invariant.
LEMMA ScanFindKeeps ==
  ASSUME IInv, NoBootRace, NEW c \in Cores, ScanFind(c)
  PROVE  IInv'
<1> USE CoresAreTasks, ConstantsAssumption DEF IInv, TypeOK, ScanFind, Goto
<1>0. current[c] \in Tasks /\ Candidate(c) \in Tasks
  <2>1. current[c] \in Tasks /\ i[c] \in 1 .. TASK_COUNT - 1
    BY DEF CurrentIsSet, ScanKnows
  <2> QED
    BY <2>1, CandidateIsOtherTask
<1>1. TypeOK'
  BY <1>0 DEF PCs, SchedPCs
<1>2. LocksHeld' /\ CurrentIsSet'
  BY DEF LocksHeld, CurrentIsSet
<1>3. BootIsQuiet' /\ MoreTasksThanCores'
  BY DEF BootIsQuiet, MoreTasksThanCores, BootPCs, SchedPCs
<1>4. TaskOnOneCore' /\ StateMatchesCurrent'
  BY DEF TaskOnOneCore, StateMatchesCurrent
<1>5. ScanKnows' /\ SwitchIsClaimed'
  <2>1. ScanKnows'
    BY <1>0 DEF ScanKnows, LocksHeld
  <2>2. SwitchIsClaimed'
    BY DEF SwitchIsClaimed
  <2> QED
    BY <2>1, <2>2
<1>6. ContextsAtHome'
  BY DEF ContextsAtHome, Slot
<1>7. OldOnlyWhileRunning'
  BY DEF OldOnlyWhileRunning
<1>8. SliceNeverWraps'
  BY DEF SliceNeverWraps
<1> QED
  BY <1>1, <1>2, <1>3, <1>4, <1>5, <1>6, <1>7, <1>8

\* Claiming the task keeps the invariant: it was waiting, so no core is on it.
LEMMA ClaimKeeps ==
  ASSUME IInv, NoBootRace, NEW c \in Cores, Claim(c)
  PROVE  IInv'
<1> USE CoresAreTasks, ConstantsAssumption DEF IInv, TypeOK, Claim, Goto
<1>1. TypeOK'
  BY DEF PCs, SchedPCs
<1>2. LocksHeld' /\ CurrentIsSet'
  BY DEF LocksHeld, CurrentIsSet, ScanKnows
<1>3. BootIsQuiet' /\ MoreTasksThanCores'
  BY DEF BootIsQuiet, MoreTasksThanCores, BootPCs, SchedPCs
<1>4. TaskOnOneCore' /\ StateMatchesCurrent'
  BY DEF TaskOnOneCore, StateMatchesCurrent, BootIsQuiet, ScanKnows, BootPCs, SchedPCs
<1>5. ScanKnows' /\ SwitchIsClaimed'
  BY DEF ScanKnows, SwitchIsClaimed, LocksHeld
<1>6. ContextsAtHome'
  BY DEF ContextsAtHome, Slot
<1>7. OldOnlyWhileRunning'
  BY DEF OldOnlyWhileRunning
<1>8. SliceNeverWraps'
  BY DEF SliceNeverWraps
<1> QED
  BY <1>1, <1>2, <1>3, <1>4, <1>5, <1>6, <1>7, <1>8

\* spin_unlock(&lock) keeps the invariant.
LEMMA ReleaseLockKeeps ==
  ASSUME IInv, NoBootRace, NEW c \in Cores, ReleaseLock(c)
  PROVE  IInv'
<1> USE CoresAreTasks, ConstantsAssumption DEF IInv, TypeOK, ReleaseLock, SchedLock!Release, Goto
<1>1. TypeOK'
  BY DEF PCs, SchedPCs
<1>2. LocksHeld' /\ CurrentIsSet'
  BY DEF LocksHeld, CurrentIsSet
<1>3. BootIsQuiet' /\ MoreTasksThanCores'
  BY DEF BootIsQuiet, MoreTasksThanCores, BootPCs, SchedPCs
<1>4. TaskOnOneCore' /\ StateMatchesCurrent'
  BY DEF TaskOnOneCore, StateMatchesCurrent
<1>5. ScanKnows' /\ SwitchIsClaimed'
  BY DEF ScanKnows, SwitchIsClaimed
<1>6. ContextsAtHome'
  BY DEF ContextsAtHome, Slot
<1>7. OldOnlyWhileRunning'
  BY DEF OldOnlyWhileRunning
<1>8. SliceNeverWraps'
  BY DEF SliceNeverWraps
<1> QED
  BY <1>1, <1>2, <1>3, <1>4, <1>5, <1>6, <1>7, <1>8

\* Loading the context keeps the invariant: it is the claimed task's.
LEMMA SwitchKeeps ==
  ASSUME IInv, NoBootRace, NEW c \in Cores, Switch(c)
  PROVE  IInv'
<1> USE CoresAreTasks, ConstantsAssumption DEF IInv, TypeOK, Switch, Resume, Goto
<1>1. TypeOK'
  BY DEF PCs
<1>2. LocksHeld' /\ CurrentIsSet'
  BY DEF LocksHeld, CurrentIsSet
<1>3. BootIsQuiet' /\ MoreTasksThanCores'
  BY DEF BootIsQuiet, MoreTasksThanCores, BootPCs, SchedPCs
<1>4. TaskOnOneCore' /\ StateMatchesCurrent'
  BY DEF TaskOnOneCore, StateMatchesCurrent
<1>5. ScanKnows' /\ SwitchIsClaimed'
  BY DEF ScanKnows, SwitchIsClaimed
<1>6. ContextsAtHome'
  BY DEF ContextsAtHome, Slot, SwitchIsClaimed
<1>7. OldOnlyWhileRunning'
  <2>1. next[c] = current[c] /\ current[c] \in Tasks /\ ctx[current[c]] \in Home(current[c])
    BY DEF SwitchIsClaimed, ContextsAtHome
  <2>2. Resume(c, ctx[current[c]])
    BY <2>1 DEF SwitchIsClaimed
  <2> QED
    BY <2>1, <2>2, ResumeMakesOneOld
<1>8. SliceNeverWraps'
  BY DEF SliceNeverWraps
<1> QED
  BY <1>1, <1>2, <1>3, <1>4, <1>5, <1>6, <1>7, <1>8

\* A typed character disturbs nothing.
LEMMA CharArrivesKeeps ==
  ASSUME IInv, CharArrives
  PROVE  IInv'
BY DEF IInv, CharArrives, TypeOK, LocksHeld, CurrentIsSet, BootIsQuiet, MoreTasksThanCores,
       TaskOnOneCore, StateMatchesCurrent, ScanKnows, SwitchIsClaimed, ContextsAtHome, Slot,
       OldOnlyWhileRunning, SliceNeverWraps

\* Neither does a stuttering step.
LEMMA StutterKeeps ==
  ASSUME IInv, UNCHANGED vars
  PROVE  IInv'
BY DEF IInv, vars, TypeOK, LocksHeld, CurrentIsSet, BootIsQuiet, MoreTasksThanCores,
       TaskOnOneCore, StateMatchesCurrent, ScanKnows, SwitchIsClaimed, ContextsAtHome, Slot,
       OldOnlyWhileRunning, SliceNeverWraps

\* Every step of every core keeps the invariant.
LEMMA SchedulerStep ==
  ASSUME NoBootRace
  PROVE  IInv /\ [Next]_vars => IInv'
<1> SUFFICES ASSUME IInv, [Next]_vars PROVE IInv'
  OBVIOUS
<1>1. ASSUME NEW c \in Cores, Boot(c) PROVE IInv'
  BY <1>1, AcquirePrintLockKeeps, SetCurrentKeeps, SetRunningKeeps, EnterLoopKeeps DEF Boot
<1>2. ASSUME NEW c \in Cores, Irq(c) \/ Svc(c) \/ Fault(c) PROVE IInv'
  BY <1>2, IrqKeeps, SvcKeeps, FaultKeeps
<1>3. ASSUME NEW c \in Cores, Kernel(c) PROVE IInv'
  BY <1>3, SvcReturnKeeps, GetcPollKeeps, GetcReturnKeeps, TickReturnKeeps, SliceEndKeeps, AcquireLockKeeps,
     ScanSkipKeeps, ScanFindKeeps, ClaimKeeps, ReleaseLockKeeps, SwitchKeeps DEF Kernel
<1>4. CASE CharArrives
  BY <1>4, CharArrivesKeeps
<1>5. CASE UNCHANGED vars
  BY <1>5, StutterKeeps
<1> QED
  BY <1>1, <1>2, <1>3, <1>4, <1>5 DEF Next

-----------------------------------------------------------------------------
(* The theorems *)

\* The inductive invariant of the scheduler holds throughout every execution,
\* for every number of cores, tasks and ticks.
THEOREM SchedulerInvariant ==
  ASSUME NoBootRace
  PROVE  Spec => []IInv
BY SchedulerInit, SchedulerStep, PTL DEF Spec

\* Two cores are never on one task.
THEOREM SchedulerTaskOnOneCore ==
  ASSUME NoBootRace
  PROVE  Spec => []TaskOnOneCore
<1>1. IInv => TaskOnOneCore
  BY DEF IInv
<1> QED
  BY <1>1, SchedulerInvariant, PTL

\* task_list's states and the cores' current_thread agree.
THEOREM SchedulerStateMatchesCurrent ==
  ASSUME NoBootRace
  PROVE  Spec => []StateMatchesCurrent
<1>1. IInv => StateMatchesCurrent
  BY DEF IInv
<1> QED
  BY <1>1, SchedulerInvariant, PTL

\* _schedule never reaches the switch with a task it has not claimed, although
\* its test for -1 would not notice: by counting, a scan over more tasks than
\* cores finds a waiting one.
THEOREM SchedulerSwitchIsClaimed ==
  ASSUME NoBootRace
  PROVE  Spec => []SwitchIsClaimed
<1>1. IInv => SwitchIsClaimed
  BY DEF IInv
<1> QED
  BY <1>1, SchedulerInvariant, PTL

\* The unsigned slice counter never wraps.
THEOREM SchedulerSliceNeverWraps ==
  ASSUME NoBootRace
  PROVE  Spec => []SliceNeverWraps
<1>1. IInv => SliceNeverWraps
  BY DEF IInv
<1> QED
  BY <1>1, SchedulerInvariant, PTL

\* Saved contexts stay in the slots of their tasks, and a core outside the
\* kernel executes the program of the task it is on.
THEOREM SchedulerRunsItsOwnTask ==
  ASSUME NoBootRace
  PROVE  Spec => []RunsItsOwnTask
<1>1. IInv => RunsItsOwnTask
  BY CoresAreTasks DEF IInv, RunsItsOwnTask, ContextsAtHome, CurrentIsSet, Slot
<1> QED
  BY <1>1, SchedulerInvariant, PTL

\* Two cores never execute the same program.
THEOREM SchedulerProgramOnOneCore ==
  ASSUME NoBootRace
  PROVE  Spec => []ProgramOnOneCore
<1>1. IInv => ProgramOnOneCore
  <2> SUFFICES ASSUME IInv, NEW c \in Cores, NEW d \in Cores,
                      pc[c] = "run", pc[d] = "run", regs[c] = regs[d]
               PROVE  c = d
    BY DEF ProgramOnOneCore
  <2>1. /\ current[c] \in Tasks /\ regs[c] \in Home(current[c])
        /\ current[d] \in Tasks /\ regs[d] \in Home(current[d])
    BY DEF IInv, TypeOK, CurrentIsSet, ContextsAtHome, Slot
  <2>2. current[c] = current[d]
    BY <2>1, HomesDisjoint
  <2> QED
    BY <2>1, <2>2, CoresAreTasks DEF IInv, TaskOnOneCore
<1> QED
  BY <1>1, SchedulerInvariant, PTL

\* The context that a switch loads is the latest one of its task.
THEOREM SchedulerLoadsLatestContext ==
  ASSUME NoBootRace
  PROVE  Spec => []LoadsLatestContext
<1>1. IInv => LoadsLatestContext
  <2> SUFFICES ASSUME IInv, NEW c \in Cores, pc[c] = "switch", next[c] \in stale
               PROVE  FALSE
    BY DEF LoadsLatestContext
  <2>1. next[c] = current[c] /\ current[c] # NoTask
    BY DEF IInv, SwitchIsClaimed
  <2>2. PICK d \in Cores : current[d] = next[c] /\ pc[d] = "run"
    BY DEF IInv, OldOnlyWhileRunning
  <2> QED
    BY <2>1, <2>2 DEF IInv, TaskOnOneCore
<1> QED
  BY <1>1, SchedulerInvariant, PTL

\* A task leaves the processor only by a hand-over of its own core under the lock.
THEOREM SchedulerHandsOver ==
  ASSUME NoBootRace
  PROVE  Spec => HandsOver
<1>1. IInv /\ [Next]_vars => [HandsOverStep]_vars
  <2> SUFFICES ASSUME IInv, Next PROVE HandsOverStep
    OBVIOUS
  <2>1. ASSUME NEW c \in Cores, Claim(c) PROVE HandsOverStep
    <3>1. /\ lock = c /\ current'[c] = next[c] /\ next[c] \in Tasks
          /\ state[next[c]] = "WAITING" /\ state'[next[c]] = "RUNNING"
      BY <2>1 DEF IInv, TypeOK, LocksHeld, ScanKnows, Claim
    <3>2. ASSUME NEW t \in Tasks, state[t] = "RUNNING", state'[t] = "WAITING"
          PROVE  current[c] = t
      BY <2>1, <3>2 DEF IInv, TypeOK, Claim
    <3> QED
      BY <3>1, <3>2 DEF HandsOverStep
  <2>2. ASSUME NEW c \in Cores, SetRunning(c) PROVE HandsOverStep
    BY <2>2, CoresAreTasks DEF IInv, TypeOK, SetRunning, HandsOverStep
  <2>3. CASE UNCHANGED state
    BY <2>3 DEF HandsOverStep
  <2> QED
    BY <2>1, <2>2, <2>3 DEF Next, Boot, Kernel, AcquirePrintLock, SetCurrent, EnterLoop, Irq, Svc,
       SvcReturn, GetcPoll, GetcReturn, Fault, TickReturn, SliceEnd, AcquireLock, ScanSkip, ScanFind,
       ReleaseLock, Switch, CharArrives
<1> QED
  BY <1>1, SchedulerInvariant, PTL DEF Spec, HandsOver

\* The scheduler implements CoreAssignment: schedule_init_local is Start, the
\* claim of _schedule is HandOver, and every other step is invisible.
THEOREM SchedulerRefinement ==
  ASSUME NoBootRace
  PROVE  Spec => ImplementsAssignment
<1>1. Init => Assignment!Init
  BY DEF Init, Assignment!Init
<1>2. IInv /\ [Next]_vars => [Assignment!Next]_current
  <2> SUFFICES ASSUME IInv, [Next]_vars PROVE [Assignment!Next]_current
    OBVIOUS
  <2>1. ASSUME NEW c \in Cores, SetCurrent(c) PROVE Assignment!Start(c)
    <3>1. current[c] = NoTask
      BY <2>1 DEF SetCurrent, IInv, CurrentIsSet
    <3>2. \A d \in Cores : current[d] # c
      BY <2>1, <3>1, CoresAreTasks DEF SetCurrent, IInv, BootIsQuiet, BootPCs
    <3> QED
      BY <2>1, <3>1, <3>2 DEF SetCurrent, Assignment!Start, Assignment!Busy
  <2>2. ASSUME NEW c \in Cores, Claim(c) PROVE Assignment!HandOver(c)
    <3>1. current[c] # NoTask /\ next[c] \in Tasks
      BY <2>2 DEF Claim, IInv, CurrentIsSet, ScanKnows
    <3>2. \A d \in Cores : current[d] # next[c]
      BY <2>2 DEF Claim, IInv, ScanKnows, StateMatchesCurrent, BootIsQuiet, BootPCs, SchedPCs
    <3> QED
      BY <2>2, <3>1, <3>2 DEF Claim, Assignment!HandOver, Assignment!Busy
  <2>3. CASE UNCHANGED current
    BY <2>3
  <2> QED
    BY <2>1, <2>2, <2>3 DEF Next, vars, Boot, Kernel, AcquirePrintLock, SetRunning, EnterLoop, Irq,
       Svc, SvcReturn, GetcPoll, GetcReturn, Fault, TickReturn, SliceEnd, AcquireLock, ScanSkip, ScanFind,
       ReleaseLock, Switch, CharArrives, Assignment!Next
<1> QED
  BY <1>1, <1>2, SchedulerInvariant, PTL DEF Spec, ImplementsAssignment, Assignment!Spec
=============================================================================
