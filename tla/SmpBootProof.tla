---------------------------- MODULE SmpBootProof ----------------------------
(***************************************************************************)
(* For any number of cores: the boot barrier holds, no increment is lost,  *)
(* every thread_info is written before its core needs it and is not        *)
(* overwritten afterwards, and the task list is complete and fixed when    *)
(* the first core starts to use it.                                        *)
(***************************************************************************)
EXTENDS SmpBoot, FiniteSetTheorems, TLAPS

\* Core 0 exists, and every core has a slot of its own in task_list.
LEMMA CoreFacts == 0 \in Cores /\ Cores \subseteq Slots /\ NoCore \notin Cores
BY BootAssumption DEF Cores, Slots, NoCore

CountedCores == {c \in Cores : Counted(c)}

\* The cores that have counted themselves are finitely many, and all of them
\* have done so exactly when there are SMP_NUM of them.
LEMMA CountedFacts ==
  /\ IsFiniteSet(CountedCores)
  /\ Cardinality(CountedCores) \in 0 .. SMP_NUM
  /\ Cardinality(CountedCores) = SMP_NUM => \A c \in Cores : Counted(c)
<1>1. IsFiniteSet(Cores) /\ Cardinality(Cores) = SMP_NUM
  BY FS_Interval, BootAssumption DEF Cores
<1>2. CountedCores \in SUBSET Cores
  BY DEF CountedCores
<1>3. /\ IsFiniteSet(CountedCores)
      /\ Cardinality(CountedCores) <= SMP_NUM
      /\ Cardinality(CountedCores) = SMP_NUM => Cores = CountedCores
  BY <1>1, <1>2, FS_Subset
<1>4. Cardinality(CountedCores) \in Nat
  BY <1>3, FS_CardinalityType
<1> QED
  BY <1>3, <1>4, BootAssumption DEF CountedCores

\* A step that leaves every core's count status alone keeps the count exact.
LEMMA CountUnchanged ==
  ASSUME CountIsExact, inited_cpu_num' = inited_cpu_num,
         \A c \in Cores : Counted(c)' <=> Counted(c)
  PROVE  CountIsExact'
<1>1. {c \in Cores : Counted(c)}' = {c \in Cores : Counted(c)}
  OBVIOUS
<1> QED
  BY <1>1 DEF CountIsExact

\* Initially core 0 is alone and nothing has been counted.
LEMMA BootInit == Init => IInv
<1> SUFFICES ASSUME Init PROVE IInv
  OBVIOUS
<1> USE CoreFacts, BootAssumption DEF Init, BootLock!Init
<1>1. TypeOK
  BY DEF TypeOK, EarlyPCs, Slots
<1>2. Roles /\ LoopPosition /\ ThreadInfos /\ Increment /\ TaskList
  BY DEF Roles, LoopPosition, ThreadInfos, Increment, TaskList, Unset, Cores
<1>3. CountIsExact
  <2>1. {c \in Cores : Counted(c)} = {}
    BY DEF Counted, LatePCs
  <2> QED
    BY <2>1, FS_EmptySet DEF CountIsExact
<1>4. BarrierHolds
  BY DEF BarrierHolds, LatePCs
<1> QED
  BY <1>1, <1>2, <1>3, <1>4 DEF IInv

\* kernel_main on core 0 keeps the invariant.
LEMMA KernelMainKeeps ==
  ASSUME IInv, KernelMain
  PROVE  IInv'
<1> USE CoreFacts, BootAssumption DEF IInv, TypeOK, KernelMain, ThreadInfoInit, Goto
<1>1. TypeOK'
  BY DEF EarlyPCs, BarrierPCs, LatePCs
<1>2. Roles' /\ LoopPosition'
  BY DEF Roles, LoopPosition, Cores
<1>3. ThreadInfos'
  BY DEF ThreadInfos, Cores, Unset
<1>4. Increment'
  BY DEF Increment, Roles, LoopPosition
<1>5. CountIsExact'
  BY CountUnchanged DEF Counted, LatePCs
<1>6. BarrierHolds'
  BY DEF BarrierHolds, Counted, LatePCs
<1>7. TaskList'
  BY DEF TaskList, Roles
<1> QED
  BY <1>1, <1>2, <1>3, <1>4, <1>5, <1>6, <1>7

\* CPU_ON keeps the invariant, granted or refused.
LEMMA CpuOnKeeps ==
  ASSUME IInv, CpuOn
  PROVE  IInv'
<1> USE CoreFacts, BootAssumption DEF IInv, TypeOK, CpuOn, Goto
<1>0. k \in Cores /\ k # 0 /\ k \in 1 .. SMP_NUM - 1
  BY DEF LoopPosition, Cores
<1>1. TypeOK'
  BY ZenonT(60), SMTT(60) DEF EarlyPCs, BarrierPCs, LatePCs
<1>2. Roles' /\ LoopPosition'
  BY DEF Roles, LoopPosition, Cores
<1>3. ThreadInfos'
  BY <1>0 DEF ThreadInfos, LoopPosition
<1>4. Increment'
  BY DEF Increment, Roles, LoopPosition
<1>5. CountIsExact'
  <2>1. \A c \in Cores : Counted(c)' <=> Counted(c)
    BY <1>0 DEF Counted, LatePCs, LoopPosition
  <2> QED
    BY <2>1, CountUnchanged
<1>6. BarrierHolds'
  BY DEF BarrierHolds, Counted, LatePCs
<1>7. TaskList'
  BY DEF TaskList, Roles
<1> QED
  BY <1>1, <1>2, <1>3, <1>4, <1>5, <1>6, <1>7

\* The late thread_info_init keeps the invariant: while core 0 has not counted
\* itself, the barrier keeps every other core from storing its current_thread.
LEMMA SecondThreadInfoKeeps ==
  ASSUME IInv, SecondThreadInfo
  PROVE  IInv'
<1> USE CoreFacts, BootAssumption DEF IInv, TypeOK, SecondThreadInfo, ThreadInfoInit, Goto
<1>0. k \in Cores /\ k # 0 /\ k \in 1 .. SMP_NUM - 1
  BY DEF LoopPosition, Cores
<1>1. TypeOK'
  <2>1. ti' \in [Cores -> [cpu : Cores \cup {Unset}, current : Slots \cup {NoTask, Unset}]]
    BY <1>0
  <2>2. k' \in 0 .. SMP_NUM
    BY <1>0
  <2> QED
    BY <2>1, <2>2 DEF EarlyPCs, BarrierPCs, LatePCs
<1>2. Roles' /\ LoopPosition'
  BY DEF Roles, LoopPosition, Cores
<1>3. ThreadInfos'
  <2>1. \A c \in Cores : pc[c] # "online" /\ pc'[c] # "online"
    BY DEF BarrierHolds, Counted, LatePCs
  <2>2. \A c \in Cores : ti'[c] = IF c = k THEN [cpu |-> c, current |-> NoTask] ELSE ti[c]
    BY <1>0
  <2>3. \A c \in Cores : c < k + 1 => c < k \/ c = k
    BY <1>0 DEF Cores
  <2>4. k + 1 < SMP_NUM \/ \A c \in Cores : c < k + 1
    BY <1>0 DEF Cores
  <2> QED
    BY <2>1, <2>2, <2>3, <2>4 DEF ThreadInfos
<1>4. Increment'
  BY DEF Increment, Roles, LoopPosition
<1>5. CountIsExact'
  BY CountUnchanged DEF Counted, LatePCs
<1>6. BarrierHolds'
  BY DEF BarrierHolds, Counted, LatePCs
<1>7. TaskList'
  BY DEF TaskList, Roles
<1> QED
  BY <1>1, <1>2, <1>3, <1>4, <1>5, <1>6, <1>7

\* schedule_init keeps the invariant.
LEMMA ScheduleInitKeeps ==
  ASSUME IInv, ScheduleInit
  PROVE  IInv'
<1> USE CoreFacts, BootAssumption DEF IInv, TypeOK, ScheduleInit, Goto
<1>1. TypeOK'
  BY DEF EarlyPCs, BarrierPCs, LatePCs
<1>2. Roles' /\ LoopPosition'
  BY DEF Roles, LoopPosition, Cores
<1>3. ThreadInfos'
  BY DEF ThreadInfos, Roles
<1>4. Increment'
  BY DEF Increment, Roles, LoopPosition
<1>5. CountIsExact'
  BY CountUnchanged DEF Counted, LatePCs
<1>6. BarrierHolds'
  BY DEF BarrierHolds, Counted, LatePCs
<1>7. TaskList'
  BY DEF TaskList, Slots
<1> QED
  BY <1>1, <1>2, <1>3, <1>4, <1>5, <1>6, <1>7

\* create_task keeps the invariant, also when the list is full.
LEMMA CreateTaskKeeps ==
  ASSUME IInv, CreateTask
  PROVE  IInv'
<1> USE CoreFacts, BootAssumption DEF IInv, TypeOK, CreateTask, Goto
<1>1. TypeOK'
  BY DEF EarlyPCs, BarrierPCs, LatePCs
<1>2. Roles' /\ LoopPosition'
  BY DEF Roles, LoopPosition, Cores
<1>3. ThreadInfos'
  BY DEF ThreadInfos, Roles
<1>4. Increment'
  BY DEF Increment, Roles, LoopPosition
<1>5. CountIsExact'
  BY CountUnchanged DEF Counted, LatePCs
<1>6. BarrierHolds'
  BY DEF BarrierHolds, Counted, LatePCs
<1>7. TaskList'
  <2>1. CASE task_count >= MAX_TASKS
    BY <2>1 DEF TaskList
  <2>2. CASE task_count < MAX_TASKS
    <3>1. task_count = calls /\ task_count' = calls + 1 /\ calls' = calls + 1 /\ calls + 1 <= MAX_TASKS
      BY <2>2 DEF TaskList
    <3>2. \A s \in Slots : id'[s] = IF s < task_count' THEN s ELSE NoTask
      BY <2>2, <3>1 DEF TaskList, Slots
    <3> QED
      BY <3>1, <3>2 DEF TaskList
  <2> QED
    BY <2>1, <2>2
<1> QED
  BY <1>1, <1>2, <1>3, <1>4, <1>5, <1>6, <1>7

\* The end of core 0's own part of main_entry keeps the invariant.
LEMMA TasksCreatedKeeps ==
  ASSUME IInv, TasksCreated
  PROVE  IInv'
<1> USE CoreFacts, BootAssumption DEF IInv, TypeOK, TasksCreated, Goto
<1>1. TypeOK'
  BY DEF EarlyPCs, BarrierPCs, LatePCs
<1>2. Roles' /\ LoopPosition'
  BY DEF Roles, LoopPosition, Cores
<1>3. ThreadInfos'
  BY DEF ThreadInfos, Roles
<1>4. Increment'
  BY DEF Increment, Roles, LoopPosition
<1>5. CountIsExact'
  BY CountUnchanged DEF Counted, LatePCs
<1>6. BarrierHolds'
  BY DEF BarrierHolds, Counted, LatePCs
<1>7. TaskList'
  BY DEF TaskList, Roles
<1> QED
  BY <1>1, <1>2, <1>3, <1>4, <1>5, <1>6, <1>7

\* second_kernel_main keeps the invariant.
LEMMA SecondKernelMainKeeps ==
  ASSUME IInv, NEW c \in Cores, SecondKernelMain(c)
  PROVE  IInv'
<1> USE CoreFacts, BootAssumption DEF IInv, TypeOK, SecondKernelMain, Goto
<1>1. TypeOK'
  BY DEF EarlyPCs, BarrierPCs, LatePCs
<1>2. Roles' /\ LoopPosition'
  BY DEF Roles, LoopPosition, Cores
<1>3. ThreadInfos'
  BY DEF ThreadInfos, Roles
<1>4. Increment'
  BY DEF Increment, Roles, LoopPosition
<1>5. CountIsExact'
  BY CountUnchanged DEF Counted, LatePCs
<1>6. BarrierHolds'
  BY DEF BarrierHolds, Counted, LatePCs
<1>7. TaskList'
  BY DEF TaskList, Roles
<1> QED
  BY <1>1, <1>2, <1>3, <1>4, <1>5, <1>6, <1>7

\* spin_lock(&lock) keeps the invariant.
LEMMA IncLockKeeps ==
  ASSUME IInv, NEW c \in Cores, IncLock(c)
  PROVE  IInv'
<1> USE CoreFacts, BootAssumption DEF IInv, TypeOK, IncLock, BootLock!Acquire, Goto
<1>1. TypeOK'
  BY DEF EarlyPCs, BarrierPCs, LatePCs
<1>2. Roles' /\ LoopPosition'
  BY DEF Roles, LoopPosition, Cores
<1>3. ThreadInfos'
  BY DEF ThreadInfos, Roles
<1>4. Increment'
  BY DEF Increment, Roles, LoopPosition
<1>5. CountIsExact'
  BY CountUnchanged DEF Counted, LatePCs
<1>6. BarrierHolds'
  BY DEF BarrierHolds, Counted, LatePCs
<1>7. TaskList'
  BY DEF TaskList, Roles
<1> QED
  BY <1>1, <1>2, <1>3, <1>4, <1>5, <1>6, <1>7

\* The load of the increment keeps the invariant.
LEMMA IncReadKeeps ==
  ASSUME IInv, NEW c \in Cores, IncRead(c)
  PROVE  IInv'
<1> USE CoreFacts, BootAssumption DEF IInv, TypeOK, IncRead, Goto
<1>1. TypeOK'
  BY DEF EarlyPCs, BarrierPCs, LatePCs
<1>2. Roles' /\ LoopPosition'
  BY DEF Roles, LoopPosition, Cores
<1>3. ThreadInfos'
  BY DEF ThreadInfos, Roles
<1>4. Increment'
  BY DEF Increment, Roles, LoopPosition
<1>5. CountIsExact'
  BY CountUnchanged DEF Counted, LatePCs
<1>6. BarrierHolds'
  BY DEF BarrierHolds, Counted, LatePCs
<1>7. TaskList'
  BY DEF TaskList, Roles
<1> QED
  BY <1>1, <1>2, <1>3, <1>4, <1>5, <1>6, <1>7

\* The store of the increment keeps the invariant: it adds this core to those
\* counted, and the lock has kept what was read up to date.
LEMMA IncWriteKeeps ==
  ASSUME IInv, NEW c \in Cores, IncWrite(c)
  PROVE  IInv'
<1> USE CoreFacts, BootAssumption DEF IInv, TypeOK, IncWrite, Goto
<1>0. /\ inited_cpu_num' = Cardinality({d \in Cores : Counted(d)}')
      /\ inited_cpu_num' \in 0 .. SMP_NUM
  <2> DEFINE S == {d \in Cores : Counted(d)}
             T == {d \in Cores : Counted(d)}'
  <2>1. T = S \cup {c} /\ c \notin S
    BY DEF Counted, LatePCs
  <2>2. IsFiniteSet(S) /\ Cardinality(S) \in Nat
    BY CountedFacts DEF CountedCores
  <2>3. Cardinality(T) = Cardinality(S) + 1
    BY <2>1, <2>2, FS_AddElement
  <2>4. IsFiniteSet(Cores) /\ Cardinality(Cores) = SMP_NUM
    BY FS_Interval DEF Cores
  <2>5. T \in SUBSET Cores
    OBVIOUS
  <2>6. Cardinality(T) <= SMP_NUM
    BY <2>4, <2>5, FS_Subset
  <2>7. inited_cpu_num' = Cardinality(S) + 1
    BY DEF CountIsExact, Increment
  <2>8. inited_cpu_num' = Cardinality(T) /\ inited_cpu_num' \in 0 .. SMP_NUM
    <3> HIDE DEF S, T
    <3> QED
      BY <2>2, <2>3, <2>6, <2>7
  <2> QED
    BY <2>8
<1>1. TypeOK'
  BY <1>0 DEF EarlyPCs, BarrierPCs, LatePCs
<1>2. Roles' /\ LoopPosition'
  BY SMTT(60), ZenonT(60) DEF Roles, LoopPosition, Cores
<1>3. ThreadInfos'
  BY DEF ThreadInfos, Roles
<1>4. Increment'
  BY DEF Increment, Roles, LoopPosition
<1>5. CountIsExact'
  BY <1>0 DEF CountIsExact
<1>6. BarrierHolds'
  BY DEF BarrierHolds, Counted, LatePCs
<1>7. TaskList'
  BY DEF TaskList, Roles
<1> QED
  BY <1>1, <1>2, <1>3, <1>4, <1>5, <1>6, <1>7

\* spin_unlock(&lock) keeps the invariant.
LEMMA IncUnlockKeeps ==
  ASSUME IInv, NEW c \in Cores, IncUnlock(c)
  PROVE  IInv'
<1> USE CoreFacts, BootAssumption DEF IInv, TypeOK, IncUnlock, BootLock!Release, Goto
<1>1. TypeOK'
  BY DEF EarlyPCs, BarrierPCs, LatePCs
<1>2. Roles' /\ LoopPosition'
  BY DEF Roles, LoopPosition, Cores
<1>3. ThreadInfos'
  BY DEF ThreadInfos, Roles
<1>4. Increment'
  BY DEF Increment, Roles, LoopPosition
<1>5. CountIsExact'
  BY CountUnchanged DEF Counted, LatePCs
<1>6. BarrierHolds'
  BY DEF BarrierHolds, Counted, LatePCs
<1>7. TaskList'
  BY DEF TaskList, Roles
<1> QED
  BY <1>1, <1>2, <1>3, <1>4, <1>5, <1>6, <1>7

\* Looking at inited_cpu_num keeps the invariant: SMP_NUM cores counted are all
\* the cores.
LEMMA CheckKeeps ==
  ASSUME IInv, NEW c \in Cores, Check(c)
  PROVE  IInv'
<1> USE CoreFacts, BootAssumption DEF IInv, TypeOK, Check, Goto
<1>1. TypeOK'
  BY DEF EarlyPCs, BarrierPCs, LatePCs
<1>2. Roles' /\ LoopPosition'
  BY DEF Roles, LoopPosition, Cores
<1>3. ThreadInfos'
  BY DEF ThreadInfos, Roles
<1>4. Increment'
  BY DEF Increment, Roles, LoopPosition
<1>5. CountIsExact'
  BY CountUnchanged DEF Counted, LatePCs
<1>6. BarrierHolds'
  <2>1. CASE inited_cpu_num = SMP_NUM
    <3>1. \A d \in Cores : Counted(d)
      BY <2>1, CountedFacts DEF CountIsExact, CountedCores
    <3> QED
      BY <3>1 DEF BarrierHolds, Counted, LatePCs
  <2>2. CASE inited_cpu_num # SMP_NUM
    BY <2>2 DEF BarrierHolds, Counted, LatePCs
  <2> QED
    BY <2>1, <2>2
<1>7. TaskList'
  BY DEF TaskList, Roles
<1> QED
  BY <1>1, <1>2, <1>3, <1>4, <1>5, <1>6, <1>7

\* Waking from wfi keeps the invariant.
LEMMA WakeKeeps ==
  ASSUME IInv, NEW c \in Cores, Wake(c)
  PROVE  IInv'
<1> USE CoreFacts, BootAssumption DEF IInv, TypeOK, Wake, Goto
<1>1. TypeOK'
  BY DEF EarlyPCs, BarrierPCs, LatePCs
<1>2. Roles' /\ LoopPosition'
  BY DEF Roles, LoopPosition, Cores
<1>3. ThreadInfos'
  BY DEF ThreadInfos, Roles
<1>4. Increment'
  BY DEF Increment, Roles, LoopPosition
<1>5. CountIsExact'
  BY CountUnchanged DEF Counted, LatePCs
<1>6. BarrierHolds'
  BY DEF BarrierHolds, Counted, LatePCs
<1>7. TaskList'
  BY DEF TaskList, Roles
<1> QED
  BY <1>1, <1>2, <1>3, <1>4, <1>5, <1>6, <1>7

\* schedule_init_local keeps the invariant.
LEMMA ScheduleInitLocalKeeps ==
  ASSUME IInv, NEW c \in Cores, ScheduleInitLocal(c)
  PROVE  IInv'
<1> USE CoreFacts, BootAssumption DEF IInv, TypeOK, ScheduleInitLocal, Goto
<1>1. TypeOK'
  BY DEF EarlyPCs, BarrierPCs, LatePCs
<1>2. Roles' /\ LoopPosition'
  BY DEF Roles, LoopPosition, Cores
<1>3. ThreadInfos'
  BY DEF ThreadInfos, Roles
<1>4. Increment'
  BY DEF Increment, Roles, LoopPosition
<1>5. CountIsExact'
  BY CountUnchanged DEF Counted, LatePCs
<1>6. BarrierHolds'
  BY DEF BarrierHolds, Counted, LatePCs
<1>7. TaskList'
  BY DEF TaskList, Roles
<1> QED
  BY <1>1, <1>2, <1>3, <1>4, <1>5, <1>6, <1>7

\* The timer keeps the invariant.
LEMMA TimerFiresKeeps ==
  ASSUME IInv, NEW c \in Cores, TimerFires(c)
  PROVE  IInv'
<1> USE CoreFacts, BootAssumption DEF IInv, TypeOK, TimerFires, Goto
<1>1. TypeOK'
  BY DEF EarlyPCs, BarrierPCs, LatePCs
<1>2. Roles' /\ LoopPosition'
  BY DEF Roles, LoopPosition, Cores
<1>3. ThreadInfos'
  BY DEF ThreadInfos, Roles
<1>4. Increment'
  BY DEF Increment, Roles, LoopPosition
<1>5. CountIsExact'
  BY CountUnchanged DEF Counted, LatePCs
<1>6. BarrierHolds'
  BY DEF BarrierHolds, Counted, LatePCs
<1>7. TaskList'
  BY DEF TaskList, Roles
<1> QED
  BY <1>1, <1>2, <1>3, <1>4, <1>5, <1>6, <1>7

\* Every step of every core keeps the invariant.
LEMMA BootStep == IInv /\ [Next]_vars => IInv'
<1> SUFFICES ASSUME IInv, [Next]_vars PROVE IInv'
  OBVIOUS
<1>1. CASE Primary
  BY <1>1, KernelMainKeeps, CpuOnKeeps, SecondThreadInfoKeeps, ScheduleInitKeeps,
     CreateTaskKeeps, TasksCreatedKeeps DEF Primary
<1>2. ASSUME NEW c \in Cores, Any(c) PROVE IInv'
  BY <1>2, SecondKernelMainKeeps, IncLockKeeps, IncReadKeeps, IncWriteKeeps, IncUnlockKeeps,
     CheckKeeps, WakeKeeps, ScheduleInitLocalKeeps DEF Any
<1>3. ASSUME NEW c \in Cores, TimerFires(c) PROVE IInv'
  BY <1>3, TimerFiresKeeps
<1>4. CASE UNCHANGED vars
  <2> USE DEF IInv, vars
  <2>1. TypeOK' /\ Roles' /\ LoopPosition' /\ ThreadInfos' /\ Increment' /\ TaskList'
    BY <1>4 DEF TypeOK, Roles, LoopPosition, ThreadInfos, Increment, TaskList
  <2>2. CountIsExact'
    BY <1>4, CountUnchanged DEF Counted
  <2>3. BarrierHolds'
    BY <1>4 DEF BarrierHolds, Counted
  <2> QED
    BY <2>1, <2>2, <2>3
<1> QED
  BY <1>1, <1>2, <1>3, <1>4 DEF Next

-----------------------------------------------------------------------------
(* The theorems *)

\* The inductive invariant of the boot holds throughout every execution.
THEOREM BootInvariant == Spec => []IInv
BY BootInit, BootStep, PTL DEF Spec

\* No core leaves the barrier before every core has counted itself.
THEOREM BootBarrierHolds == Spec => []BarrierHolds
<1>1. IInv => BarrierHolds
  BY DEF IInv
<1> QED
  BY <1>1, BootInvariant, PTL

\* inited_cpu_num is the number of cores that have incremented it.
THEOREM BootCountIsExact == Spec => []CountIsExact
<1>1. IInv => CountIsExact
  BY DEF IInv
<1> QED
  BY <1>1, BootInvariant, PTL

\* A core finds its thread_info written when it needs it, and its current_thread
\* is never wiped out by the memset of core 0.
THEOREM BootThreadInfoSurvives == Spec => []ThreadInfoSurvives
<1>1. IInv => ThreadInfoSurvives
  <2> SUFFICES ASSUME IInv, NEW c \in Cores, pc[c] \in {"local", "online"}
               PROVE  ti[c] = [cpu |-> c, current |-> IF pc[c] = "online" THEN c ELSE NoTask]
    BY DEF ThreadInfoSurvives
  <2>1. pc[0] \notin {"start", "cpu_on", "ti_init"}
    BY CoreFacts DEF IInv, BarrierHolds, Counted, LatePCs
  <2>2. ti[c].cpu = c /\ ti[c].current = IF pc[c] = "online" THEN c ELSE NoTask
    BY <2>1 DEF IInv, ThreadInfos
  <2> QED
    BY <2>2 DEF IInv, TypeOK
<1> QED
  BY <1>1, BootInvariant, PTL

\* The task list is complete before any core uses it.
THEOREM BootTasksReady == Spec => []TasksReady
<1>1. IInv => TasksReady
  <2> SUFFICES ASSUME IInv, NEW c \in Cores, pc[c] \in LatePCs
               PROVE  /\ calls = CreateCalls /\ id[c] = c
                      /\ \A s \in Slots : id[s] = IF s < task_count THEN s ELSE NoTask
    BY DEF TasksReady
  <2>1. pc[0] \notin {"start", "cpu_on", "ti_init", "schedule_init", "create"}
    BY CoreFacts DEF IInv, BarrierHolds, Counted, LatePCs
  <2>2. /\ calls = CreateCalls
        /\ \A s \in Slots : id[s] = IF s < task_count THEN s ELSE NoTask
    BY <2>1 DEF IInv, TaskList
  <2>3. c < task_count /\ c \in Slots
    BY <2>2, CoreFacts, BootAssumption DEF IInv, TaskList, Cores
  <2> QED
    BY <2>2, <2>3
<1> QED
  BY <1>1, BootInvariant, PTL

\* A refused CPU_ON keeps every core behind the barrier.
THEOREM BootFailureStopsAll == Spec => []FailureStopsAll
<1>1. IInv => FailureStopsAll
  BY DEF IInv, FailureStopsAll, BarrierHolds, Counted, LatePCs
<1> QED
  BY <1>1, BootInvariant, PTL

\* The task list does not change once a core has passed the barrier.
THEOREM BootTaskCountSettles == Spec => TaskCountSettles
<1>1. IInv /\ [Next]_vars =>
        [(\E c \in Cores : pc[c] \in LatePCs) => UNCHANGED <<task_count, id>>]_vars
  <2> SUFFICES ASSUME IInv, Next, NEW c \in Cores, pc[c] \in LatePCs
               PROVE  UNCHANGED <<task_count, id>>
    OBVIOUS
  <2>1. pc[0] \notin {"schedule_init", "create"}
    BY CoreFacts DEF IInv, BarrierHolds, Counted, LatePCs
  <2> QED
    BY <2>1 DEF Next, Primary, Any, KernelMain, CpuOn, SecondThreadInfo, ScheduleInit, CreateTask,
       TasksCreated, SecondKernelMain, IncLock, IncRead, IncWrite, IncUnlock, Check, Wake,
       ScheduleInitLocal, TimerFires
<1> QED
  BY <1>1, BootInvariant, PTL DEF Spec, TaskCountSettles
=============================================================================
