--------------------------- MODULE CoreAssignment ---------------------------
(***************************************************************************)
(* What the scheduler of schedule/task.c promises: each core starts on the *)
(* task that has its own number, and from then on only ever moves to a     *)
(* task that no core is on.  Scheduler.tla implements this module with     *)
(* struct thread_info's current_thread as the variable.                    *)
(***************************************************************************)
CONSTANTS Cores,    \* core numbers, a subset of Tasks
          Tasks,    \* the indices of task_list in use
          NoTask    \* current_thread before schedule_init_local

VARIABLE running    \* running[c]: the task that core c is on

Busy == {running[c] : c \in Cores}

Init == running = [c \in Cores |-> NoTask]

\* schedule_init_local on core c.
Start(c) == /\ running[c] = NoTask
            /\ c \notin Busy
            /\ running' = [running EXCEPT ![c] = c]

\* _schedule on core c found a task to move to.
HandOver(c) == /\ running[c] # NoTask
               /\ \E t \in Tasks \ Busy : running' = [running EXCEPT ![c] = t]

Next == \E c \in Cores : Start(c) \/ HandOver(c)

Spec == Init /\ [][Next]_running
=============================================================================
