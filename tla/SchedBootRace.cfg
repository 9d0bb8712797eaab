CONSTANTS
  SMP_NUM = 2
  TASK_COUNT = 3
  SYS_TASK_TICK = 2
  CounterModulus = 8
  SlicesOutlastBoot = FALSE
SPECIFICATION Spec
INVARIANTS
  TaskOnOneCore
