CONSTANTS
  SMP_NUM = 1
  TASK_COUNT = 2
  SYS_TASK_TICK = 2
  CounterModulus = 8
  SlicesOutlastBoot = FALSE
SPECIFICATION Spec
INVARIANTS
  SavesTrappedTask
