CONSTANTS
  TASK_COUNT = 2
  SYS_TASK_TICK = 2
  GICH_LR_NUM = 4
  Linux = 1
  TickOutlastsHandler = FALSE
SPECIFICATION Spec
INVARIANTS
  NoSecondInjection
CHECK_DEADLOCK FALSE
