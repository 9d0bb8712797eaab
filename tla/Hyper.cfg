CONSTANTS
  TASK_COUNT = 2
  SYS_TASK_TICK = 1
  GICH_LR_NUM = 2
  Linux = 1
  TickOutlastsHandler = TRUE
SPECIFICATION FairSpec
INVARIANTS
  RegistersFollowGuest
  OneDeviceInterruptPerTick
PROPERTIES
  InjectionAddsOne
  TimerServed
  ConsoleServed
CHECK_DEADLOCK FALSE
