CONSTANTS
  SMP_NUM = 2
  TASK_COUNT = 5
  SYS_TASK_TICK = 2
  CounterModulus = 8
  SlicesOutlastBoot = TRUE
SPECIFICATION FairSpec
INVARIANTS
  TaskOnOneCore
  ProgramOnOneCore
  LoadsLatestContext
  SliceNeverWraps
PROPERTIES
  HandsOver
  ImplementsAssignment
  EveryTaskGetsACore
  AppsExecute
