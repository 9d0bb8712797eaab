CONSTANTS
  SMP_NUM = 3
  MAX_TASKS = 4
  CreateCalls = 5
SPECIFICATION FairSpec
CHECK_DEADLOCK FALSE
INVARIANTS
  BarrierHolds
  ThreadInfoSurvives
  TasksReady
PROPERTIES
  AllComeOnline
