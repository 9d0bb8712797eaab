CONSTANTS
  SMP_NUM = 2
  BUFFER_SIZE = 3
  OutputLimit = 4
  InputLimit = 1
  Contexts = {FALSE}
SPECIFICATION UartFairSpec
INVARIANTS
  WritesWhenRoom
CHECK_DEADLOCK FALSE
