CONSTANTS
  SMP_NUM = 1
  BUFFER_SIZE = 3
  OutputLimit = 4
  InputLimit = 1
  Contexts = {FALSE}
SPECIFICATION UartFairSpec
PROPERTIES
  PutcFindsRoom
CHECK_DEADLOCK FALSE
