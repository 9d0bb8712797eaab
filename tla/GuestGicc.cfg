CONSTANTS
  Window = 4
  WordBits = 3
  Values = {{}, {1}, {2}, {0, 1}}
  Used = {0}
  LPAE_L1_SIZE = 2
  LPAE_ENTRIES = 6
  RAM_START = 42
  RAM_END = 66
  MMIO_AREA_GICD = 16
  MMIO_AREA_GICC = 20
  WindowPages = 4
  MMIO_ARREA_PAGE = 48
SPECIFICATION GuestMemorySpec
INVARIANTS
  CpuInterfaceIsRedirected
CHECK_DEADLOCK FALSE
