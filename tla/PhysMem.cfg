CONSTANTS
  WPP = 4
  KEND = 1
  END = 7
  NORMAL = 5
  NV = 8
  GARBAGE = 0
SPECIFICATION Spec
INVARIANTS
  KernelKept
  Split
PROPERTIES
  OneOwner
  BootEnds
CHECK_DEADLOCK FALSE
