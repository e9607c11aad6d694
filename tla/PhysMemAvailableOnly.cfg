CONSTANTS
  WPP = 4
  KEND = 1
  END = 7
  NORMAL = 5
  NV = 8
  GARBAGE = 0
SPECIFICATION Spec
INVARIANT AvailableOnly
CHECK_DEADLOCK FALSE
