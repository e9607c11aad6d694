CONSTANTS
  NSETUP = 2
  UPAGES = 3
  FRAMES = {1, 2, 3}
  DIRTY = {}
SPECIFICATION Spec
INVARIANT NoNullFrame
CHECK_DEADLOCK FALSE
