CONSTANTS
  NSETUP = 3
  UPAGES = 3
  FRAMES = {1, 2, 3, 4, 5}
  DIRTY = {}
SPECIFICATION Spec
INVARIANTS
  ListIsHeap
  FramesPrivate
PROPERTY PagesStay
CHECK_DEADLOCK FALSE
