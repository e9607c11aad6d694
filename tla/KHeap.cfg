CONSTANTS
  PGSIZE = 9
  HDR = 2
  LIMIT = 36
  Sizes = {2, 4}
SPECIFICATION Safety
INVARIANTS
  Tiling
  NoLeftovers
PROPERTIES
  HeapSafety
  FreesItsOwn
CHECK_DEADLOCK FALSE
