CONSTANTS
  PGSIZE = 9
  HDR = 2
  LIMIT = 27
  Sizes = {2, 4}
SPECIFICATION Safety
INVARIANT RoomToSplit
CHECK_DEADLOCK FALSE
