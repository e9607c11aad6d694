CONSTANTS
  NPROC = 3
  NBOOT = 3
  CHARS = 2
SPECIFICATION MCSpec
INVARIANTS IInv BoundedBypass
