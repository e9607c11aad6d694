CONSTANTS
  NPROC = 4
  NBOOT = 3
  CHARS = 2
SPECIFICATION Spec
INVARIANTS
  NoPanic
  MaskDiscipline
  ContextMatches
  OneRunning
  AllocatorExclusive
  RestoresOwnIF
PROPERTIES
  ScheduleUnderLock
  RoundRobinSafety
  NoStarvation
  TickServed
