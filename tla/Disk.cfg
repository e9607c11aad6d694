CONSTANTS
  NPROC = 2
  NBUF = 3
  SECTORS = 2
  UNSET = 0
SPECIFICATION Spec
INVARIANTS HeadAsked AnswerIsOwn AnsweredOnce 
PROPERTY Answered
CHECK_DEADLOCK FALSE
