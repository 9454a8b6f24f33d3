SPECIFICATION Spec
CONSTANTS
  MaxReq = 3
  None = None
INVARIANTS
  PopNeverThrows
  NoLostWakeup
  AnswerIsOwn
PROPERTY ImplementsDmi
