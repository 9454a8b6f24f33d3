SPECIFICATION Spec
CONSTANTS
  Hart = {h0, h1}
  Boot = h0
  MaxCalls = 4
  None = None
INVARIANTS
  ResultIsOwn
  WriteBackIsAwaited
PROPERTIES
  TohostNeverLost
  ExitIsFinal
  ImplementsSyscalls
  Answered
CHECK_DEADLOCK FALSE
