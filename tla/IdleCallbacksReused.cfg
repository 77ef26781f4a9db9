SPECIFICATION Spec
CONSTANTS
  Handle = {1, 2}
  Timeout = {0, 1}
  Budget = 1
  TimerDelay = {1}
  MaxLate = 1
  MaxWork = 1
  WindowReused = TRUE
  None = None
INVARIANTS
  RetainedWorkIsOffered
