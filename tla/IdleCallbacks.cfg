SPECIFICATION FairSpec
CONSTANTS
  Handle = {1, 2}
  Timeout = {0, 2}
  Budget = 1
  TimerDelay = {1}
  MaxLate = 1
  MaxWork = 1
  WindowReused = TRUE
  None = None
INVARIANTS OneDeliveryTask TimeoutsAreKept IdleWorkIsOffered
PROPERTIES RunsOnceInOrder CallbacksAreServed
