SPECIFICATION FairSpec
CONSTANTS
  MaxId = 2
  ClampLevel = 0
  Clamp = 2
  Delay = {1}
  Group = {"setTimeout", "JavaScript"}
  Public = "setTimeout"
  NoTime = NoTime
  NoTask = NoTask
  MaxTime = 3
  MaxWaits = 3
INVARIANTS CallbacksAreDue NothingIsStranded OrderKept
PROPERTIES KeysDecide DueWaitsComplete
CHECK_DEADLOCK FALSE
