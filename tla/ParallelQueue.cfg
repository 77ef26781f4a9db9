SPECIFICATION FairSpec
CONSTANTS
  Steps = {a, b}
  None = None
  MaxQueue = 4
INVARIANT DrainWhenNeeded
PROPERTIES SerialInOrder ServesEveryStep
CHECK_DEADLOCK FALSE
