SPECIFICATION FairSpec
CONSTANTS
  n1 = n1
  n2 = n2
  s1 = s1
  s2 = s2
  s3 = s3
  s4 = s4
  Steps = {s1, s2, s3, s4}
  Navigable = {n1, n2}
  None = None
  TargetOf <- MCTargetOf
  MaxPending = 3
INVARIANTS DrainWhenNeeded FlagsAreExact
PROPERTIES SerialWithJumps EveryAlgorithmStarts
CHECK_DEADLOCK FALSE
