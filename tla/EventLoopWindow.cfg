SPECIFICATION Spec
CONSTANTS
  t1 = t1
  t2 = t2
  t3 = t3
  dom = dom
  timer = timer
  doc = doc
  Task = {t1, t2, t3}
  Source = {dom, timer}
  Document = {doc}
  None = None
  Microtask = Microtask
  HostEntry = HostEntry
  SourceOf <- WindowSource
  DocumentOf <- WindowDocument
  Gated = {t3}
  Owned = {}
  IdleTask = {t2}
  Spinner = {t1}
  IsWindow = TRUE
  Ambient = TRUE
  MaxMicrotasks = 1
  MaxFrames = 4
INVARIANTS
  NoLostWakeup
  CheckpointOnEmptyStack
  RestIsClean
