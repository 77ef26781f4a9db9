SPECIFICATION Spec
CONSTANTS
  t1 = t1
  t2 = t2
  t3 = t3
  dom = dom
  timer = timer
  doc = doc
  Task = {t1, t2}
  Source = {dom, timer}
  Document = {}
  None = None
  Microtask = Microtask
  HostEntry = HostEntry
  SourceOf <- WindowSource
  DocumentOf <- WorkerDocument
  Gated = {t2}
  Owned = {t1}
  IdleTask = {}
  Spinner = {}
  IsWindow = TRUE
  Ambient = FALSE
  MaxMicrotasks = 1
  MaxFrames = 4
INVARIANTS
  EvaluationsCheckpoint
