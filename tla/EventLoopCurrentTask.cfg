SPECIFICATION Spec
CONSTANTS
  t1 = t1
  t2 = t2
  t3 = t3
  dom = dom
  timer = timer
  doc = doc
  Task = {t1, t2}
  Source = {dom, timer}
  Document = {doc}
  None = None
  Microtask = Microtask
  HostEntry = HostEntry
  SourceOf <- WindowSource
  DocumentOf <- WindowDocument
  Gated = {t2}
  Owned = {}
  IdleTask = {}
  Spinner = {}
  IsWindow = TRUE
  Ambient = FALSE
  MaxMicrotasks = 1
  MaxFrames = 4
INVARIANTS
  TaskIsCurrent
