SPECIFICATION FairSpec
CONSTANTS
  t1 = t1
  t2 = t2
  t3 = t3
  dom = dom
  timer = timer
  doc = doc
  Task = {t1, t2}
  Source = {dom, timer}
  Document = {}
  None = None
  Microtask = Microtask
  HostEntry = HostEntry
  SourceOf <- WindowSource
  DocumentOf <- WorkerDocument
  Gated = {t2}
  Owned = {t2}
  IdleTask = {}
  Spinner = {t1}
  IsWindow = FALSE
  Ambient = FALSE
  MaxMicrotasks = 2
  MaxFrames = 4
PROPERTIES
  ClosedWorkerFinishes
  FirstQueueServed
INVARIANTS
  NoStrandedMicrotask
  DestroyedIsDrained
PROPERTIES TasksStartDrained
