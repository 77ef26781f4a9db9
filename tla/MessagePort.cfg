SPECIFICATION FairSpec
CONSTANTS
  main = main
  worker = worker
  Thread = {main, worker}
  NoThread = NoThread
  MaxMessages <- TwoToPort1
  MaxMoves <- Port1Twice
INVARIANTS TasksOfHolder OwnersKnown
PROPERTIES Reliable EveryMessageArrives
CHECK_DEADLOCK FALSE
