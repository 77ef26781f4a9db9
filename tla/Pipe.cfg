SPECIFICATION FairSpec
CONSTANTS
  a = a
  b = b
  None = None
  Chunks <- TwoChunks
  SourceHighWaterMark = 0
  SinkHighWaterMark = 1
INVARIANTS NoInternalError DeliversInOrder BackpressureObeyed NothingReadIsLost
INVARIANTS PromisesTellTheState
PROPERTIES PipeSettles
CHECK_DEADLOCK FALSE
