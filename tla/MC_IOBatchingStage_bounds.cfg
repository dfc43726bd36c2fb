CONSTANTS
  BatchSize <- MCBatchSize
  MaxFrames <- MCMaxFrames
  NWorkers <- MCNWorkers
SPECIFICATION Spec
INVARIANT OffsetInBounds
CHECK_DEADLOCK FALSE
