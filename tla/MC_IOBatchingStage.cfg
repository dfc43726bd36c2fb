CONSTANTS
  BatchSize <- MCBatchSize
  MaxFrames <- MCMaxFrames
  NWorkers <- MCNWorkers
SPECIFICATION Spec
INVARIANT NoDataRace
PROPERTY TasksComplete
CHECK_DEADLOCK FALSE
