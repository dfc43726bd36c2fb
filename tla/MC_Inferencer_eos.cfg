CONSTANTS
  Threads = {t1, t2}
  BatchSize <- MCBatchSize
  Interval <- MCInterval
  MaxFrames <- MCMaxFrames
SPECIFICATION Spec
PROPERTY EosCommitsBatch
CHECK_DEADLOCK FALSE
