CONSTANTS
  Threads = {t1, t2}
  BatchSize <- MCBatchSize
  Interval <- MCInterval
  MaxFrames <- MCMaxFrames
SPECIFICATION Spec
INVARIANT InOrderDelivery
INVARIANT ResultsBeforeDelivery
INVARIANT ObjectsWrittenOnce
INVARIANT IntervalCorrect
PROPERTY EventuallyDelivered
PROPERTY RefinesOrderedDelivery
CHECK_DEADLOCK FALSE
