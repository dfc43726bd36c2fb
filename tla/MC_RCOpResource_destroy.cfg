CONSTANTS
  BatchSize <- MCBatchSize
  Geoms = {g1, g2, g3, g4}
SPECIFICATION Spec
INVARIANT OpDestroyedOnce
CHECK_DEADLOCK FALSE
