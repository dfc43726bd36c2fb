CONSTANTS
  NChans <- MCNChans
  MaxFrames <- MCMaxFrames
  Mosaic = FALSE
SPECIFICATION Spec
INVARIANT FramesOnOwnPort
INVARIANT StreamsReachable
CHECK_DEADLOCK FALSE
