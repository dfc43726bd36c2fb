CONSTANTS
  NChans <- MCNChans
  MaxFrames <- MCMaxFrames
  Mosaic = TRUE
SPECIFICATION Spec
INVARIANT MosaicSingleStream
CHECK_DEADLOCK FALSE
