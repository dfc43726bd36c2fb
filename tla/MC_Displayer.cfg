CONSTANTS
  MaxFrames <- MCMaxFrames
SPECIFICATION Spec
INVARIANT PlayerUsedWhenInitialised
