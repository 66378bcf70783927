SPECIFICATION Spec
CONSTANTS
  Capacity = 4
  Wrap = 8
  MaxFrames = 5
  MaxSamples = 11
  LiveReset = TRUE
INVARIANT ResetDiscardsStale
