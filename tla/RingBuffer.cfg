SPECIFICATION Spec
CONSTANTS
  Capacity = 4
  Wrap = 8
  MaxFrames = 5
  MaxSamples = 11
  LiveReset = FALSE
INVARIANT NoSharedSlot
INVARIANT RingInv
PROPERTY IsSampleQueue
