SPECIFICATION FairSpec
CONSTANTS
  Buffer = 5
  MaxSends = 4
  Empties = {2}
  MaxFaults = 2
INVARIANT WholeMessages
PROPERTY IsChannel
PROPERTY CatchesUp
CHECK_DEADLOCK FALSE
