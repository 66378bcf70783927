SPECIFICATION FairSpec
CONSTANTS
  Controllers = {message, server}
  Devices = {1, 2}
  MaxSelects = 3
  MaxFrames = 2
CHECK_DEADLOCK FALSE
INVARIANT CaptureInv
INVARIANT WholeFrames
INVARIANT CaptureFollowsBridge
INVARIANT OneSender
PROPERTY InOrder
PROPERTY HandedOverIsTaken
PROPERTY SelectionEnds
