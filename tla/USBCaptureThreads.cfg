SPECIFICATION Spec
CONSTANTS
  Controllers = {message, server}
  Devices = {1, 2}
  MaxSelects = 2
  MaxFrames = 1
CHECK_DEADLOCK FALSE
INVARIANT CaptureFollowsAnyBridge
