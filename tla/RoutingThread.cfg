SPECIFICATION Spec
CONSTANTS
  Server = TRUE
  MaxSlots = 2
  Channels = {0, 1}
  Talkers = {0, 1}
  MaxChanges = 2
CHECK_DEADLOCK FALSE
INVARIANT ToldOnMessageThread
