SPECIFICATION Spec
CONSTANTS
  Server = TRUE
  MaxSlots = 2
  Channels = {0, 1}
  Talkers = {0, 1}
  MaxChanges = 3
INVARIANT RoutingInv
INVARIANT MapFollowsRouting
PROPERTY AudioFollowsRouting
CHECK_DEADLOCK FALSE
