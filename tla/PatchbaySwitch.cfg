SPECIFICATION Spec
CONSTANTS
  Entities = {1, 2, 3}
  Inputs <- MCInputs
  Names = {1, 2}
  DeviceLists <- MCDevices
  OwnUID = 9
  Known <- MCKnown
  KnownFeeds <- MCFeeds
  MaxRows = 2
  MaxEvents = 2
  MaxPicks = 2
INVARIANT SwitchIsShown
CHECK_DEADLOCK FALSE
