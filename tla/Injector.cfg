SPECIFICATION InjectorSpec
CONSTANTS
  DefaultRate = 48
  Maps <- MCPatches
  Rates = {48}
  MaxMaps = 9
  MaxRestarts = 1
  Paced = FALSE
  Other = Other
  MaxSends = 3
  MaxFaults = 1
INVARIANT QuiescentCoherent
INVARIANT PatchInEffect
PROPERTY PatchReachesDevice
