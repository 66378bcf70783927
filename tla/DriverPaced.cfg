SPECIFICATION FairSpec
CONSTANTS
  DefaultRate = 48
  Maps <- MCMaps
  Rates = {44, 48}
  MaxMaps = 4
  MaxRestarts = 1
  Paced = TRUE
INVARIANT NoDanglingFifo
INVARIANT MapInEffect
INVARIANT AudioPathComplete
INVARIANT StorageInStep
INVARIANT PacedInv
PROPERTY ShowsMaps
