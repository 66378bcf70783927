SPECIFICATION Spec
CONSTANTS
  DefaultRate = 48
  Maps <- MCRealMaps
  Rates = {48}
  MaxMaps = 3
  MaxRestarts = 0
  Paced = FALSE
INVARIANT NoDanglingFifo
