SPECIFICATION Spec
CONSTANTS
  DefaultRate = 48
  Maps <- MCWithdrawnMaps
  Rates = {48}
  MaxMaps = 3
  MaxRestarts = 0
  Paced = FALSE
INVARIANT NoNullDevice
