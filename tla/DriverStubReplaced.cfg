SPECIFICATION Spec
CONSTANTS
  DefaultRate = 48
  Maps <- MCSingleMaps
  Rates = {48}
  MaxMaps = 2
  MaxRestarts = 0
  Paced = TRUE
INVARIANT AudioPathComplete
