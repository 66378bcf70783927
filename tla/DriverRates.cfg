SPECIFICATION Spec
CONSTANTS
  DefaultRate = 48
  Maps <- MCRealMaps
  Rates = {44, 48}
  MaxMaps = 2
  MaxRestarts = 0
  Paced = TRUE
INVARIANT RateFollowsSource
