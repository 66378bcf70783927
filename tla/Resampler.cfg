SPECIFICATION Spec
CONSTANTS
  Dst = 4
  Rates = {3, 6, 9}
  MaxOut = 3
  Scratch = 6
  MaxProduced = 6
INVARIANT NoDrift
INVARIANT HoldsOnlyAtTheEnd
INVARIANT ResamplerInv
