SPECIFICATION Spec
CONSTANTS
  Dst = 6
  Rates = {5}
  MaxOut = 2
  Scratch = 15
  MaxProduced = 12
INVARIANT Neighbours
