SPECIFICATION Spec
CONSTANTS
  Dst = 4
  Rates = {6}
  MaxOut = 2
  Scratch = 6
  MaxProduced = 6
INVARIANT CursorIsFraction
