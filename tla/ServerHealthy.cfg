SPECIFICATION Spec
CONSTANTS
  Conns = {c1, c2}
  Fds = {1, 2, 3}
  MapValues = {}
  Uids = {}
  None = None
INVARIANT OnlyGoneDisconnected
SYMMETRY ConnSymmetry
