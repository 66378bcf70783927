SPECIFICATION FairSpec
CONSTANTS
  Conns = {c1, c2}
  Fds = {1, 2, 3}
  MapValues = {0, 1}
  Uids = {1}
  None = None
INVARIANT ServerInv
INVARIANT ClientsUpToDate
INVARIANT ListedExactly
PROPERTY NewcomersServed
PROPERTY GoneAreDropped
PROPERTY StopReturns
