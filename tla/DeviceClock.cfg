SPECIFICATION Spec
CONSTANTS
  Threads = {t1, t2}
  Num = 3
  Den = 2
  MaxTime = 8
  RacedStart = FALSE
INVARIANT ClockInv
INVARIANT NeverBack
INVARIANT NeverAhead
INVARIANT NeverStale
CHECK_DEADLOCK FALSE
