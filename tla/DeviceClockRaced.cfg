SPECIFICATION Spec
CONSTANTS
  Threads = {t1, t2}
  Num = 3
  Den = 2
  MaxTime = 8
  RacedStart = TRUE
INVARIANT NeverAhead
CHECK_DEADLOCK FALSE
