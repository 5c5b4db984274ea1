SPECIFICATION ChatSpec
CONSTANTS
  Turns = {t1, t2}
  Pictures = {p1}
  Caps = {0}
  HistoryLimit = 2
  Retain = FALSE
  Sweeps = FALSE
  Crashes = FALSE
  MaxVersion = 0
INVARIANTS DroppedAfterDispatch
CHECK_DEADLOCK FALSE
