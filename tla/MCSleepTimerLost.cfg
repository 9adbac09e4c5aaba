SPECIFICATION Spec
CONSTANTS
  Thread = {t1, t2, t3}
  NULL = NULL
  Slots = 3
  Durations = {1, 2, 3, 4}
  MaxTime = 6
  LastMayJoin = TRUE
INVARIANTS
  NoSleeperLost
CHECK_DEADLOCK FALSE
