SPECIFICATION LockSpec
CONSTANTS
  Levels = 4
  Size <- FourLevels
  start = 7
  size = 32
  Request = {4, 5, 8, 9, 15, 16, 31, 32}
  Nil = Nil
  Uninitialized = Uninitialized
INVARIANTS
  HeldAreDisjoint
  FreeSpaceIsFound
  ListsMatchStatuses
  AgreesWithPrototype
CHECK_DEADLOCK FALSE
