SPECIFICATION Spec
CONSTANTS
  Address = {a1, a2, a3}
  Data = {d1, d2}
  Garbage = garbage
  NULL = NULL
  Limit = 2
  Faults = {"map", "info", "evict", "node", "data", "flush"}
INVARIANTS
  CleanIsStored
  LimitIsKept
PROPERTIES
  WrittenIsNotDropped
  ActsAsBlockStore
CHECK_DEADLOCK FALSE
