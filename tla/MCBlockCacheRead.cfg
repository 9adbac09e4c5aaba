SPECIFICATION Spec
CONSTANTS
  Address = {a1, a2, a3}
  Data = {d1, d2}
  Garbage = garbage
  NULL = NULL
  Limit = 2
  Faults = {"read"}
PROPERTY ActsAsBlockStore
CHECK_DEADLOCK FALSE
