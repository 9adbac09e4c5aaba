SPECIFICATION Spec
CONSTANTS
  NULL = NULL
  Idle = idle
  Boot = boot
  Thread = {idle, boot, p1}
  Process = {p1}
  KernelThread = {}
  KeyReaders = {}
  Sleepers = {p1}
  KeyCapacity = 1
  Slots = 1
  Durations = {1, 2}
  MaxTime = 3
INVARIANT NeverLoadsStaleContext
