SPECIFICATION FairSpec
CONSTANTS
  NULL = NULL
  Idle = idle
  Boot = boot
  Thread = {idle, boot, p1, p2, k1}
  Process = {p1, p2}
  KernelThread = {k1}
  KeyReaders = {p1, p2}
  Sleepers = {p1, p2}
  KeyCapacity = 1
  Slots = 2
  Durations = {1, 2}
  MaxTime = 4
PROPERTIES
  SleepsUntilDeadline
  SleeperRunsAgain
