SPECIFICATION FairSpec
CONSTANTS
  NULL = NULL
  Idle = idle
  Boot = boot
  Thread = {idle, boot, p1, p2, p3}
  Process = {p1, p2, p3}
  KernelThread = {}
  KeyReaders = {p1, p2, p3}
  Sleepers = {}
  KeyCapacity = 2
  Slots = 1
  Durations = {1}
  MaxTime = 0
INVARIANTS
  TypeOK
  CurrentMayRun
  EveryWaiterHasOneWaker
  NeverPanics
  EndingThreadLeavesSuccessor
  NeverLoadsStaleContext
PROPERTIES
  IdleIsLastResort
  EveryReadyThreadRuns
  ExecReturnsToParent
