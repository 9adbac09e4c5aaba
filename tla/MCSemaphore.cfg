SPECIFICATION SyncSpec
CONSTANTS
  NULL = NULL
  Idle = idle
  Boot = boot
  a = a
  b = b
  c = c
  lock1 = lock1
  lock2 = lock2
  Thread = {idle, boot, a, b, c}
  Process = {}
  KernelThread = {a, b, c}
  KeyReaders = {}
  Sleepers = {}
  KeyCapacity = 1
  Slots = 1
  Durations = {1}
  MaxTime = 0
  Lock = {lock1, lock2}
  SemLock = sem
  LockedAtStart = {lock1}
  InitialValue = 1
  MaxValue = 9
  AllocMayFail = TRUE
  Started <- InsertedThree
  Program <- SharingPrograms
INVARIANTS
  SemaphoreExclusion
  WaitersAreQueued
CHECK_DEADLOCK FALSE
