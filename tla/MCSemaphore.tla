---------------------------- MODULE MCSemaphore ----------------------------
(* The programs of the threads that share a lock or a semaphore.           *)
EXTENDS Semaphore

CONSTANTS a, b, c, lock1, lock2

OnLock(op, l) == [op |-> op, lock |-> l]
OnSemaphore(op) == [op |-> op, lock |-> SemLock]

Semaphores(ops) == [i \in DOMAIN ops |-> OnSemaphore(ops[i])]

\* Threads that use the semaphore unevenly, so that wait() finds it taken again and
\* again, and that guard work with locks, one of them unlocking what it did not lock.
SharingPrograms ==
  [t \in {a, b, c} |->
     CASE t = a -> Semaphores(<<"wait", "wait", "signal", "wait", "signal">>)
                     \o <<OnLock("lock", lock2), OnLock("unlock", lock2)>>
       [] t = b -> Semaphores(<<"wait", "signal", "wait">>) \o <<OnLock("spin_lock", lock1)>>
                     \o Semaphores(<<"wait", "signal">>)
                     \o <<OnLock("lock", lock2), OnLock("unlock", lock2)>>
       [] t = c -> <<OnLock("unlock", lock1)>>
                     \o Semaphores(<<"wait", "signal", "signal", "wait", "signal">>)
                     \o <<OnLock("unlock", lock1)>>]

InsertedThree == <<c, a, b>>
=============================================================================
