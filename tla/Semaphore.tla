----------------------------- MODULE Semaphore -----------------------------
(***************************************************************************)
(* Lock and Semaphore of kernel/sync.zig, used by kernel threads that the  *)
(* timer interrupt may preempt between any two steps.  Each thread runs a  *)
(* straight program of lock and semaphore operations; the boot thread has  *)
(* inserted them all and waits for each in turn, as system_tests() does.   *)
(***************************************************************************)
EXTENDS Threading

CONSTANTS
  Lock,           \* the locks of the programs
  SemLock,        \* Semaphore.lock
  LockedAtStart,  \* locks whose initial value is locked
  InitialValue,   \* Semaphore.value at first
  MaxValue,       \* the largest value of its type
  AllocMayFail,   \* BOOLEAN: whether queue.push_back() may run out of memory
  Started,        \* the kernel threads in the order of their insertion
  Program         \* kernel thread -> sequence of [op, lock]

Op == {"lock", "spin_lock", "unlock", "wait", "signal"}

ASSUME SemaphoreAssumption ==
  /\ SemLock \notin Lock
  /\ LockedAtStart \subseteq Lock
  /\ MaxValue \in Nat
  /\ InitialValue \in 0..MaxValue
  /\ AllocMayFail \in BOOLEAN
  /\ Started \in Seq(KernelThread)
  /\ \A i, k \in DOMAIN Started : Started[i] = Started[k] => i = k
  /\ Program \in [KernelThread -> Seq([op : Op, lock : Lock \cup {SemLock}])]
  \* Only wait() and signal() touch the semaphore's own lock.
  /\ \A t \in KernelThread : \A i \in DOMAIN Program[t] :
       Program[t][i].lock = SemLock <=> Program[t][i].op \in {"wait", "signal"}

VARIABLES
  locked,   \* Lock.locked
  value,    \* Semaphore.value
  queue,    \* Semaphore.queue
  ip,       \* which operation of its program a thread is at; boot: which wait
  at        \* how far it is inside that operation

syncVars == <<locked, value, queue, ip, at>>
managerVars == vars
allVars == <<vars, syncVars>>

\* Inside the semaphore's lock, and the rest.
Section == {"test", "queued", "asleep", "release", "add", "pop"}
Stages == Section \cup {"start", "yield", "blocked"}

SyncInit ==
  /\ order = <<Idle, Boot>> \o Started
  /\ thread_list = Threads(order)
  /\ unused = (Process \cup KernelThread) \ thread_list
  /\ state = [t \in Thread |-> IF t = Idle THEN "Wait" ELSE "Run"]
  /\ wake_on_exit = [t \in Thread |-> NULL]
  /\ exit_info = {}
  /\ current = Boot
  /\ context = [t \in Thread |-> IF t = Boot THEN "in_use" ELSE "unset"]
  /\ pc = [t \in Thread |-> "run"]
  /\ target = [t \in Thread |-> NULL]
  /\ interrupts = TRUE
  /\ preempted = {}
  /\ in_tick = FALSE
  /\ waiting_for_keyboard = NULL
  /\ keyboard_buffer = 0
  /\ QueueInit
  /\ now = 0
  /\ halted = "no"
  /\ locked = [l \in Lock \cup {SemLock} |-> l \in LockedAtStart]
  /\ value = InitialValue
  /\ queue = <<>>
  /\ ip = [t \in Thread |-> 1]
  /\ at = [t \in Thread |-> "start"]

-----------------------------------------------------------------------------
\* Thread t has the CPU and stands at the given stage of an operation of the
\* given kind.
AtStage(t, ops, stage) ==
  /\ Running(t)
  /\ t \in KernelThread
  /\ ip[t] \in DOMAIN Program[t]
  /\ Program[t][ip[t]].op \in ops
  /\ at[t] = stage

Moves(t, stage) == at' = [at EXCEPT ![t] = stage] /\ UNCHANGED ip

Returns(t) == ip' = [ip EXCEPT ![t] = @ + 1] /\ at' = [at EXCEPT ![t] = "start"]

\* Mutant: a swap that does not compare.
AcquireAnyway(l) == locked' = [locked EXCEPT ![l] = TRUE]

\* The compare-and-swap that succeeds, of Lock.lock() and of spin_lock().
Acquire(l) == ~locked[l] /\ locked' = [locked EXCEPT ![l] = TRUE]

\* Lock.unlock() of a lock that is locked.
Release(l) == locked[l] /\ locked' = [locked EXCEPT ![l] = FALSE]

\* The caller of lock(), or unlock() itself, panics.
PanicsAt(l, isLocked) ==
  /\ locked[l] = isLocked
  /\ halted' = "panic"
  /\ UNCHANGED <<listVars, state, current, context, interrupts, preempted, in_tick,
                 keyVars, waitVars, queueVars, pc, now, syncVars>>

LockOrPanic(t) ==
  /\ AtStage(t, {"lock"}, "start")
  /\ LET l == Program[t][ip[t]].lock
     IN \/ Acquire(l) /\ Returns(t) /\ UNCHANGED <<managerVars, value, queue>>
        \/ PanicsAt(l, TRUE)

SpinLock(t) ==
  /\ AtStage(t, {"spin_lock"}, "start")
  /\ Acquire(Program[t][ip[t]].lock)
  /\ Returns(t)
  /\ UNCHANGED <<managerVars, value, queue>>

Unlock(t) ==
  /\ AtStage(t, {"unlock"}, "start")
  /\ LET l == Program[t][ip[t]].lock
     IN \/ Release(l) /\ Returns(t) /\ UNCHANGED <<managerVars, value, queue>>
        \/ PanicsAt(l, FALSE)

-----------------------------------------------------------------------------
(* wait() *)

WaitLock(t) ==
  /\ AtStage(t, {"wait"}, "start")
  /\ Acquire(SemLock)
  /\ Moves(t, "test")
  /\ UNCHANGED <<managerVars, value, queue>>

WaitTake(t) ==
  /\ AtStage(t, {"wait"}, "test")
  /\ value > 0
  /\ value' = value - 1
  /\ Moves(t, "release")
  /\ UNCHANGED <<managerVars, locked, queue>>

\* push_back() needs memory.  If there is none wait() returns an error with the
\* lock held, and AcpiOsWaitSemaphore() calls it again.
WaitQueue(t) ==
  /\ AtStage(t, {"wait"}, "test")
  /\ value = 0
  /\ \/ queue' = Append(queue, t) /\ Moves(t, "queued")
     \/ AllocMayFail /\ UNCHANGED queue /\ Moves(t, "start")
  /\ UNCHANGED <<managerVars, locked, value>>

WaitStops(t) ==
  /\ AtStage(t, {"wait"}, "queued")
  /\ state' = [state EXCEPT ![t] = "Wait"]
  /\ Moves(t, "asleep")
  /\ UNCHANGED <<listVars, current, context, interrupts, preempted, in_tick, halted,
                 keyVars, waitVars, queueVars, pc, now, locked, value, queue>>

WaitUnlock(t) ==
  /\ AtStage(t, {"wait"}, "asleep")
  /\ Release(SemLock)
  /\ Moves(t, "yield")
  /\ UNCHANGED <<managerVars, value, queue>>

WaitYield(t) ==
  /\ AtStage(t, {"wait"}, "yield")
  /\ Moves(t, "blocked")
  /\ UNCHANGED <<listVars, keyVars, waitVars, pc, now, locked, value, queue>>
  /\ YieldFrom(state, FALSE)

\* The thread has the CPU again: wait() returns, value is left as it is.
WaitWakes(t) ==
  /\ AtStage(t, {"wait"}, "blocked")
  /\ Returns(t)
  /\ UNCHANGED <<managerVars, locked, value, queue>>

-----------------------------------------------------------------------------
(* signal() *)

SignalLock(t) ==
  /\ AtStage(t, {"signal"}, "start")
  /\ Acquire(SemLock)
  /\ Moves(t, "add")
  /\ UNCHANGED <<managerVars, value, queue>>

\* MaxValue bounds the value: at the maximum of its type the addition would trap.
SignalAdd(t) ==
  /\ AtStage(t, {"signal"}, "add")
  /\ value < MaxValue
  /\ value' = value + 1
  /\ Moves(t, "pop")
  /\ UNCHANGED <<managerVars, locked, queue>>

\* Mutant: the thread that is popped is not made runnable.
SignalPopOnly(t) ==
  /\ AtStage(t, {"signal"}, "pop")
  /\ queue' = IF queue = <<>> THEN queue ELSE Tail(queue)
  /\ Moves(t, "release")
  /\ UNCHANGED <<managerVars, locked, value>>

\* One turn of the loop: a thread that has ended is passed over.
SignalPop(t) ==
  /\ AtStage(t, {"signal"}, "pop")
  /\ IF queue = <<>>
     THEN Moves(t, "release") /\ UNCHANGED <<state, queue>>
     ELSE /\ queue' = Tail(queue)
          /\ IF Head(queue) \in thread_list
             THEN /\ state' = [state EXCEPT ![Head(queue)] = "Run"]
                  /\ Moves(t, "release")
             ELSE UNCHANGED <<state, ip, at>>
  /\ UNCHANGED <<listVars, current, context, interrupts, preempted, in_tick, halted,
                 keyVars, waitVars, queueVars, pc, now, locked, value>>

\* The unlock() that ends wait() or signal().
ReleaseAndReturn(t) ==
  /\ AtStage(t, {"wait", "signal"}, "release")
  /\ Release(SemLock)
  /\ Returns(t)
  /\ UNCHANGED <<managerVars, value, queue>>

-----------------------------------------------------------------------------
\* The entry function returns, and the thread ends.
EndThread(t) ==
  /\ t \in KernelThread
  /\ ip[t] = Len(Program[t]) + 1
  /\ EndKernelThread(t)
  /\ UNCHANGED syncVars

\* system_tests(): the boot thread waits for each thread in turn.
BootWaits ==
  /\ ip[Boot] \in DOMAIN Started
  /\ WaitForThread(Boot, Started[ip[Boot]])
  /\ Returns(Boot)
  /\ UNCHANGED <<locked, value, queue>>

Preempt == Tick /\ UNCHANGED syncVars

ThreadStep(t) ==
  \/ LockOrPanic(t) \/ SpinLock(t) \/ Unlock(t)
  \/ WaitLock(t) \/ WaitTake(t) \/ WaitQueue(t) \/ WaitStops(t)
  \/ WaitUnlock(t) \/ WaitYield(t) \/ WaitWakes(t)
  \/ SignalLock(t) \/ SignalAdd(t) \/ SignalPop(t)
  \/ ReleaseAndReturn(t)
  \/ EndThread(t)

SyncNext == (\E t \in KernelThread : ThreadStep(t)) \/ BootWaits \/ Preempt

SyncSpec == SyncInit /\ [][SyncNext]_allVars

-----------------------------------------------------------------------------
(* Properties *)

SyncTypeOK ==
  /\ TypeOK
  /\ locked \in [Lock \cup {SemLock} -> BOOLEAN]
  /\ value \in 0..MaxValue
  /\ queue \in Seq(KernelThread)
  /\ ip \in [Thread -> Nat]
  /\ at \in [Thread -> Stages]

\* The fields of a semaphore are only touched by one thread at a time, wherever
\* the timer interrupts wait() or signal().
SemaphoreExclusion ==
  \A t, u \in KernelThread : at[t] \in Section /\ at[u] \in Section => t = u

\* A thread stopped in wait() is in the queue where signal() will find it, and the
\* queue holds no thread that no longer waits: no wake-up is lost or spent twice.
WaitersAreQueued ==
  /\ SyncTypeOK
  /\ \A t \in KernelThread :
       (at[t] = "queued" \/ (at[t] \in Stages \ {"queued"} /\ state[t] = "Wait"))
         <=> t \in {queue[i] : i \in DOMAIN queue}
=============================================================================
