----------------------------- MODULE Scheduler -----------------------------
(***************************************************************************)
(* How the CPU passes from thread to thread: next() and yield() of the     *)
(* Manager in kernel/threading.zig, switch_to() and after_switch() in      *)
(* kernel/platform/threading.zig, and tick() in                            *)
(* kernel/platform/interrupts.zig.  Threading and Semaphore build on it.   *)
(*                                                                         *)
(* There is one CPU.  The thread "current" executes, and what interleaves  *)
(* with it are interrupts, which arrive only while "interrupts" is TRUE.   *)
(* A stretch of kernel code executed with interrupts disabled is one       *)
(* action, up to and including the context switch that ends it.            *)
(***************************************************************************)
EXTENDS TimeQueue, RoundRobin, FiniteSets

CONSTANTS
  Idle,           \* Manager.idle_thread
  Process         \* threads that execute in user mode: main threads of processes

ASSUME SchedulerAssumption ==
  /\ Idle \in Thread
  /\ Process \subseteq Thread \ {Idle}

VARIABLES
  order,          \* the system list: idle first, then in order of creation
  thread_list,    \* the threads thread_list.find() finds
  state,          \* Thread.state
  current,        \* current_thread
  context,        \* Thread.impl.context: not set up, saved, or in use on the CPU
  interrupts,     \* the CPU's interrupt flag
  preempted,      \* threads switched away from inside the timer interrupt
  in_tick,        \* interrupts.in_tick: IRQ 0 is not acknowledged, no IRQ arrives
  pc,             \* the point where a thread stands, or will continue
  now,            \* platform.time()
  halted          \* how the machine stopped, "no" while it runs

switchVars == <<state, current, context, interrupts, preempted, in_tick, halted>>

Endings == {"no", "shutdown", "panic", "stale_context", "endless_walk"}

-----------------------------------------------------------------------------
Position(list, t) == CHOOSE i \in DOMAIN list : list[i] = t

Running(t) == halted = "no" /\ current = t

Halt(how) ==
  /\ halted' = how
  /\ UNCHANGED <<state, current, context, interrupts, preempted, in_tick>>

(***************************************************************************)
(* ThreadImpl.switch_to() and what follows it in the thread it resumes;    *)
(* tick says whether tick() called it.  The stack pointer loaded is read   *)
(* before the current one is saved, so switching to the current thread     *)
(* loads the context of its last switch.  While in_tick is set,            *)
(* after_switch() acknowledges the IRQ and enables interrupts, whatever    *)
(* the thread was switched away for.  A thread that has not run yet starts *)
(* at run() instead: it enables interrupts but leaves the IRQ unanswered.  *)
(* The end of an interrupted handler acknowledges the IRQ again, and its   *)
(* iret, like that of a system call that is over, enables interrupts.      *)
(***************************************************************************)
ResumesEnabled(t, ticking) ==
  \/ ticking
  \/ t \in preempted
  \/ context[t] = "unset"
  \/ t \in Process /\ pc'[t] = "run"

\* Mutant: after_switch() does not acknowledge the IRQ.
NeverAcknowledged(t, ticking) == ticking

Unacknowledged(t, ticking) == ticking /\ context[t] = "unset"

SwitchTo(t, tick) ==
  IF context[t] = "in_use"
  THEN /\ halted' = "stale_context"
       /\ UNCHANGED <<current, context, interrupts, preempted, in_tick>>
  ELSE /\ current' = t
       /\ context' = [context EXCEPT ![current] = "saved", ![t] = "in_use"]
       /\ interrupts' = ResumesEnabled(t, tick \/ in_tick)
       /\ preempted' = (IF tick THEN preempted \cup {current} ELSE preempted) \ {t}
       /\ in_tick' = Unacknowledged(t, tick \/ in_tick)
       /\ UNCHANGED halted

(***************************************************************************)
(* yield(): next() and, if it finds a thread, switch_to().  st is the      *)
(* state of the threads when it is called, list the system list and here   *)
(* the position after which the walk starts: that of the current thread,   *)
(* or, once remove_thread() unlinked it, the position before the successor *)
(* its next_in_system still names.                                         *)
(***************************************************************************)
\* Mutant: the state of the thread to wake is not set.
ReturnSleeper(st, tick) ==
  /\ state' = st
  /\ SwitchTo(DueThread, tick)

WakeSleeper(st, tick) ==
  /\ state' = [st EXCEPT ![DueThread] = "Run"]
  /\ SwitchTo(DueThread, tick)

\* Mutant: the state of the threads the walk meets is not looked at.
AnyOther(st) == Thread \ {current}

Others(st) == {t \in Thread \ {current} : st[t] = "Run"}

\* Mutant: idle_thread stays runnable.
TakeTurnIdleToo(st, list, here, tick) ==
  \E pos \in DOMAIN list :
    /\ FirstReady(list, here, Others(st), pos)
    /\ state' = st
    /\ SwitchTo(list[pos], tick)

\* The walk stops at a thread that runs; idle_thread goes back to waiting
\* unless it is the one.
TakeTurn(st, list, here, tick) ==
  \E pos \in DOMAIN list :
    /\ FirstReady(list, here, Others(st), pos)
    /\ state' = IF list[pos] # Idle /\ st[Idle] = "Run"
                THEN [st EXCEPT ![Idle] = "Wait"]
                ELSE st
    /\ SwitchTo(list[pos], tick)

\* Mutant: next() returns the current thread instead of null.
SwitchToItself(st, tick) ==
  /\ st[current] = "Run"
  /\ state' = st
  /\ SwitchTo(current, tick)

\* The walk is back at the current thread: it goes on if it runs, ...
GoOn(st, tick) ==
  /\ st[current] = "Run"
  /\ state' = st
  /\ interrupts' = (tick \/ current \in Process)
  /\ in_tick' = (in_tick /\ ~tick)
  /\ UNCHANGED <<current, context, preempted, halted>>

\* ... else idle_thread takes over.
GoIdle(st, tick) ==
  /\ st[current] # "Run"
  /\ state' = [st EXCEPT ![Idle] = "Run"]
  /\ SwitchTo(Idle, tick)

\* The walk of a thread that is no longer in the list meets nobody that runs.
WalkForEver(st) ==
  /\ state' = st
  /\ halted' = "endless_walk"
  /\ UNCHANGED <<current, context, interrupts, preempted, in_tick>>

Walk(st, list, here, tick) ==
  \/ TakeTurn(st, list, here, tick)
  \/ /\ NoneReady(list, Others(st))
     /\ IF current \in Threads(list)
        THEN GoOn(st, tick) \/ GoIdle(st, tick)
        ELSE WalkForEver(st)

Yield(st, list, here, tick) ==
  \/ /\ Due(now)
     /\ PopHead
     /\ IF DueThread \in thread_list'
        THEN WakeSleeper(st, tick)
        ELSE Walk(st, list, here, tick)
  \/ /\ ~Due(now)
     /\ UNCHANGED queueVars
     /\ Walk(st, list, here, tick)

YieldFrom(st, tick) == Yield(st, order, Position(order, current), tick)

\* IRQ 0: tick() yields on behalf of the thread it interrupts.
TimerInterrupt ==
  /\ halted = "no"
  /\ interrupts /\ ~in_tick
  /\ YieldFrom(state, TRUE)

-----------------------------------------------------------------------------
SchedulerTypeOK ==
  /\ order \in Seq(Thread)
  /\ thread_list \in SUBSET Thread
  /\ state \in [Thread -> {"Run", "Wait"}]
  /\ current \in Thread
  /\ context \in [Thread -> {"unset", "saved", "in_use"}]
  /\ interrupts \in BOOLEAN
  /\ preempted \in SUBSET Thread
  /\ in_tick \in BOOLEAN
  /\ halted \in Endings
  /\ QueueTypeOK
=============================================================================
