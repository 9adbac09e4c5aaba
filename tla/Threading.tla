----------------------------- MODULE Threading -----------------------------
(***************************************************************************)
(* The thread Manager of kernel/threading.zig on top of its scheduler:     *)
(* processes and kernel threads are created, end, and wait for each other, *)
(* for the keyboard (kernel/platform/ps2.zig) and for the clock, through   *)
(* the system calls of kernel/platform/system_calls.zig.                   *)
(***************************************************************************)
EXTENDS Scheduler

CONSTANTS
  Boot,           \* Manager.boot_thread
  KernelThread,   \* threads given to insert_thread() by the boot thread
  KeyReaders,     \* the processes whose program reads the keyboard
  Sleepers,       \* the processes whose program sleeps
  KeyCapacity,    \* length of ps2.keyboard_buffer (128)
  Durations,      \* sleep times, in clock units
  MaxTime         \* bound on the clock

ASSUME ThreadingAssumption ==
  /\ Boot \in Thread \ ({Idle} \cup Process)
  /\ KernelThread \subseteq Thread \ ({Idle, Boot} \cup Process)
  /\ KeyReaders \subseteq Process
  /\ Sleepers \subseteq Process
  /\ KeyCapacity \in Nat \ {0}
  /\ Durations \subseteq Nat \ {0}
  /\ MaxTime \in Nat

VARIABLES
  unused,         \* threads not created yet
  wake_on_exit,   \* Thread.wake_on_exit
  exit_info,      \* keys of exit_info_map
  target,         \* the thread a waiting thread waits for, or has created
  waiting_for_keyboard,
  keyboard_buffer   \* number of events in ps2.keyboard_buffer

listVars == <<order, thread_list, unused>>
keyVars == <<waiting_for_keyboard, keyboard_buffer>>
waitVars == <<wake_on_exit, exit_info, target>>
vars == <<listVars, switchVars, keyVars, waitVars, queueVars, pc, now>>

Points == {"run", "started", "waited", "key", "key_gap", "sleeping", "inserted", "gone"}

\* Manager.init(): idle_thread is inserted first and waits; boot_thread runs.
Init ==
  /\ order = <<Idle, Boot>>
  /\ thread_list = {Idle, Boot}
  /\ unused = Process \cup KernelThread
  /\ state = [t \in Thread |-> IF t = Idle THEN "Wait" ELSE "Run"]
  /\ wake_on_exit = [t \in Thread |-> NULL]
  /\ exit_info = {}
  /\ current = Boot
  /\ context = [t \in Thread |-> IF t = Boot THEN "in_use" ELSE "unset"]
  /\ pc = [t \in Thread |-> "run"]
  /\ target = [t \in Thread |-> NULL]
  /\ interrupts = TRUE
  /\ preempted = {}
  /\ in_tick = FALSE
  /\ waiting_for_keyboard = NULL
  /\ keyboard_buffer = 0
  /\ QueueInit
  /\ now = 0
  /\ halted = "no"

-----------------------------------------------------------------------------
(* Interrupts and time *)

Elapse ==
  /\ halted = "no"
  /\ now < MaxTime
  /\ now' = now + 1
  /\ UNCHANGED <<listVars, switchVars, keyVars, waitVars, queueVars, pc>>

\* IRQ 0, for whatever thread is interrupted.
Tick == UNCHANGED <<listVars, keyVars, waitVars, pc, now>> /\ TimerInterrupt

\* Mutant: a full buffer is not noticed.
PushAnyway == keyboard_buffer' = keyboard_buffer + 1

\* CircularBuffer.push() discards the newest event when it is full.
PushKey ==
  keyboard_buffer' = IF keyboard_buffer = KeyCapacity
                     THEN keyboard_buffer ELSE keyboard_buffer + 1

\* Mutant: waiting_for_keyboard is not reset.
WakeKeyReaderOnly ==
  /\ UNCHANGED waiting_for_keyboard
  /\ state' = IF waiting_for_keyboard = NULL THEN state
              ELSE [state EXCEPT ![waiting_for_keyboard] = "Run"]

\* keyboard_event_occurred() of the Manager.
WakeKeyReader ==
  /\ waiting_for_keyboard' = NULL
  /\ state' = IF waiting_for_keyboard = NULL THEN state
              ELSE [state EXCEPT ![waiting_for_keyboard] = "Run"]

\* IRQ 1: an event is pushed, and the thread that waits for one runs again.
KeyboardEvent ==
  /\ halted = "no"
  /\ interrupts /\ ~in_tick
  /\ PushKey
  /\ WakeKeyReader
  /\ UNCHANGED <<listVars, current, context, interrupts, preempted, in_tick, halted,
                 waitVars, queueVars, pc, now>>

-----------------------------------------------------------------------------
(* Creating and ending threads *)

\* System call yield.
SyscallYield(t) ==
  /\ Running(t) /\ t \in Process /\ pc[t] = "run"
  /\ UNCHANGED <<listVars, keyVars, waitVars, pc, now>>
  /\ YieldFrom(state, FALSE)

\* exec_elf() up to start_process(): the new main thread joins the end of the
\* list and is switched to at once; its creator can still run.
StartProcess(t, p) ==
  /\ Running(t) /\ t \in Process \cup {Boot} /\ pc[t] = "run"
  /\ p \in unused \cap Process
  /\ order' = Append(order, p)
  /\ thread_list' = thread_list \cup {p}
  /\ unused' = unused \ {p}
  /\ pc' = [pc EXCEPT ![t] = "started"]
  /\ target' = [target EXCEPT ![t] = p]
  /\ SwitchTo(p, FALSE)
  /\ UNCHANGED <<state, keyVars, wake_on_exit, exit_info, queueVars, now>>

\* Mutant: whether the thread still exists is not asked.
AwaitExitUnasked(t, x, found) ==
  /\ wake_on_exit' = [wake_on_exit EXCEPT ![x] = t]
  /\ YieldFrom([state EXCEPT ![t] = "Wait"], FALSE)

\* The common part of wait_for_process() and wait_for_thread(): found tells
\* whether the list that is searched still has x.
AwaitExit(t, x, found) ==
  \/ /\ found
     /\ wake_on_exit[x] # NULL
     /\ Halt("panic")
     /\ UNCHANGED <<wake_on_exit, queueVars>>
  \/ /\ found
     /\ wake_on_exit[x] = NULL
     /\ wake_on_exit' = [wake_on_exit EXCEPT ![x] = t]
     /\ YieldFrom([state EXCEPT ![t] = "Wait"], FALSE)
  \/ /\ ~found
     /\ interrupts' = FALSE
     /\ UNCHANGED <<state, current, context, preempted, in_tick, halted,
                    wake_on_exit, queueVars>>

\* wait_for_process(), when the creator of the process runs again.
WaitForProcess(t) ==
  /\ Running(t) /\ pc[t] = "started"
  /\ pc' = [pc EXCEPT ![t] = "waited"]
  /\ UNCHANGED <<listVars, keyVars, exit_info, target, now>>
  /\ AwaitExit(t, target[t], target[t] \in Threads(order))

\* The end of wait_for_process(): without an exit info, exec's caller panics.
\* kernel.run() waits for init only, and shuts the machine down.
ExecReturns(t) ==
  /\ Running(t) /\ pc[t] = "waited" /\ target[t] \in Process
  /\ pc' = [pc EXCEPT ![t] = "run"]
  /\ UNCHANGED <<listVars, keyVars, waitVars, queueVars, now>>
  /\ IF target[t] \notin exit_info THEN Halt("panic")
     ELSE IF t = Boot THEN Halt("shutdown")
     ELSE /\ interrupts' = TRUE
          /\ UNCHANGED <<state, current, context, preempted, in_tick, halted>>

\* Mutant: the waiter is forgotten.
WakesNobody(t) == state

\* Thread.finish(): the thread that waits for the end of t runs again.
Woken(t) ==
  IF wake_on_exit[t] = NULL THEN state ELSE [state EXCEPT ![wake_on_exit[t]] = "Run"]

\* remove_current_thread(): remove_thread() and a yield that does not return.
\* find_remove() takes no offence at a thread that thread_list does not have.
RemoveCurrentThread(t) ==
  LET i == Position(order, t)
  IN /\ order' = Unlink(order, i)
     /\ thread_list' = thread_list \ {t}
     /\ pc' = [pc EXCEPT ![t] = "gone"]
     /\ Yield(Woken(t), Unlink(order, i), i - 1, FALSE)
     /\ UNCHANGED <<unused, keyVars, wake_on_exit, target, now>>

\* Mutant: nothing is put into exit_info_map.
RecordsNothing(t) == UNCHANGED exit_info

RecordExit(t) == exit_info' = exit_info \cup {t}

\* exit_current_process(), by the exit system call or after a crash.
ExitProcess(t) ==
  /\ Running(t) /\ t \in Process /\ pc[t] = "run"
  /\ RecordExit(t)
  /\ RemoveCurrentThread(t)

\* run_impl(): the entry function of a kernel thread returns.
EndKernelThread(t) ==
  /\ Running(t) /\ t \in KernelThread /\ pc[t] = "run"
  /\ UNCHANGED exit_info
  /\ RemoveCurrentThread(t)

\* insert_thread(), called by the boot thread with interrupts enabled: the
\* thread is linked into the system list first ...
InsertThread(t, k) ==
  /\ Running(t) /\ t = Boot /\ pc[t] = "run"
  /\ k \in unused \cap KernelThread
  /\ order' = Append(order, k)
  /\ unused' = unused \ {k}
  /\ pc' = [pc EXCEPT ![t] = "inserted"]
  /\ target' = [target EXCEPT ![t] = k]
  /\ UNCHANGED <<thread_list, switchVars, keyVars, wake_on_exit, exit_info,
                 queueVars, now>>

\* ... and then entered in thread_list.
EnterThread(t) ==
  /\ Running(t) /\ pc[t] = "inserted"
  /\ thread_list' = thread_list \cup {target[t]}
  /\ pc' = [pc EXCEPT ![t] = "run"]
  /\ UNCHANGED <<order, unused, switchVars, keyVars, waitVars, queueVars, now>>

\* wait_for_thread(k), by the boot thread or another kernel thread.
WaitForThread(t, k) ==
  /\ Running(t) /\ t \in KernelThread \cup {Boot} /\ pc[t] = "run"
  /\ k \in KernelThread \ unused
  /\ UNCHANGED <<listVars, keyVars, exit_info, target, pc, now>>
  /\ AwaitExit(t, k, k \in thread_list)

-----------------------------------------------------------------------------
(* The keyboard and sleep system calls *)

\* get_key(): one turn of the system call's loop.  Popping enables interrupts,
\* whatever they were.
GetKey(t) ==
  /\ Running(t) /\ t \in KeyReaders /\ pc[t] \in {"run", "key"}
  /\ IF keyboard_buffer > 0
     THEN /\ keyboard_buffer' = keyboard_buffer - 1
          /\ pc' = [pc EXCEPT ![t] = "run"]
     ELSE /\ pc' = [pc EXCEPT ![t] = "key_gap"]
          /\ UNCHANGED keyboard_buffer
  /\ interrupts' = TRUE
  /\ UNCHANGED <<listVars, state, current, context, preempted, in_tick, halted,
                 waiting_for_keyboard, waitVars, queueVars, now>>

\* wait_for_keyboard(), after get_key() found nothing.
WaitForKeyboard(t) ==
  /\ Running(t) /\ pc[t] = "key_gap"
  /\ waiting_for_keyboard' = t
  /\ pc' = [pc EXCEPT ![t] = "key"]
  /\ UNCHANGED <<listVars, keyboard_buffer, waitVars, now>>
  /\ YieldFrom([state EXCEPT ![t] = "Wait"], FALSE)

\* sleep_milliseconds(), sleep_seconds(), up to the yield: the clock goes on
\* between the two although interrupts are disabled.
Sleep(t, d) ==
  /\ Running(t) /\ t \in Sleepers /\ pc[t] = "run"
  /\ now + d <= MaxTime
  /\ IF Full
     THEN Halt("panic") /\ UNCHANGED <<queueVars, pc>>
     ELSE /\ Insert(t, now + d)
          /\ state' = [state EXCEPT ![t] = "Wait"]
          /\ interrupts' = FALSE
          /\ pc' = [pc EXCEPT ![t] = "sleeping"]
          /\ UNCHANGED <<current, context, preempted, in_tick, halted>>
  /\ UNCHANGED <<listVars, keyVars, waitVars, now>>

SleepYield(t) ==
  /\ Running(t) /\ pc[t] = "sleeping"
  /\ pc' = [pc EXCEPT ![t] = "run"]
  /\ UNCHANGED <<listVars, keyVars, waitVars, now>>
  /\ YieldFrom(state, FALSE)

-----------------------------------------------------------------------------
\* What kernel code does next on behalf of t, once it has the CPU.
KernelStep(t) ==
  \/ WaitForProcess(t)
  \/ ExecReturns(t)
  \/ EnterThread(t)
  \/ pc[t] = "key" /\ GetKey(t)
  \/ WaitForKeyboard(t)
  \/ SleepYield(t)

\* What the program of t may do.
ProgramStep(t) ==
  \/ SyscallYield(t)
  \/ \E p \in Process : StartProcess(t, p)
  \/ ExitProcess(t)
  \/ EndKernelThread(t)
  \/ \E k \in KernelThread : InsertThread(t, k)
  \/ \E k \in KernelThread : WaitForThread(t, k)
  \/ pc[t] = "run" /\ GetKey(t)
  \/ \E d \in Durations : Sleep(t, d)

Stopped == halted # "no" /\ UNCHANGED vars

Next ==
  \/ \E t \in Thread : KernelStep(t) \/ ProgramStep(t)
  \/ Tick
  \/ KeyboardEvent
  \/ Elapse
  \/ Stopped

Spec == Init /\ [][Next]_vars

\* The timer interrupt keeps coming, the clock keeps going and a thread that
\* has the CPU inside the kernel gets on with it.  A program does as it likes.
Fairness ==
  /\ WF_vars(Tick)
  /\ WF_vars(Elapse)
  /\ \A t \in Thread : SF_vars(KernelStep(t))

FairSpec == Spec /\ Fairness

-----------------------------------------------------------------------------
(* Properties *)

TypeOK ==
  /\ SchedulerTypeOK
  /\ unused \in SUBSET (Process \cup KernelThread)
  /\ wake_on_exit \in [Thread -> Thread \cup {NULL}]
  /\ exit_info \in SUBSET Process
  /\ pc \in [Thread -> Points]
  /\ target \in [Thread -> Thread \cup {NULL}]
  /\ waiting_for_keyboard \in Thread \cup {NULL}
  /\ keyboard_buffer \in 0..KeyCapacity
  /\ now \in 0..MaxTime

\* The CPU is only ever given to a thread that exists and may run, and the one
\* that has it keeps the right to run until it gives it up: next() never picks
\* a waiting or a removed thread, whatever woke, slept or ended in between.
\* (A sleeping thread is on its way to the yield that gives the CPU away.)
CurrentMayRun ==
  halted = "no" =>
    /\ current \in Threads(order)
    /\ state[current] = "Run" \/ pc[current] = "sleeping"

\* The reasons a thread may have to wait: the one-place keyboard slot, an
\* element of the time queue that check() will reach, wake_on_exit of a thread
\* that has not ended.
AwaitsKeyboard(t) == waiting_for_keyboard = t
AwaitsTime(t) == \E s \in Linked : elements[s].valid /\ elements[s].tid = t
AwaitsExit(t) == \E c \in Threads(order) : wake_on_exit[c] = t

\* A process, or whoever execs one, waits if and only if exactly one of these will
\* wake it.  None is left waiting for ever by a registration that was overwritten or
\* dropped, and none holds a stale registration that would end a later wait too early.
\* (Who waits for a kernel thread may wait for ever: insert_thread() has a gap.)
EveryWaiterHasOneWaker ==
  halted = "no" =>
    \A t \in Threads(order) :
      LET reasons == {r \in {"key", "time", "exit"} :
                        \/ r = "key" /\ AwaitsKeyboard(t)
                        \/ r = "time" /\ AwaitsTime(t)
                        \/ r = "exit" /\ AwaitsExit(t)}
      IN (t \in Process \/ pc[t] = "waited") =>
           Cardinality(reasons) = (IF state[t] = "Wait" THEN 1 ELSE 0)

\* exec never trips over its own bookkeeping: nobody waits twice for a process,
\* its exit info is there when the wait is over, and the time queue has room.
NeverPanics == halted # "panic"

\* A thread that ends leaves someone for next() to find ("endless_walk").
EndingThreadLeavesSuccessor == halted # "endless_walk"

\* switch_to() never loads a stack pointer that was not saved by the last switch
\* away from that thread.
NeverLoadsStaleContext == halted # "stale_context"

\* The idle thread gets the CPU only when no other thread can use it.
IdleIsLastResort ==
  [][current' = Idle /\ current # Idle /\ halted' = "no" =>
       \A t \in Threads(order') \ {Idle} : state'[t] = "Wait"]_vars

\* A sleeping thread sleeps on until its deadline, whatever else happens: no key,
\* no exit and no other sleeper's deadline makes it run.
SleepsUntilDeadline ==
  [][\A t \in Thread, s \in Slot :
       (/\ elements[s].valid /\ elements[s].tid = t
        /\ state[t] = "Wait" /\ state'[t] = "Run") => now >= elements[s].when]_vars

\* ... and then it gets the CPU, unless a kernel thread keeps interrupts off for ever.
SleeperRunsAgain ==
  []<>(halted # "no" \/ (interrupts /\ ~in_tick)) =>
  \A t \in Sleepers :
    (state[t] = "Wait" /\ AwaitsTime(t)) ~>
      ((current = t /\ state[t] = "Run") \/ halted # "no")

\* Round robin: a thread that can run gets the CPU, or stops being able to.
EveryReadyThreadRuns ==
  \A t \in Thread \ {Idle} :
    (t \in Threads(order) /\ state[t] = "Run") ~>
       (current = t \/ state[t] # "Run" \/ halted # "no")

\* exec returns to the parent once the child has ended, however the two races
\* of start_process() and wait_for_process() with the child's exit turn out.
ExecReturnsToParent ==
  \A t \in Process \cup {Boot}, c \in Process :
    (target[t] = c /\ pc[t] \in {"started", "waited"} /\ pc[c] = "gone") ~>
       (pc[t] = "run" \/ halted # "no")
=============================================================================
