----------------------------- MODULE SleepTimer -----------------------------
(***************************************************************************)
(* The TimeQueue on its own: threads that call sleep_milliseconds() /      *)
(* sleep_seconds() and the scheduler calling check(), against a clock.     *)
(* LastMayJoin says whether a sleeper may arrive whose deadline is not     *)
(* before that of some thread already asleep.                              *)
(***************************************************************************)
EXTENDS TimeQueue

CONSTANTS
  Durations,    \* how long a thread may ask to sleep, in clock units
  MaxTime,      \* bound on the clock
  LastMayJoin   \* BOOLEAN

ASSUME SleepTimerAssumption ==
  /\ Durations \subseteq Nat \ {0}
  /\ MaxTime \in Nat
  /\ LastMayJoin \in BOOLEAN

VARIABLE now   \* platform.time()

vars == <<elements, head, tail, now>>

Asleep(t) == \E s \in Slot : elements[s].valid /\ elements[s].tid = t

Init == QueueInit /\ now = 0

\* sleep_milliseconds(), sleep_seconds(): a thread that is awake inserts itself.
Sleep(t, d) ==
  /\ ~Asleep(t)
  /\ ~Full
  /\ now + d <= MaxTime
  /\ head # NULL /\ ~LastMayJoin => ~NoneLater(now + d)
  /\ Insert(t, now + d)
  /\ UNCHANGED now

\* next() calls check() first, and makes the thread it returns runnable.
Check == Due(now) /\ PopHead /\ UNCHANGED now

Elapse == now < MaxTime /\ now' = now + 1 /\ UNCHANGED queueVars

Next ==
  \/ \E t \in Thread, d \in Durations : Sleep(t, d)
  \/ Check
  \/ Elapse

Spec == Init /\ [][Next]_vars

\* The timer interrupt calls next() for ever, and time passes.
FairSpec == Spec /\ WF_vars(Check) /\ WF_vars(Elapse)

-----------------------------------------------------------------------------
\* A thread's deadline, read from the element it occupies.
Deadline ==
  [t \in Thread |->
     IF Asleep(t)
     THEN elements[CHOOSE s \in Slot : elements[s].valid /\ elements[s].tid = t].when
     ELSE NULL]

Abstract == INSTANCE SleepQueue WITH deadline <- Deadline

\* The array of linked elements implements the promise of sleep: nobody wakes
\* early, out of order, or never (TimeQueue.insert and TimeQueue.check).
SleepPromise == Abstract!Spec
=============================================================================
