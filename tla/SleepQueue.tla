----------------------------- MODULE SleepQueue -----------------------------
(***************************************************************************)
(* What sleep_milliseconds() and sleep_seconds() promise: a sleeper stays  *)
(* asleep until its deadline, sleepers wake in the order of their          *)
(* deadlines, and none is forgotten.                                       *)
(***************************************************************************)
EXTENDS Naturals

CONSTANTS Thread, NULL, Durations, MaxTime

VARIABLES
  deadline,  \* thread -> when it must wake, NULL while it is awake
  now

Init == deadline = [t \in Thread |-> NULL] /\ now = 0

Sleep(t, d) ==
  /\ deadline[t] = NULL
  /\ deadline' = [deadline EXCEPT ![t] = now + d]
  /\ UNCHANGED now

Wake(t) ==
  /\ deadline[t] # NULL
  /\ deadline[t] <= now
  /\ \A u \in Thread : deadline[u] # NULL => deadline[t] <= deadline[u]
  /\ deadline' = [deadline EXCEPT ![t] = NULL]
  /\ UNCHANGED now

Elapse == now < MaxTime /\ now' = now + 1 /\ UNCHANGED deadline

Next ==
  \/ \E t \in Thread, d \in Durations : Sleep(t, d)
  \/ \E t \in Thread : Wake(t)
  \/ Elapse

Spec == Init /\ [][Next]_<<deadline, now>>
             /\ WF_<<deadline, now>>(\E t \in Thread : Wake(t))
             /\ WF_now(Elapse)
=============================================================================
