----------------------------- MODULE RoundRobin -----------------------------
(***************************************************************************)
(* The walk of Manager.next() in kernel/threading.zig over the system list *)
(* of threads (prev_in_system / next_in_system, head_thread, tail_thread). *)
(* The doubly linked list is a sequence: next_from() is the successor, and *)
(* the head after the tail.                                                *)
(***************************************************************************)
EXTENDS Naturals, Sequences

Threads(list) == {list[i] : i \in DOMAIN list}

\* remove_thread() unlinks the i-th thread of the list.
Unlink(list, i) == SubSeq(list, 1, i - 1) \o SubSeq(list, i + 1, Len(list))

\* How many calls of next_from() lead from position "here" to position i.
Steps(list, here, i) == IF i > here THEN i - here ELSE (i + Len(list)) - here

\* The walk starts after position "here" and takes the first thread of the set
\* ready it meets; pos is where it stops.
FirstReady(list, here, ready, pos) ==
  /\ pos \in DOMAIN list
  /\ list[pos] \in ready
  /\ \A i \in DOMAIN list :
       list[i] \in ready => Steps(list, here, pos) <= Steps(list, here, i)

\* The walk comes full circle without meeting a thread of ready.
NoneReady(list, ready) == Threads(list) \cap ready = {}
=============================================================================
