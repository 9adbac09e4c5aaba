-------------------------- MODULE ThreadingProofs --------------------------
(***************************************************************************)
(* Proofs about Threading, for any number of threads, sleepers, elements   *)
(* and keys, and at the end about Semaphore, which it is used by: for any  *)
(* programs of lock and semaphore operations, and any interleaving by the  *)
(* timer interrupt.  Nothing about Threading uses what Semaphore adds.     *)
(***************************************************************************)
EXTENDS Semaphore, SequenceTheorems, FiniteSetTheorems, TLAPS

NoDuplicates(list) == \A i, j \in DOMAIN list : list[i] = list[j] => i = j

\* What CurrentMayRun rests on: idle is always in the system list, a thread is
\* in it once, a thread can run from its creation on, and what the time queue
\* names is a process, which thread_list has only while the system list has it.
ListInv ==
  /\ Idle \in Threads(order)
  /\ NoDuplicates(order)
  /\ Threads(order) \cap unused = {}
  /\ \A t \in unused : state[t] = "Run"
  /\ thread_list \cap Process \subseteq Threads(order)
  /\ \A s \in Slot : elements[s].tid \in Process \cup {NULL}
  /\ \A t \in Thread : pc[t] = "inserted" => target[t] \in KernelThread
  /\ \A t \in Thread : pc[t] = "started" => target[t] \in Process

IInv == TypeOK /\ ListInv /\ CurrentMayRun

-----------------------------------------------------------------------------
(* The system list *)

\* Appending a thread (start_process, insert_thread) adds it and nothing else.
LEMMA AppendThread ==
  ASSUME NEW list \in Seq(Thread), NEW t \in Thread, t \notin Threads(list),
         NoDuplicates(list)
  PROVE  /\ Append(list, t) \in Seq(Thread)
         /\ Threads(Append(list, t)) = Threads(list) \cup {t}
         /\ NoDuplicates(Append(list, t))
<1> DEFINE new == Append(list, t)
<1>1. /\ new \in Seq(Thread)
      /\ DOMAIN new = 1..(Len(list) + 1)
      /\ \A i \in 1..Len(list) : new[i] = list[i]
      /\ new[Len(list) + 1] = t
      /\ DOMAIN list = 1..Len(list)
      /\ Len(list) \in Nat
  OBVIOUS
<1> HIDE DEF new
<1>2. Threads(new) = Threads(list) \cup {t}
  <2>1. ASSUME NEW x \in Threads(new) PROVE x \in Threads(list) \cup {t}
    BY <1>1 DEF Threads
  <2>2. ASSUME NEW x \in Threads(list) \cup {t} PROVE x \in Threads(new)
    <3>1. CASE x = t
      BY <3>1, <1>1 DEF Threads
    <3>2. CASE x \in Threads(list)
      <4>1. PICK i \in 1..Len(list) : list[i] = x
        BY <3>2, <1>1 DEF Threads
      <4>2. i \in DOMAIN new /\ new[i] = x
        BY <4>1, <1>1
      <4>3. QED BY <4>2 DEF Threads
    <3>3. QED BY <3>1, <3>2
  <2>3. QED BY <2>1, <2>2
<1>3. NoDuplicates(new)
  <2>1. \A i \in 1..Len(list) : new[i] \in Threads(list)
    BY <1>1 DEF Threads
  <2>2. QED BY <2>1, <1>1 DEF NoDuplicates
<1>4. QED BY <1>1, <1>2, <1>3 DEF new

\* remove_thread() takes out the thread it is given and nothing else.
LEMMA UnlinkThread ==
  ASSUME NEW list \in Seq(Thread), NEW k \in DOMAIN list, NoDuplicates(list)
  PROVE  /\ Unlink(list, k) \in Seq(Thread)
         /\ Threads(Unlink(list, k)) = Threads(list) \ {list[k]}
         /\ NoDuplicates(Unlink(list, k))
<1> DEFINE n == Len(list)
           new == Unlink(list, k)
<1>1. n \in Nat /\ DOMAIN list = 1..n /\ k \in 1..n
  OBVIOUS
<1>2. /\ new \in Seq(Thread)
      /\ Len(new) = n - 1
      /\ DOMAIN new = 1..(n - 1)
      /\ \A i \in 1..(n - 1) : new[i] = IF i < k THEN list[i] ELSE list[i + 1]
  <2> DEFINE a == SubSeq(list, 1, k - 1)
             b == SubSeq(list, k + 1, n)
  <2>1. a \in Seq(Thread) /\ Len(a) = k - 1 /\ \A i \in 1..(k - 1) : a[i] = list[i]
    BY <1>1
  <2>2. b \in Seq(Thread) /\ Len(b) = n - k /\ \A i \in 1..(n - k) : b[i] = list[k + i]
    BY <1>1
  <2>3. new = a \o b
    BY DEF Unlink
  <2> HIDE DEF a, b, new
  <2>4. new \in Seq(Thread) /\ Len(new) = n - 1 /\ DOMAIN new = 1..(n - 1)
    <3>1. new \in Seq(Thread) /\ Len(new) = Len(a) + Len(b)
      BY <2>1, <2>2, <2>3, ConcatProperties
    <3>2. Len(new) = n - 1
      BY <3>1, <2>1, <2>2, <1>1
    <3>3. DOMAIN new = 1..Len(new)
      BY <3>1
    <3>4. QED BY <3>1, <3>2, <3>3
  <2>5. ASSUME NEW i \in 1..(n - 1)
        PROVE  new[i] = IF i < k THEN list[i] ELSE list[i + 1]
    <3>1. CASE i < k
      BY <3>1, <1>1, <2>1, <2>2, <2>3
    <3>2. CASE ~(i < k)
      <4>1. i - (k - 1) \in 1..(n - k) /\ k + (i - (k - 1)) = i + 1
        BY <3>2, <1>1
      <4>2. new[i] = b[i - (k - 1)]
        BY <3>2, <1>1, <2>1, <2>2, <2>3
      <4>3. QED BY <4>1, <4>2, <2>2, <3>2
    <3>3. QED BY <3>1, <3>2
  <2>6. QED BY <2>4, <2>5
<1> HIDE DEF new, n
<1>3. ASSUME NEW x \in Threads(new) PROVE x \in Threads(list) \ {list[k]}
  <2>1. PICK i \in 1..(n - 1) : x = new[i]
    BY <1>2 DEF Threads
  <2>2. PICK j \in 1..n : j # k /\ x = list[j]
    <3>1. CASE i < k
      BY <3>1, <2>1, <1>1, <1>2
    <3>2. CASE ~(i < k)
      <4>1. i + 1 \in 1..n /\ i + 1 # k /\ x = list[i + 1]
        BY <3>2, <2>1, <1>1, <1>2
      <4>2. QED BY <4>1
    <3>3. QED BY <3>1, <3>2
  <2>3. QED BY <2>2, <1>1 DEF Threads, NoDuplicates
<1>4. ASSUME NEW x \in Threads(list) \ {list[k]} PROVE x \in Threads(new)
  <2>1. PICK j \in 1..n : x = list[j] /\ j # k
    BY <1>1 DEF Threads
  <2>2. CASE j < k
    <3>1. j \in 1..(n - 1) /\ new[j] = x
      BY <2>1, <2>2, <1>1, <1>2
    <3>2. QED BY <3>1, <1>2 DEF Threads
  <2>3. CASE j > k
    <3>1. j - 1 \in 1..(n - 1) /\ ~(j - 1 < k) /\ (j - 1) + 1 = j
      BY <2>1, <2>3, <1>1
    <3>2. new[j - 1] = x
      BY <2>1, <3>1, <1>2
    <3>3. QED BY <3>1, <3>2, <1>2 DEF Threads
  <2>4. QED BY <2>1, <2>2, <2>3, <1>1
<1>5. NoDuplicates(new)
  <2> SUFFICES ASSUME NEW i \in 1..(n - 1), NEW j \in 1..(n - 1), new[i] = new[j]
               PROVE  i = j
    BY <1>2 DEF NoDuplicates
  <2> DEFINE from(m) == IF m < k THEN m ELSE m + 1
  <2>1. /\ from(i) \in 1..n /\ from(j) \in 1..n
        /\ list[from(i)] = list[from(j)]
    BY <1>1, <1>2
  <2>2. from(i) = from(j)
    BY <2>1, <1>1 DEF NoDuplicates
  <2>3. QED BY <2>2, <1>1
<1>6. Threads(new) = Threads(list) \ {list[k]}
  BY <1>3, <1>4
<1>7. QED BY <1>2, <1>5, <1>6 DEF new

\* The current thread has a position while it is in the list.
LEMMA PositionOfThread ==
  ASSUME NEW list \in Seq(Thread), NEW t \in Threads(list)
  PROVE  Position(list, t) \in DOMAIN list /\ list[Position(list, t)] = t
BY DEF Position, Threads

-----------------------------------------------------------------------------
(* The switch and the yield *)

\* The part of SchedulerTypeOK that a switch assigns.
CpuTypeOK ==
  /\ state \in [Thread -> {"Run", "Wait"}]
  /\ current \in Thread
  /\ context \in [Thread -> {"unset", "saved", "in_use"}]
  /\ interrupts \in BOOLEAN
  /\ preempted \in SUBSET Thread
  /\ in_tick \in BOOLEAN
  /\ halted \in Endings

\* switch_to() gives the CPU to the thread it is called for, or loads a stale
\* context.
LEMMA SwitchResult ==
  ASSUME SchedulerTypeOK, NEW t \in Thread, NEW tick \in BOOLEAN,
         state' \in [Thread -> {"Run", "Wait"}], SwitchTo(t, tick)
  PROVE  /\ CpuTypeOK'
         /\ halted' = "no" => current' = t
<1>1. CASE context[t] = "in_use"
  BY <1>1 DEF SwitchTo, CpuTypeOK, SchedulerTypeOK, Endings
<1>2. CASE context[t] # "in_use"
  <2>1. /\ current' = t
        /\ context' = [context EXCEPT ![current] = "saved", ![t] = "in_use"]
        /\ preempted' = (IF tick THEN preempted \cup {current} ELSE preempted) \ {t}
        /\ halted' = halted
    BY <1>2 DEF SwitchTo
  <2>2. interrupts' \in BOOLEAN /\ in_tick' \in BOOLEAN
    BY <1>2, Zenon DEF SwitchTo, Unacknowledged, ResumesEnabled, SchedulerTypeOK
  <2>3. QED BY <2>1, <2>2 DEF CpuTypeOK, SchedulerTypeOK
<1>3. QED BY <1>1, <1>2

\* check() keeps the queue typed, and the threads it names.
LEMMA PopHeadResult ==
  ASSUME QueueTypeOK, TimeQueueAssumption, head # NULL, PopHead
  PROVE  /\ QueueTypeOK'
         /\ \A s \in Slot : elements'[s].tid = elements[s].tid
<1> DEFINE popped == [elements EXCEPT ![head].valid = FALSE]
           n == elements[head].next
<1>1. ASSUME NEW es \in [Slot -> Element], NEW s \in Slot
      PROVE  LET new == [es EXCEPT ![s].valid = FALSE]
             IN new \in [Slot -> Element] /\ \A r \in Slot : new[r].tid = es[r].tid
  BY DEF Element
<1>2. ASSUME NEW es \in [Slot -> Element], NEW s \in Slot
      PROVE  LET new == [es EXCEPT ![s].prev = NULL]
             IN new \in [Slot -> Element] /\ \A r \in Slot : new[r].tid = es[r].tid
  BY DEF Element, Link
<1>3. head \in Slot /\ n \in Link
  BY DEF QueueTypeOK, Element, Link
<1>4. popped \in [Slot -> Element] /\ \A s \in Slot : popped[s].tid = elements[s].tid
  BY <1>1, <1>3 DEF QueueTypeOK
<1>5. /\ elements' = IF n = NULL THEN popped ELSE [popped EXCEPT ![n].prev = NULL]
      /\ head' = n
      /\ tail' = IF n = NULL THEN NULL ELSE tail
  BY DEF PopHead
<1> HIDE DEF popped, n
<1>6. head' \in Link /\ tail' \in Link /\ (head' = NULL <=> tail' = NULL)
  BY <1>3, <1>5 DEF QueueTypeOK, Link
<1>7. CASE n = NULL
  BY <1>4, <1>5, <1>6, <1>7 DEF QueueTypeOK
<1>8. CASE n # NULL
  <2>1. n \in Slot
    BY <1>3, <1>8 DEF Link
  <2>2. QED BY <1>2, <1>4, <1>5, <1>6, <1>8, <2>1 DEF QueueTypeOK
<1>9. QED BY <1>7, <1>8

\* Whom next() picks: a thread of the list it walks that can run.  It makes no
\* other thread than idle stop.
LEMMA YieldResult ==
  ASSUME SchedulerTypeOK, SchedulerAssumption, TimeQueueAssumption,
         NEW st \in [Thread -> {"Run", "Wait"}], NEW list \in Seq(Thread),
         NEW here, NEW tick \in BOOLEAN,
         Idle \in Threads(list),
         thread_list' \in SUBSET Thread,
         thread_list' \cap Process \subseteq Threads(list),
         \A s \in Slot : elements[s].tid \in Process \cup {NULL},
         Yield(st, list, here, tick)
  PROVE  /\ CpuTypeOK' /\ QueueTypeOK'
         /\ \A s \in Slot : elements'[s].tid = elements[s].tid
         /\ halted' = "no" => current' \in Threads(list) /\ state'[current'] = "Run"
         /\ \A t \in Thread \ {Idle} : st[t] = "Run" => state'[t] = "Run"
<1> DEFINE Result == /\ CpuTypeOK'
                     /\ halted' = "no" => current' \in Threads(list) /\ state'[current'] = "Run"
                     /\ \A t \in Thread \ {Idle} : st[t] = "Run" => state'[t] = "Run"
<1>1. Threads(list) \subseteq Thread
  BY DEF Threads
<1>2. ASSUME NEW t \in Thread, t \in Threads(list), SwitchTo(t, tick),
             state' \in [Thread -> {"Run", "Wait"}], state'[t] = "Run",
             \A u \in Thread \ {Idle} : st[u] = "Run" => state'[u] = "Run"
      PROVE  Result
  BY <1>2, SwitchResult
<1>3. ASSUME Walk(st, list, here, tick) PROVE Result
  <2>1. CASE TakeTurn(st, list, here, tick)
    <3>1. PICK pos \in DOMAIN list :
            /\ FirstReady(list, here, Others(st), pos)
            /\ state' = IF list[pos] # Idle /\ st[Idle] = "Run"
                        THEN [st EXCEPT ![Idle] = "Wait"]
                        ELSE st
            /\ SwitchTo(list[pos], tick)
      BY <2>1 DEF TakeTurn
    <3>2. list[pos] \in Threads(list) /\ st[list[pos]] = "Run"
      BY <3>1 DEF FirstReady, Others, Threads
    <3>3. /\ state' \in [Thread -> {"Run", "Wait"}]
          /\ state'[list[pos]] = "Run"
          /\ \A u \in Thread \ {Idle} : st[u] = "Run" => state'[u] = "Run"
      BY <1>1, <3>1, <3>2 DEF SchedulerAssumption
    <3>4. QED BY <1>1, <1>2, <3>1, <3>2, <3>3
  <2>2. CASE current \in Threads(list) /\ GoOn(st, tick)
    <3>1. /\ st[current] = "Run" /\ state' = st
          /\ UNCHANGED <<current, context, preempted, halted>>
      BY <2>2 DEF GoOn
    <3>2. interrupts' \in BOOLEAN /\ in_tick' \in BOOLEAN
      BY <2>2, Zenon DEF GoOn, SchedulerTypeOK
    <3>3. QED BY <2>2, <3>1, <3>2 DEF SchedulerTypeOK, CpuTypeOK
  <2>3. CASE GoIdle(st, tick)
    <3>1. state' = [st EXCEPT ![Idle] = "Run"] /\ SwitchTo(Idle, tick)
      BY <2>3 DEF GoIdle
    <3>2. QED BY <1>2, <3>1 DEF SchedulerAssumption
  <2>4. CASE WalkForEver(st)
    BY <2>4 DEF WalkForEver, SchedulerTypeOK, CpuTypeOK, Endings
  <2>5. QED BY <1>3, <2>1, <2>2, <2>3, <2>4 DEF Walk
<1>4. CASE Due(now) /\ PopHead /\ DueThread \in thread_list' /\ WakeSleeper(st, tick)
  <2>1. head \in Slot
    BY <1>4 DEF Due, SchedulerTypeOK, QueueTypeOK, Link
  <2>2. DueThread \in Threads(list) /\ DueThread \in Thread
    BY <1>4, <2>1 DEF DueThread, TimeQueueAssumption
  <2>3. state' = [st EXCEPT ![DueThread] = "Run"] /\ SwitchTo(DueThread, tick)
    BY <1>4 DEF WakeSleeper
  <2>4. Result
    BY <1>2, <2>2, <2>3
  <2>5. QED BY <1>4, <2>4, PopHeadResult DEF Due, SchedulerTypeOK
<1>5. CASE Due(now) /\ PopHead /\ Walk(st, list, here, tick)
  BY <1>3, <1>5, PopHeadResult DEF Due, SchedulerTypeOK
<1>6. CASE UNCHANGED queueVars /\ Walk(st, list, here, tick)
  BY <1>3, <1>6 DEF queueVars, SchedulerTypeOK, QueueTypeOK
<1>7. QED BY <1>4, <1>5, <1>6 DEF Yield

\* insert() writes the sleeping thread into an element and keeps the others.
LEMMA InsertResult ==
  ASSUME QueueTypeOK, TimeQueueAssumption, NEW tid \in Process, NEW when \in Nat,
         SchedulerAssumption, Insert(tid, when),
         \A s \in Slot : elements[s].tid \in Process \cup {NULL}
  PROVE  /\ QueueTypeOK'
         /\ \A s \in Slot : elements'[s].tid \in Process \cup {NULL}
<1> DEFINE Good(es) == /\ es \in [Slot -> Element]
                       /\ \A s \in Slot : es[s].tid \in Process \cup {NULL}
<1>1. ASSUME NEW es, Good(es), NEW s \in Slot, NEW p \in Link, NEW n \in Link
      PROVE  Good(Fill(es, s, tid, when, p, n))
  <2> DEFINE e == [valid |-> TRUE, tid |-> tid, when |-> when, prev |-> p, next |-> n]
  <2>1. e \in Element /\ e.tid = tid
    BY DEF Element, SchedulerAssumption
  <2>2. Fill(es, s, tid, when, p, n) = [es EXCEPT ![s] = e]
    BY DEF Fill
  <2> HIDE DEF e
  <2>3. QED BY <1>1, <2>1, <2>2
<1>2. ASSUME NEW es, Good(es), NEW s \in Slot, NEW r \in Slot
      PROVE  Good([es EXCEPT ![s].prev = r]) /\ Good([es EXCEPT ![s].next = r])
  BY <1>2 DEF Element, Link
<1>3. Good(elements)
  BY DEF QueueTypeOK
<1> HIDE DEF Good
<1>4. PICK s \in Slot : InsertInto(s, tid, when)
  BY DEF Insert
<1>5. ASSUME Good(elements'), head' \in Link, tail' \in Link,
             head' = NULL <=> tail' = NULL
      PROVE  /\ QueueTypeOK'
             /\ \A r \in Slot : elements'[r].tid \in Process \cup {NULL}
  BY <1>5 DEF Good, QueueTypeOK
<1>s. s # NULL
  BY DEF Slot, TimeQueueAssumption
<1>6. CASE /\ elements' = Fill(elements, s, tid, when, NULL, NULL)
           /\ head' = s
           /\ tail' = s
  BY <1>1, <1>3, <1>5, <1>6, <1>s DEF Link
<1>7. ASSUME NEW c \in Slot, head # NULL,
             LET p == elements[c].prev
                 filled == Fill(elements, s, tid, when, p, c)
             IN IF p = NULL
                THEN /\ elements' = [filled EXCEPT ![c].prev = s]
                     /\ head' = s
                ELSE /\ elements' = [filled EXCEPT ![c].prev = s, ![p].next = s]
                     /\ UNCHANGED head,
             UNCHANGED tail
      PROVE  /\ QueueTypeOK'
             /\ \A r \in Slot : elements'[r].tid \in Process \cup {NULL}
  <2> DEFINE p == elements[c].prev
             filled == Fill(elements, s, tid, when, p, c)
             linked == [filled EXCEPT ![c].prev = s]
  <2>1. p \in Link
    BY DEF QueueTypeOK, Element
  <2>2. Good(filled)
    BY <1>1, <1>3, <2>1 DEF Link
  <2> HIDE DEF filled
  <2>3. Good(linked)
    BY <1>2, <2>2
  <2>4. CASE p = NULL
    <3>1. elements' = linked /\ head' = s
      BY <1>7, <2>4 DEF filled
    <3>2. QED BY <1>5, <1>7, <1>s, <2>3, <3>1 DEF QueueTypeOK, Link
  <2>5. CASE p # NULL
    <3>1. elements' = [linked EXCEPT ![p].next = s] /\ head' = head
      BY <1>7, <2>5 DEF filled
    <3>2. p \in Slot
      BY <2>1, <2>5 DEF Link
    <3> HIDE DEF linked, p
    <3>3. Good(elements')
      BY <1>2, <2>3, <3>1, <3>2
    <3>4. QED BY <1>5, <1>7, <3>1, <3>3 DEF QueueTypeOK
  <2>6. QED BY <2>4, <2>5
<1>8. CASE /\ head # NULL
           /\ elements' = Fill(elements, s, tid, when, tail, NULL)
           /\ tail' = s
           /\ UNCHANGED head
  BY <1>1, <1>3, <1>5, <1>8, <1>s DEF Link, QueueTypeOK
<1>9. QED
  BY <1>4, <1>6, <1>7, <1>8 DEF InsertInto

-----------------------------------------------------------------------------
(* The invariant is inductive *)

Assumptions == TimeQueueAssumption /\ SchedulerAssumption /\ ThreadingAssumption

\* A yield of the current thread while the lists stay as they are.
LEMMA YieldFromResult ==
  ASSUME IInv, Assumptions,
         NEW st \in [Thread -> {"Run", "Wait"}], NEW tick \in BOOLEAN,
         \A u \in unused : st[u] = "Run",
         UNCHANGED listVars, YieldFrom(st, tick)
  PROVE  /\ SchedulerTypeOK'
         /\ \A s \in Slot : elements'[s].tid \in Process \cup {NULL}
         /\ \A u \in unused' : state'[u] = "Run"
         /\ halted' = "no" => current' \in Threads(order') /\ state'[current'] = "Run"
<1>1. /\ order' = order /\ thread_list' = thread_list /\ unused' = unused
      /\ SchedulerTypeOK
      /\ unused \subseteq Thread \ {Idle}
      /\ \A s \in Slot : elements[s].tid \in Process \cup {NULL}
  BY DEF listVars, IInv, TypeOK, ListInv, Assumptions, SchedulerAssumption,
         ThreadingAssumption
<1>2. /\ order \in Seq(Thread) /\ Idle \in Threads(order)
      /\ thread_list' \in SUBSET Thread
      /\ thread_list' \cap Process \subseteq Threads(order)
  BY <1>1 DEF IInv, ListInv, SchedulerTypeOK
<1>3. Yield(st, order, Position(order, current), tick)
  BY DEF YieldFrom
<1>4. /\ CpuTypeOK' /\ QueueTypeOK'
      /\ \A s \in Slot : elements'[s].tid = elements[s].tid
      /\ halted' = "no" => current' \in Threads(order) /\ state'[current'] = "Run"
      /\ \A t \in Thread \ {Idle} : st[t] = "Run" => state'[t] = "Run"
  BY <1>1, <1>2, <1>3, YieldResult DEF Assumptions
<1>5. SchedulerTypeOK'
  BY <1>1, <1>2, <1>4 DEF SchedulerTypeOK, CpuTypeOK
<1>6. QED BY <1>1, <1>4, <1>5

\* remove_thread() and the yield after it, for a thread that is not idle.
LEMMA RemoveResult ==
  ASSUME IInv, Assumptions, NEW t \in Thread, t # Idle, Running(t),
         RemoveCurrentThread(t), exit_info' \in SUBSET Process
  PROVE  IInv'
<1> DEFINE i == Position(order, t)
           waiter == wake_on_exit[t]
           woken == Woken(t)
<1>1. /\ order' = Unlink(order, i)
      /\ thread_list' = thread_list \ {t}
      /\ pc' = [pc EXCEPT ![t] = "gone"]
      /\ Yield(woken, Unlink(order, i), i - 1, FALSE)
      /\ UNCHANGED <<unused, keyVars, wake_on_exit, target, now>>
  BY DEF RemoveCurrentThread
<1>2. TypeOK /\ ListInv /\ SchedulerTypeOK
  BY DEF IInv, TypeOK
<1>3. t \in Threads(order)
  BY DEF IInv, CurrentMayRun, Running
<1>4. i \in DOMAIN order /\ order[i] = t
  BY <1>2, <1>3, PositionOfThread DEF SchedulerTypeOK
<1>5. woken \in [Thread -> {"Run", "Wait"}] /\ \A u \in Thread : state[u] = "Run" => woken[u] = "Run"
  <2>1. CASE waiter = NULL
    BY <1>2, <2>1 DEF SchedulerTypeOK, Woken
  <2>2. CASE waiter # NULL
    BY <1>2, <2>2 DEF SchedulerTypeOK, TypeOK, Woken
  <2>3. QED BY <2>1, <2>2
<1> HIDE DEF i, woken, waiter
<1>6. /\ order' \in Seq(Thread)
      /\ Threads(order') = Threads(order) \ {t}
      /\ NoDuplicates(order')
  BY <1>1, <1>2, <1>4, UnlinkThread DEF SchedulerTypeOK, ListInv
<1>7. /\ Idle \in Threads(order')
      /\ thread_list' \in SUBSET Thread
      /\ thread_list' \cap Process \subseteq Threads(order')
      /\ \A s \in Slot : elements[s].tid \in Process \cup {NULL}
  BY <1>1, <1>2, <1>6 DEF ListInv, SchedulerTypeOK
<1>8. /\ CpuTypeOK' /\ QueueTypeOK'
      /\ \A s \in Slot : elements'[s].tid = elements[s].tid
      /\ halted' = "no" => current' \in Threads(order') /\ state'[current'] = "Run"
      /\ \A u \in Thread \ {Idle} : woken[u] = "Run" => state'[u] = "Run"
  BY <1>1, <1>2, <1>5, <1>6, <1>7, YieldResult DEF Assumptions
<1>9. TypeOK'
  <2>1. SchedulerTypeOK'
    BY <1>6, <1>7, <1>8 DEF SchedulerTypeOK, CpuTypeOK
  <2>2. pc' \in [Thread -> Points]
    BY <1>1, <1>2 DEF TypeOK, Points
  <2>3. QED BY <1>1, <1>2, <2>1, <2>2 DEF TypeOK, keyVars
<1>10. ListInv'
  <2>1. unused' = unused /\ unused \subseteq Thread \ {Idle}
    BY <1>1, <1>2 DEF TypeOK, Assumptions, SchedulerAssumption, ThreadingAssumption
  <2>2. \A u \in unused' : state'[u] = "Run"
    BY <1>2, <1>5, <1>8, <2>1 DEF ListInv
  <2>3. \A u \in Thread : /\ pc'[u] = "inserted" => target'[u] \in KernelThread
                          /\ pc'[u] = "started" => target'[u] \in Process
    BY <1>1, <1>2 DEF ListInv, TypeOK
  <2>4. QED BY <1>2, <1>6, <1>7, <1>8, <2>1, <2>2, <2>3 DEF ListInv
<1>11. CurrentMayRun'
  BY <1>8 DEF CurrentMayRun
<1>12. QED BY <1>9, <1>10, <1>11 DEF IInv

\* What AwaitExit leaves typed, and whom it gives the CPU to.
LEMMA AwaitExitResult ==
  ASSUME IInv, Assumptions, NEW t \in Thread, NEW x \in Thread, NEW found \in BOOLEAN,
         Running(t), pc[t] # "sleeping", UNCHANGED listVars, AwaitExit(t, x, found)
  PROVE  /\ SchedulerTypeOK'
         /\ wake_on_exit' \in [Thread -> Thread \cup {NULL}]
         /\ \A s \in Slot : elements'[s].tid \in Process \cup {NULL}
         /\ \A u \in unused' : state'[u] = "Run"
         /\ halted' = "no" => current' \in Threads(order') /\ state'[current'] = "Run"
<1>1. /\ SchedulerTypeOK /\ TypeOK /\ ListInv
      /\ current = t /\ t \in Threads(order) /\ state[t] = "Run"
      /\ order' = order /\ thread_list' = thread_list /\ unused' = unused
      /\ t \notin unused /\ unused \subseteq Thread
  BY DEF IInv, TypeOK, ListInv, CurrentMayRun, Running, listVars, Assumptions,
         SchedulerAssumption, ThreadingAssumption
<1>2. CASE /\ Halt("panic")
           /\ UNCHANGED <<wake_on_exit, queueVars>>
  BY <1>1, <1>2 DEF Halt, queueVars, SchedulerTypeOK, QueueTypeOK, Endings, TypeOK, ListInv
<1>3. CASE /\ wake_on_exit' = [wake_on_exit EXCEPT ![x] = t]
           /\ YieldFrom([state EXCEPT ![t] = "Wait"], FALSE)
  <2>1. /\ [state EXCEPT ![t] = "Wait"] \in [Thread -> {"Run", "Wait"}]
        /\ \A u \in unused : [state EXCEPT ![t] = "Wait"][u] = "Run"
    BY <1>1 DEF SchedulerTypeOK, ListInv
  <2>2. wake_on_exit' \in [Thread -> Thread \cup {NULL}]
    BY <1>1, <1>3 DEF TypeOK
  <2>3. QED BY <1>3, <2>1, <2>2, YieldFromResult
<1>4. CASE /\ interrupts' = FALSE
           /\ UNCHANGED <<state, current, context, preempted, in_tick, halted,
                          wake_on_exit, queueVars>>
  BY <1>1, <1>4 DEF queueVars, SchedulerTypeOK, QueueTypeOK, TypeOK, ListInv
<1>5. QED BY <1>2, <1>3, <1>4 DEF AwaitExit

\* The invariant holds when Manager.init() is done: idle and boot are in the list.
LEMMA InitInvariant ==
  ASSUME Assumptions, Init
  PROVE  IInv
<1> USE DEF Init, QueueInit
<1>1. SchedulerTypeOK
  <2>1. Idle \in Thread /\ Boot \in Thread
    BY DEF Assumptions, SchedulerAssumption, ThreadingAssumption
  <2>2. order \in Seq(Thread) /\ thread_list \in SUBSET Thread
    BY <2>1
  <2>3. /\ state \in [Thread -> {"Run", "Wait"}]
        /\ context \in [Thread -> {"unset", "saved", "in_use"}]
    BY <2>1
  <2>4. QueueTypeOK
    BY DEF QueueTypeOK, Element, Link
  <2>5. QED BY <2>1, <2>2, <2>3, <2>4 DEF SchedulerTypeOK, Endings
<1>2. TypeOK
  BY <1>1 DEF TypeOK, Points, Assumptions, ThreadingAssumption
<1>3. Threads(order) = {Idle, Boot} /\ NoDuplicates(order)
  <2>1. order = <<Idle, Boot>> /\ DOMAIN order = {1, 2} /\ Idle # Boot
    BY DEF Assumptions, ThreadingAssumption
  <2>2. QED BY <2>1 DEF Threads, NoDuplicates
<1>4. ListInv
  BY <1>3 DEF ListInv, Assumptions, SchedulerAssumption, ThreadingAssumption
<1>5. CurrentMayRun
  BY <1>3 DEF CurrentMayRun, Assumptions, ThreadingAssumption
<1>6. QED BY <1>2, <1>4, <1>5 DEF IInv

\* A yield of a thread that stays as it is, in the middle of a system call.
LEMMA PlainYieldResult ==
  ASSUME IInv, Assumptions, NEW t \in Thread, pc' = [pc EXCEPT ![t] = "run"],
         UNCHANGED <<listVars, keyVars, waitVars, now>>, YieldFrom(state, FALSE)
  PROVE  IInv'
<1>1. TypeOK /\ SchedulerTypeOK /\ ListInv
  BY DEF IInv, TypeOK
<1>2. /\ SchedulerTypeOK'
      /\ \A s \in Slot : elements'[s].tid \in Process \cup {NULL}
      /\ \A u \in unused' : state'[u] = "Run"
      /\ halted' = "no" => current' \in Threads(order') /\ state'[current'] = "Run"
  BY <1>1, YieldFromResult DEF SchedulerTypeOK, ListInv
<1>3. TypeOK'
  BY <1>1, <1>2 DEF TypeOK, Points, listVars, keyVars, waitVars
<1>4. ListInv' /\ CurrentMayRun'
  BY <1>1, <1>2 DEF ListInv, CurrentMayRun, TypeOK, listVars, waitVars
<1>5. QED BY <1>3, <1>4 DEF IInv

\* get_key() only touches the buffer.
LEMMA GetKeyResult ==
  ASSUME IInv, Assumptions, NEW t \in Thread, GetKey(t)
  PROVE  IInv'
<1>1. TypeOK /\ SchedulerTypeOK /\ ListInv /\ CurrentMayRun
  BY DEF IInv, TypeOK
<1>2. /\ Running(t) /\ pc[t] \in {"run", "key"} /\ interrupts' = TRUE
      /\ UNCHANGED <<listVars, state, current, context, preempted, in_tick, halted,
                     waiting_for_keyboard, waitVars, queueVars, now>>
  BY DEF GetKey
<1>3. \E p \in {"run", "key_gap"} : pc' = [pc EXCEPT ![t] = p]
  BY DEF GetKey
<1>4. keyboard_buffer' \in 0..KeyCapacity
  BY <1>1 DEF GetKey, TypeOK, Assumptions, ThreadingAssumption
<1>5. TypeOK'
  BY <1>1, <1>2, <1>3, <1>4 DEF TypeOK, SchedulerTypeOK, QueueTypeOK, Points, listVars,
         waitVars, queueVars
<1>6. ListInv' /\ CurrentMayRun'
  BY <1>1, <1>2, <1>3 DEF ListInv, CurrentMayRun, TypeOK, listVars, waitVars, queueVars, Running
<1>7. QED BY <1>5, <1>6 DEF IInv

\* ... and every interrupt and every step of a thread keeps it.
LEMMA StepKeepsInvariant ==
  ASSUME IInv, Assumptions, [Next]_vars
  PROVE  IInv'
<1>1. TypeOK /\ SchedulerTypeOK /\ ListInv /\ CurrentMayRun
  BY DEF IInv, TypeOK
<1> SUFFICES ASSUME Next PROVE IInv'
  <2>1. CASE UNCHANGED vars
    BY <1>1, <2>1 DEF vars, listVars, switchVars, keyVars, waitVars, queueVars, IInv,
           TypeOK, SchedulerTypeOK, QueueTypeOK, ListInv, CurrentMayRun
  <2>2. QED BY <2>1
<1>a. ASSUME TypeOK', ListInv', CurrentMayRun' PROVE IInv'
  BY <1>a DEF IInv
<1>2. CASE Tick
  <2>1. UNCHANGED <<listVars, keyVars, waitVars, pc, now>> /\ YieldFrom(state, TRUE)
    BY <1>2 DEF Tick, TimerInterrupt
  <2>2. /\ SchedulerTypeOK'
        /\ \A s \in Slot : elements'[s].tid \in Process \cup {NULL}
        /\ \A u \in unused' : state'[u] = "Run"
        /\ halted' = "no" => current' \in Threads(order') /\ state'[current'] = "Run"
    BY <1>1, <2>1, YieldFromResult DEF SchedulerTypeOK, ListInv
  <2>3. QED
    BY <1>1, <1>a, <2>1, <2>2 DEF TypeOK, ListInv, CurrentMayRun, listVars, keyVars, waitVars
<1>3. CASE KeyboardEvent
  <2>1. /\ halted = "no"
        /\ UNCHANGED <<listVars, current, context, interrupts, preempted, in_tick, halted,
                       waitVars, queueVars, pc, now>>
    BY <1>3 DEF KeyboardEvent
  <2>2. /\ state' \in [Thread -> {"Run", "Wait"}]
        /\ waiting_for_keyboard' \in Thread \cup {NULL}
        /\ \A u \in Thread : state[u] = "Run" => state'[u] = "Run"
    <3>1. CASE waiting_for_keyboard = NULL
      BY <1>1, <1>3, <3>1 DEF KeyboardEvent, WakeKeyReader, TypeOK, SchedulerTypeOK
    <3>2. CASE waiting_for_keyboard # NULL
      BY <1>1, <1>3, <3>2 DEF KeyboardEvent, WakeKeyReader, TypeOK, SchedulerTypeOK
    <3>3. QED BY <3>1, <3>2
  <2>3. keyboard_buffer' \in 0..KeyCapacity
    BY <1>1, <1>3 DEF KeyboardEvent, PushKey, TypeOK, Assumptions, ThreadingAssumption
  <2>4. TypeOK'
    BY <1>1, <2>1, <2>2, <2>3 DEF TypeOK, SchedulerTypeOK, QueueTypeOK, listVars,
           waitVars, queueVars
  <2>5. ListInv' /\ CurrentMayRun'
    BY <1>1, <2>1, <2>2 DEF ListInv, CurrentMayRun, TypeOK, SchedulerTypeOK, listVars,
           waitVars, queueVars, Assumptions, SchedulerAssumption, ThreadingAssumption
  <2>6. QED BY <1>a, <2>4, <2>5
<1>4. CASE Elapse
  <2>1. /\ now' \in 0..MaxTime
        /\ UNCHANGED <<listVars, switchVars, keyVars, waitVars, queueVars, pc>>
    BY <1>1, <1>4 DEF Elapse, TypeOK, Assumptions, ThreadingAssumption
  <2>2. QED
    BY <1>1, <1>a, <2>1 DEF TypeOK, SchedulerTypeOK, QueueTypeOK, ListInv, CurrentMayRun,
           listVars, switchVars, keyVars, waitVars, queueVars
<1>5. CASE Stopped
  BY <1>1, <1>5 DEF Stopped, vars, listVars, switchVars, keyVars, waitVars, queueVars,
         IInv, TypeOK, SchedulerTypeOK, QueueTypeOK, ListInv, CurrentMayRun
<1>6. ASSUME NEW t \in Thread, KernelStep(t) PROVE IInv'
  <2>1. CASE WaitForProcess(t)
    <3> DEFINE found == target[t] \in Threads(order)
    <3>1. /\ Running(t) /\ pc[t] = "started"
          /\ pc' = [pc EXCEPT ![t] = "waited"]
          /\ UNCHANGED <<listVars, keyVars, exit_info, target, now>>
          /\ AwaitExit(t, target[t], found)
      BY <2>1 DEF WaitForProcess
    <3>2. found \in BOOLEAN /\ UNCHANGED listVars /\ pc[t] # "sleeping"
      BY <3>1
    <3>3. target[t] \in Thread
      BY <1>1, <3>1 DEF ListInv, Assumptions, SchedulerAssumption
    <3> HIDE DEF found
    <3>4. /\ SchedulerTypeOK'
          /\ wake_on_exit' \in [Thread -> Thread \cup {NULL}]
          /\ \A s \in Slot : elements'[s].tid \in Process \cup {NULL}
          /\ \A u \in unused' : state'[u] = "Run"
          /\ halted' = "no" => current' \in Threads(order') /\ state'[current'] = "Run"
      BY <3>1, <3>2, <3>3, AwaitExitResult
    <3>5. TypeOK' /\ ListInv' /\ CurrentMayRun'
      BY <1>1, <3>1, <3>4 DEF TypeOK, ListInv, CurrentMayRun, Points, listVars, keyVars
    <3>6. QED BY <1>a, <3>5
  <2>2. CASE ExecReturns(t)
    <3>1. /\ pc' = [pc EXCEPT ![t] = "run"]
          /\ Running(t) /\ pc[t] # "sleeping"
          /\ UNCHANGED <<listVars, keyVars, waitVars, queueVars, now, state, current,
                         context, preempted, in_tick>>
          /\ interrupts' \in BOOLEAN /\ halted' \in Endings
      BY <1>1, <2>2 DEF ExecReturns, Halt, Endings, SchedulerTypeOK
    <3>2. TypeOK'
      BY <1>1, <3>1 DEF TypeOK, SchedulerTypeOK, QueueTypeOK, Points, listVars, keyVars,
             waitVars, queueVars
    <3>3. ListInv' /\ CurrentMayRun'
      BY <1>1, <3>1 DEF ListInv, CurrentMayRun, TypeOK, listVars, waitVars, queueVars, Running
    <3>4. QED BY <1>a, <3>2, <3>3
  <2>3. CASE EnterThread(t)
    <3>1. /\ pc[t] = "inserted" /\ pc' = [pc EXCEPT ![t] = "run"]
          /\ thread_list' = thread_list \cup {target[t]}
          /\ Running(t)
          /\ UNCHANGED <<order, unused, switchVars, keyVars, waitVars, queueVars, now>>
      BY <2>3 DEF EnterThread
    <3>2. target[t] \in KernelThread /\ target[t] \in Thread /\ target[t] \notin Process
      BY <1>1, <3>1 DEF ListInv, Assumptions, ThreadingAssumption
    <3>3. TypeOK'
      BY <1>1, <3>1, <3>2 DEF TypeOK, SchedulerTypeOK, QueueTypeOK, Points, switchVars,
             keyVars, waitVars, queueVars
    <3>4. ListInv'
      BY <1>1, <3>1, <3>2 DEF ListInv, TypeOK, switchVars, waitVars, queueVars
    <3>5. CurrentMayRun'
      BY <1>1, <3>1 DEF CurrentMayRun, TypeOK, switchVars, Running
    <3>6. QED BY <1>a, <3>3, <3>4, <3>5
  <2>4. CASE GetKey(t)
    BY <1>1, <1>a, <2>4, GetKeyResult
  <2>5. CASE WaitForKeyboard(t)
    <3>1. /\ Running(t) /\ pc[t] = "key_gap"
          /\ waiting_for_keyboard' = t
          /\ pc' = [pc EXCEPT ![t] = "key"]
          /\ UNCHANGED <<listVars, keyboard_buffer, waitVars, now>>
          /\ YieldFrom([state EXCEPT ![t] = "Wait"], FALSE)
      BY <2>5 DEF WaitForKeyboard
    <3>2. [state EXCEPT ![t] = "Wait"] \in [Thread -> {"Run", "Wait"}]
      BY <1>1 DEF SchedulerTypeOK
    <3>3. t \in Threads(order) /\ t \notin unused /\ unused \subseteq Thread
      BY <1>1, <3>1 DEF CurrentMayRun, Running, ListInv, TypeOK, Assumptions,
             ThreadingAssumption, SchedulerAssumption
    <3>4. \A u \in unused : [state EXCEPT ![t] = "Wait"][u] = "Run"
      BY <1>1, <3>3 DEF SchedulerTypeOK, ListInv
    <3>5. /\ SchedulerTypeOK'
          /\ \A s \in Slot : elements'[s].tid \in Process \cup {NULL}
          /\ \A u \in unused' : state'[u] = "Run"
          /\ halted' = "no" => current' \in Threads(order') /\ state'[current'] = "Run"
      BY <3>1, <3>2, <3>4, YieldFromResult
    <3>6. TypeOK'
      BY <1>1, <3>1, <3>5 DEF TypeOK, Points, listVars, waitVars
    <3>7. ListInv' /\ CurrentMayRun'
      BY <1>1, <3>1, <3>5 DEF ListInv, CurrentMayRun, TypeOK, listVars, waitVars
    <3>8. QED BY <1>a, <3>6, <3>7
  <2>6. CASE SleepYield(t)
    <3>1. /\ pc' = [pc EXCEPT ![t] = "run"]
          /\ UNCHANGED <<listVars, keyVars, waitVars, now>>
          /\ YieldFrom(state, FALSE)
      BY <2>6 DEF SleepYield
    <3>2. QED BY <1>1, <1>a, <3>1, PlainYieldResult
  <2>7. QED BY <1>6, <2>1, <2>2, <2>3, <2>4, <2>5, <2>6 DEF KernelStep
<1>7. ASSUME NEW t \in Thread, ProgramStep(t) PROVE IInv'
  <2>1. CASE SyscallYield(t)
    <3>1. /\ pc[t] = "run"
          /\ UNCHANGED <<listVars, keyVars, waitVars, pc, now>>
          /\ YieldFrom(state, FALSE)
      BY <2>1 DEF SyscallYield
    <3>2. pc' = [pc EXCEPT ![t] = "run"]
      BY <1>1, <3>1 DEF TypeOK
    <3>3. QED BY <3>1, <3>2, PlainYieldResult
  <2>2. ASSUME NEW p \in Process, StartProcess(t, p) PROVE IInv'
    <3>1. /\ Running(t) /\ p \in unused
          /\ order' = Append(order, p)
          /\ thread_list' = thread_list \cup {p}
          /\ unused' = unused \ {p}
          /\ pc' = [pc EXCEPT ![t] = "started"]
          /\ target' = [target EXCEPT ![t] = p]
          /\ SwitchTo(p, FALSE)
          /\ UNCHANGED <<state, keyVars, wake_on_exit, exit_info, queueVars, now>>
      BY <2>2 DEF StartProcess
    <3>2. p \in Thread /\ p \notin Threads(order) /\ state[p] = "Run"
      BY <1>1, <3>1 DEF ListInv, Assumptions, SchedulerAssumption
    <3>3. /\ order' \in Seq(Thread)
          /\ Threads(order') = Threads(order) \cup {p}
          /\ NoDuplicates(order')
      BY <1>1, <3>1, <3>2, AppendThread DEF SchedulerTypeOK, ListInv
    <3>4. state' \in [Thread -> {"Run", "Wait"}]
      BY <1>1, <3>1 DEF SchedulerTypeOK
    <3>5. CpuTypeOK' /\ (halted' = "no" => current' = p)
      BY <1>1, <3>1, <3>2, <3>4, SwitchResult
    <3>6. SchedulerTypeOK'
      BY <1>1, <3>1, <3>2, <3>3, <3>5 DEF SchedulerTypeOK, CpuTypeOK, QueueTypeOK, queueVars
    <3>7. TypeOK'
      BY <1>1, <3>1, <3>2, <3>6 DEF TypeOK, Points, keyVars
    <3>8. ListInv'
      BY <1>1, <3>1, <3>2, <3>3 DEF ListInv, TypeOK, queueVars
    <3>9. CurrentMayRun'
      BY <1>1, <3>1, <3>2, <3>3, <3>5 DEF CurrentMayRun
    <3>10. QED BY <1>a, <3>7, <3>8, <3>9
  <2>3. CASE ExitProcess(t)
    <3>1. /\ Running(t) /\ t # Idle /\ RemoveCurrentThread(t)
          /\ exit_info' \in SUBSET Process
      BY <1>1, <2>3 DEF ExitProcess, RecordExit, TypeOK, Assumptions, SchedulerAssumption
    <3>2. QED BY <3>1, RemoveResult
  <2>4. CASE EndKernelThread(t)
    <3>1. /\ Running(t) /\ t # Idle /\ RemoveCurrentThread(t)
          /\ exit_info' \in SUBSET Process
      BY <1>1, <2>4 DEF EndKernelThread, TypeOK, Assumptions, ThreadingAssumption
    <3>2. QED BY <3>1, RemoveResult
  <2>5. ASSUME NEW k \in KernelThread, InsertThread(t, k) PROVE IInv'
    <3>1. /\ Running(t) /\ k \in unused /\ pc[t] = "run"
          /\ order' = Append(order, k)
          /\ unused' = unused \ {k}
          /\ pc' = [pc EXCEPT ![t] = "inserted"]
          /\ target' = [target EXCEPT ![t] = k]
          /\ UNCHANGED <<thread_list, switchVars, keyVars, wake_on_exit, exit_info,
                         queueVars, now>>
      BY <2>5 DEF InsertThread
    <3>2. k \in Thread /\ k \notin Threads(order)
      BY <1>1, <3>1 DEF ListInv, Assumptions, ThreadingAssumption
    <3>3. /\ order' \in Seq(Thread)
          /\ Threads(order') = Threads(order) \cup {k}
          /\ NoDuplicates(order')
      BY <1>1, <3>1, <3>2, AppendThread DEF SchedulerTypeOK, ListInv
    <3>4. TypeOK'
      BY <1>1, <3>1, <3>2, <3>3 DEF TypeOK, SchedulerTypeOK, QueueTypeOK, Points,
             switchVars, keyVars, queueVars
    <3>5. ListInv'
      BY <1>1, <3>1, <3>2, <3>3 DEF ListInv, TypeOK, switchVars, queueVars
    <3>6. CurrentMayRun'
      BY <1>1, <3>1, <3>3 DEF CurrentMayRun, TypeOK, switchVars, Running
    <3>7. QED BY <1>a, <3>4, <3>5, <3>6
  <2>6. ASSUME NEW k \in KernelThread, WaitForThread(t, k) PROVE IInv'
    <3> DEFINE found == k \in thread_list
    <3>1. /\ Running(t) /\ pc[t] = "run"
          /\ UNCHANGED <<listVars, keyVars, exit_info, target, pc, now>>
          /\ AwaitExit(t, k, found)
      BY <2>6 DEF WaitForThread
    <3>2. found \in BOOLEAN /\ UNCHANGED listVars /\ pc[t] # "sleeping" /\ k \in Thread
      BY <3>1 DEF Assumptions, ThreadingAssumption
    <3> HIDE DEF found
    <3>3. /\ SchedulerTypeOK'
          /\ wake_on_exit' \in [Thread -> Thread \cup {NULL}]
          /\ \A s \in Slot : elements'[s].tid \in Process \cup {NULL}
          /\ \A u \in unused' : state'[u] = "Run"
          /\ halted' = "no" => current' \in Threads(order') /\ state'[current'] = "Run"
      BY <3>1, <3>2, AwaitExitResult
    <3>4. TypeOK' /\ ListInv' /\ CurrentMayRun'
      BY <1>1, <3>1, <3>3 DEF TypeOK, ListInv, CurrentMayRun, listVars, keyVars
    <3>5. QED BY <1>a, <3>4
  <2>7. CASE GetKey(t)
    BY <1>1, <1>a, <2>7, GetKeyResult
  <2>8. ASSUME NEW d \in Durations, Sleep(t, d) PROVE IInv'
    <3>1. /\ Running(t) /\ t \in Process
          /\ UNCHANGED <<listVars, keyVars, waitVars, now>>
      BY <2>8 DEF Sleep, Assumptions, ThreadingAssumption
    <3>2. CASE Full
      BY <1>1, <1>a, <2>8, <3>1, <3>2 DEF Sleep, Halt, TypeOK, SchedulerTypeOK, QueueTypeOK,
             ListInv, CurrentMayRun, Endings, listVars, keyVars, waitVars, queueVars
    <3>3. CASE ~Full
      <4>1. /\ Insert(t, now + d)
            /\ state' = [state EXCEPT ![t] = "Wait"]
            /\ interrupts' = FALSE
            /\ pc' = [pc EXCEPT ![t] = "sleeping"]
            /\ UNCHANGED <<current, context, preempted, in_tick, halted>>
        BY <2>8, <3>3 DEF Sleep
      <4>2. now + d \in Nat
        <5>1. now \in Nat
          BY <1>1 DEF TypeOK
        <5>2. d \in Nat
          BY <1>1 DEF Assumptions, ThreadingAssumption
        <5>3. QED BY <5>1, <5>2
      <4>3. QueueTypeOK' /\ \A s \in Slot : elements'[s].tid \in Process \cup {NULL}
        BY <1>1, <3>1, <4>1, <4>2, InsertResult DEF SchedulerTypeOK, ListInv, Assumptions
      <4>4. t \notin unused /\ unused \subseteq Thread /\ current = t
        BY <1>1, <3>1 DEF CurrentMayRun, Running, ListInv, TypeOK, Assumptions,
               ThreadingAssumption, SchedulerAssumption
      <4>5. TypeOK'
        BY <1>1, <3>1, <4>1, <4>3 DEF TypeOK, SchedulerTypeOK, Points, listVars, keyVars, waitVars
      <4>6. ListInv'
        BY <1>1, <3>1, <4>1, <4>3, <4>4 DEF ListInv, TypeOK, SchedulerTypeOK, listVars, waitVars
      <4>7. CurrentMayRun'
        BY <1>1, <3>1, <4>1, <4>4 DEF CurrentMayRun, TypeOK, listVars, Running
      <4>8. QED BY <1>a, <4>5, <4>6, <4>7
    <3>4. QED BY <3>2, <3>3
  <2>9. QED BY <1>7, <2>1, <2>2, <2>3, <2>4, <2>5, <2>6, <2>7, <2>8 DEF ProgramStep
<1>8. QED BY <1>2, <1>3, <1>4, <1>5, <1>6, <1>7 DEF Next

\* The state stays typed, whatever the program does and whenever interrupts come
\* (all of the Manager's state).
THEOREM TypeCorrect == Spec => []TypeOK
<1>1. Assumptions
  BY TimeQueueAssumption, SchedulerAssumption, ThreadingAssumption DEF Assumptions
<1>2. Init => IInv
  BY <1>1, InitInvariant
<1>3. IInv /\ [Next]_vars => IInv'
  BY <1>1, StepKeepsInvariant
<1>4. IInv => TypeOK
  BY DEF IInv
<1>5. QED BY <1>2, <1>3, <1>4, PTL DEF Spec

\* next() and switch_to() only give the CPU to a thread of the system list that may
\* run, and it may run for as long as it has the CPU.
THEOREM CurrentAlwaysMayRun == Spec => []CurrentMayRun
<1>1. Assumptions
  BY TimeQueueAssumption, SchedulerAssumption, ThreadingAssumption DEF Assumptions
<1>2. Init => IInv
  BY <1>1, InitInvariant
<1>3. IInv /\ [Next]_vars => IInv'
  BY <1>1, StepKeepsInvariant
<1>4. IInv => CurrentMayRun
  BY DEF IInv
<1>5. QED BY <1>2, <1>3, <1>4, PTL DEF Spec

-----------------------------------------------------------------------------
(* The order of the time queue *)

\* The links of the elements in use: nothing is in front of the head, and what
\* next names is in use, names the element as its prev, and is not earlier.
\* Elements that a walk from head does not reach are included.
LinksInv ==
  /\ head # NULL => elements[head].valid /\ elements[head].prev = NULL
  /\ \A s \in Slot : elements[s].valid /\ elements[s].next # NULL =>
       /\ elements[elements[s].next].valid
       /\ elements[elements[s].next].prev = s
       /\ elements[s].when <= elements[elements[s].next].when

\* A set that holds s and is closed under next holds all that a walk from s visits.
LEMMA ReachableIsLeast ==
  ASSUME QueueTypeOK, NEW s \in Slot, NEW S \in SUBSET Slot, s \in S,
         \A y \in S : elements[y].next # NULL => elements[y].next \in S
  PROVE  ReachableFrom(s) \subseteq S
BY DEF ReachableFrom

\* What a walk visits is such a set itself.
LEMMA ReachableIsClosed ==
  ASSUME QueueTypeOK, NEW s \in Slot
  PROVE  /\ ReachableFrom(s) \in SUBSET Slot
         /\ s \in ReachableFrom(s)
         /\ \A y \in ReachableFrom(s) :
              elements[y].next # NULL => elements[y].next \in ReachableFrom(s)
<1>1. \A y \in Slot : elements[y].next \in Slot \cup {NULL}
  BY DEF QueueTypeOK, Element, Link
<1>2. QED BY <1>1 DEF ReachableFrom

\* An element that is visited is the first or is named by one that is visited.
LEMMA ReachedFromBefore ==
  ASSUME QueueTypeOK, NEW s \in Slot, NEW x \in ReachableFrom(s), x # s
  PROVE  \E y \in ReachableFrom(s) : elements[y].next = x
<1> SUFFICES ASSUME \A y \in ReachableFrom(s) : elements[y].next # x PROVE FALSE
  OBVIOUS
<1> DEFINE S == ReachableFrom(s) \ {x}
<1>1. /\ S \in SUBSET Slot /\ s \in S
      /\ \A y \in S : elements[y].next # NULL => elements[y].next \in S
  BY ReachableIsClosed
<1> HIDE DEF S
<1>2. ReachableFrom(s) \subseteq S
  BY <1>1, ReachableIsLeast
<1>3. QED BY <1>2 DEF S

\* All that the walk from head visits is in use.
LEMMA LinkedAreValid ==
  ASSUME QueueTypeOK, LinksInv, TimeQueueAssumption
  PROVE  \A s \in Linked : s \in Slot /\ elements[s].valid
<1>1. CASE head = NULL
  BY <1>1 DEF Linked
<1>2. CASE head # NULL
  <2> DEFINE S == {s \in Slot : elements[s].valid}
  <2>1. head \in Slot
    BY <1>2 DEF QueueTypeOK, Link
  <2>2. \A y \in Slot : elements[y].next \in Slot \cup {NULL}
    BY DEF QueueTypeOK, Element, Link
  <2>3. /\ S \in SUBSET Slot /\ head \in S
        /\ \A y \in S : elements[y].next # NULL => elements[y].next \in S
    BY <1>2, <2>1, <2>2 DEF LinksInv
  <2> HIDE DEF S
  <2>4. ReachableFrom(head) \subseteq S
    BY <2>1, <2>3, ReachableIsLeast
  <2>5. QED BY <1>2, <2>4 DEF Linked, S
<1>3. QED BY <1>1, <1>2

\* The element in front of the first later one is not later: the walk from head
\* cannot come back to what it has left behind.
LEMMA BeforeFirstLater ==
  ASSUME QueueTypeOK, LinksInv, TimeQueueAssumption, NEW when \in Nat,
         head # NULL, NEW c \in Slot, FirstLater(c, when)
  PROVE  /\ elements[c].valid
         /\ elements[c].prev = NULL => c = head
         /\ elements[c].prev # NULL =>
              LET p == elements[c].prev
              IN /\ p \in Slot /\ p # c /\ c # head
                 /\ elements[p].valid /\ elements[p].next = c
                 /\ elements[p].when <= when
<1>1. head \in Slot
  BY DEF QueueTypeOK, Link
<1>2. /\ c \in ReachableFrom(head) /\ when < elements[c].when
      /\ \A d \in ReachableFrom(head) : when < elements[d].when => d \in ReachableFrom(c)
  BY DEF FirstLater, Linked
<1>3. \A s \in ReachableFrom(head) : s \in Slot /\ elements[s].valid
  BY LinkedAreValid DEF Linked
<1>4. \A s \in Slot : elements[s].when \in Nat
  BY DEF QueueTypeOK, Element
<1>5. CASE c = head
  BY <1>2, <1>3, <1>5 DEF LinksInv
<1>6. CASE c # head
  <2>1. PICK p \in ReachableFrom(head) : elements[p].next = c
    BY <1>1, <1>2, <1>6, ReachedFromBefore
  <2>2. p \in Slot /\ elements[p].valid /\ elements[c].prev = p /\ p # NULL
    <3>1. p \in Slot /\ elements[p].valid /\ c # NULL
      BY <1>3, <2>1 DEF TimeQueueAssumption, Slot
    <3>2. QED BY <2>1, <3>1 DEF LinksInv, TimeQueueAssumption, Slot
  <2>3. p \notin ReachableFrom(c)
    <3> SUFFICES ASSUME p \in ReachableFrom(c) PROVE FALSE
      OBVIOUS
    <3> DEFINE S == ReachableFrom(head) \ ReachableFrom(c)
    <3>1. head \notin ReachableFrom(c)
      <4> SUFFICES ASSUME head \in ReachableFrom(c) PROVE FALSE
        OBVIOUS
      <4>1. PICK y \in ReachableFrom(c) : elements[y].next = head
        BY <1>6, ReachedFromBefore
      <4>2. y \in Slot /\ elements[y].valid
        <5>1. ReachableFrom(c) \subseteq ReachableFrom(head)
          BY <1>1, <1>2, ReachableIsClosed, ReachableIsLeast
        <5>2. QED BY <1>3, <4>1, <5>1
      <4>3. elements[head].prev = y /\ y # NULL
        BY <1>1, <4>1, <4>2 DEF LinksInv, TimeQueueAssumption, Slot
      <4>4. QED BY <4>3 DEF LinksInv
    <3>2. \A y \in S : elements[y].next # NULL => elements[y].next \in S
      <4> SUFFICES ASSUME NEW y \in S, elements[y].next # NULL,
                          elements[y].next \in ReachableFrom(c)
                   PROVE  FALSE
        BY <1>1, ReachableIsClosed
      <4> DEFINE z == elements[y].next
      <4>1. y \in Slot /\ elements[y].valid /\ elements[z].prev = y /\ y \notin ReachableFrom(c)
        BY <1>3 DEF LinksInv
      <4>2. CASE z = c
        BY <2>2, <4>1, <4>2
      <4>3. CASE z # c
        <5>1. PICK x \in ReachableFrom(c) : elements[x].next = z
          BY <4>3, ReachedFromBefore
        <5>2. ReachableFrom(c) \subseteq ReachableFrom(head)
          BY <1>1, <1>2, ReachableIsClosed, ReachableIsLeast
        <5>3. elements[z].prev = x
          BY <1>3, <5>1, <5>2 DEF LinksInv
        <5>4. QED BY <4>1, <5>1, <5>3
      <4>4. QED BY <4>2, <4>3
    <3>3. S \in SUBSET Slot /\ head \in S
      BY <1>1, <3>1, ReachableIsClosed
    <3> HIDE DEF S
    <3>4. ReachableFrom(head) \subseteq S
      BY <1>1, <3>2, <3>3, ReachableIsLeast
    <3>5. c \in S /\ c \in ReachableFrom(c)
      BY <1>2, <3>4, ReachableIsClosed
    <3>6. QED BY <3>5 DEF S
  <2>4. p # c /\ elements[p].when <= when
    BY <1>2, <1>4, <2>1, <2>2, <2>3, ReachableIsClosed
  <2>5. QED BY <1>2, <1>3, <1>6, <2>1, <2>2, <2>4
<1>7. QED BY <1>5, <1>6

\* insert() takes an element nobody uses and leaves what the others hold.
LEMMA InsertFillsOne ==
  ASSUME QueueTypeOK, LinksInv, TimeQueueAssumption, NEW tid \in Process, NEW when \in Nat,
         SchedulerAssumption, Insert(tid, when)
  PROVE  /\ LinksInv'
         /\ \E s \in Slot :
              /\ ~elements[s].valid
              /\ elements'[s].valid /\ elements'[s].tid = tid
              /\ \A r \in Slot \ {s} : /\ elements'[r].valid = elements[r].valid
                                       /\ elements'[r].tid = elements[r].tid
                                       /\ elements'[r].when = elements[r].when
<1>1. PICK s \in Slot : ~elements[s].valid /\ InsertInto(s, tid, when)
  BY DEF Insert, FirstFree
<1> DEFINE rest == Slot \ {s}
           OneIsFilled == /\ elements'[s].valid /\ elements'[s].tid = tid
                          /\ \A r \in rest : /\ elements'[r].valid = elements[r].valid
                                             /\ elements'[r].tid = elements[r].tid
                                             /\ elements'[r].when = elements[r].when
<1>2. \A r \in Slot : /\ elements[r].valid \in BOOLEAN
                      /\ elements[r].next \in Slot \cup {NULL}
                      /\ elements[r].prev \in Slot \cup {NULL}
                      /\ elements[r].when \in Nat
  BY DEF QueueTypeOK, Element, Link
<1>3. NULL \notin Slot
  BY DEF Slot, TimeQueueAssumption
<1>4. \A r \in Slot : elements[r].valid => elements[r].next # s
  BY <1>1, <1>3 DEF LinksInv
<1>5. elements \in [Slot -> Element] /\ head \in Slot \cup {NULL} /\ tail \in Slot \cup {NULL}
  BY DEF QueueTypeOK, Link
<1>6. CASE /\ elements' = Fill(elements, s, tid, when, tail, NULL)
           /\ head' = head /\ head # NULL
  <2>1. /\ elements'[s] = [valid |-> TRUE, tid |-> tid, when |-> when,
                           prev |-> tail, next |-> NULL]
        /\ \A r \in rest : elements'[r] = elements[r]
    BY <1>5, <1>6 DEF Fill
  <2>2. OneIsFilled
    BY <2>1
  <2>3. LinksInv'
    BY <1>1, <1>2, <1>3, <1>4, <1>5, <1>6, <2>1 DEF LinksInv
  <2>4. QED BY <1>1, <2>2, <2>3
<1>7. CASE /\ elements' = Fill(elements, s, tid, when, NULL, NULL)
           /\ head' = s /\ head = NULL
  <2>1. /\ elements'[s] = [valid |-> TRUE, tid |-> tid, when |-> when,
                           prev |-> NULL, next |-> NULL]
        /\ \A r \in rest : elements'[r] = elements[r]
    BY <1>5, <1>7 DEF Fill
  <2>2. OneIsFilled
    BY <2>1
  <2>3. LinksInv'
    BY <1>1, <1>2, <1>3, <1>4, <1>7, <2>1 DEF LinksInv
  <2>4. QED BY <1>1, <2>2, <2>3
<1>8. ASSUME NEW c \in Slot, head # NULL, FirstLater(c, when),
             LET p == elements[c].prev
                 filled == Fill(elements, s, tid, when, p, c)
             IN IF p = NULL
                THEN /\ elements' = [filled EXCEPT ![c].prev = s]
                     /\ head' = s
                ELSE /\ elements' = [filled EXCEPT ![c].prev = s, ![p].next = s]
                     /\ UNCHANGED head
      PROVE  LinksInv' /\ OneIsFilled
  <2> DEFINE p == elements[c].prev
             filled == Fill(elements, s, tid, when, p, c)
  <2>1. /\ elements[c].valid /\ c # s /\ when < elements[c].when
        /\ p = NULL => c = head
        /\ p # NULL => /\ p \in rest /\ p # c /\ c # head
                       /\ elements[p].valid /\ elements[p].next = c
                       /\ elements[p].when <= when
    BY <1>1, <1>8, BeforeFirstLater DEF FirstLater
  <2>2. /\ filled \in [Slot -> Element]
        /\ filled[s] = [valid |-> TRUE, tid |-> tid, when |-> when, prev |-> p, next |-> c]
        /\ \A r \in rest : filled[r] = elements[r]
    <3>1. [valid |-> TRUE, tid |-> tid, when |-> when, prev |-> p, next |-> c] \in Element
      BY <1>2 DEF Element, Link, SchedulerAssumption
    <3>2. QED BY <1>5, <3>1 DEF Fill
  <2>3. CASE p = NULL
    <3>1. elements' = [filled EXCEPT ![c].prev = s] /\ head' = s
      BY <1>8, <2>3
    <3> HIDE DEF filled
    <3>2. /\ elements'[s] = filled[s]
          /\ \A r \in rest \ {c} : elements'[r] = elements[r]
      BY <2>1, <2>2, <3>1
    <3>c. elements'[c] = [elements[c] EXCEPT !.prev = s]
      BY <2>1, <2>2, <3>1
    <3>3. /\ elements'[c].valid /\ elements'[c].prev = s
          /\ elements'[c].next = elements[c].next /\ elements'[c].when = elements[c].when
          /\ elements'[c].tid = elements[c].tid
      BY <1>5, <2>1, <3>c DEF Element
    <3> HIDE DEF p
    <3>4. OneIsFilled
      <4>1. elements'[s].valid /\ elements'[s].tid = tid
        BY <2>2, <3>2
      <4>2. ASSUME NEW r \in rest
            PROVE  /\ elements'[r].valid = elements[r].valid
                   /\ elements'[r].tid = elements[r].tid
                   /\ elements'[r].when = elements[r].when
        <5>1. CASE r = c
          BY <2>1, <3>3, <5>1
        <5>2. CASE r \in rest \ {c}
          BY <3>2, <5>2
        <5>3. QED BY <5>1, <5>2
      <4>3. QED BY <4>1, <4>2
    <3>5. \A r \in Slot : elements[r].valid => elements[r].next # c
      BY <1>3, <2>1, <2>3 DEF LinksInv, p
    <3>6. LinksInv'
      BY <1>1, <1>2, <1>3, <1>4, <2>1, <2>2, <2>3, <3>1, <3>2, <3>3, <3>5 DEF LinksInv
    <3>7. QED BY <3>4, <3>6
  <2>4. CASE p # NULL
    <3>1. elements' = [filled EXCEPT ![c].prev = s, ![p].next = s] /\ head' = head
      BY <1>8, <2>4
    <3> HIDE DEF filled, p
    <3>2. /\ elements'[s] = filled[s]
          /\ \A r \in rest \ {c, p} : elements'[r] = elements[r]
      BY <2>1, <2>2, <2>4, <3>1
    <3>c. /\ elements'[c] = [elements[c] EXCEPT !.prev = s]
          /\ elements'[p] = [elements[p] EXCEPT !.next = s]
      BY <2>1, <2>2, <2>4, <3>1
    <3>3. /\ elements'[c].valid /\ elements'[c].prev = s
          /\ elements'[c].next = elements[c].next /\ elements'[c].when = elements[c].when
          /\ elements'[c].tid = elements[c].tid
          /\ elements'[p].valid /\ elements'[p].next = s
          /\ elements'[p].prev = elements[p].prev /\ elements'[p].when = elements[p].when
          /\ elements'[p].tid = elements[p].tid
      BY <1>5, <2>1, <2>4, <3>c DEF Element
    <3>4. OneIsFilled
      <4>1. elements'[s].valid /\ elements'[s].tid = tid
        BY <2>2, <3>2
      <4>2. ASSUME NEW r \in rest
            PROVE  /\ elements'[r].valid = elements[r].valid
                   /\ elements'[r].tid = elements[r].tid
                   /\ elements'[r].when = elements[r].when
        <5>1. CASE r = c
          BY <2>1, <3>3, <5>1
        <5>2. CASE r = p
          BY <2>1, <2>4, <3>3, <5>2
        <5>3. CASE r \in rest \ {c, p}
          BY <3>2, <5>3
        <5>4. QED BY <5>1, <5>2, <5>3
      <4>3. QED BY <4>1, <4>2
    <3>5. \A r \in rest : elements[r].valid /\ elements[r].next = c => r = p
      BY <1>3, <2>1, <2>4 DEF LinksInv, p
    <3>6. LinksInv'
      <4>1. head' # NULL => elements'[head'].valid /\ elements'[head'].prev = NULL
        <5>1. elements[head].valid /\ elements[head].prev = NULL /\ head \in rest /\ head # c
          BY <1>1, <1>5, <1>8, <2>1, <2>4 DEF LinksInv
        <5>2. elements'[head].valid /\ elements'[head].prev = NULL
          <6>1. CASE head = p
            BY <3>3, <5>1, <6>1
          <6>2. CASE head # p
            BY <3>2, <5>1, <6>2
          <6>3. QED BY <6>1, <6>2
        <5>3. QED BY <3>1, <5>2
      <4>2. ASSUME NEW r \in Slot, elements'[r].valid, elements'[r].next # NULL
            PROVE  /\ elements'[elements'[r].next].valid
                   /\ elements'[elements'[r].next].prev = r
                   /\ elements'[r].when <= elements'[elements'[r].next].when
        <5>1. CASE r = s
          BY <1>2, <2>1, <2>2, <3>2, <3>3, <5>1
        <5>2. CASE r = p
          BY <1>2, <2>1, <2>2, <2>4, <3>2, <3>3, <5>2
        <5>3. CASE r # s /\ r # p
          <6>1. /\ elements[r].valid /\ elements'[r].next = elements[r].next
                /\ elements'[r].when = elements[r].when
            BY <2>1, <3>2, <3>3, <4>2, <5>3
          <6>2. elements[r].next \in Slot \ {s, c}
            BY <1>2, <1>4, <3>5, <4>2, <5>3, <6>1
          <6>3. ASSUME NEW x \in Slot \ {s, c}
                PROVE  /\ elements'[x].valid = elements[x].valid
                       /\ elements'[x].prev = elements[x].prev
                       /\ elements'[x].when = elements[x].when
            <7>1. CASE x = p
              BY <2>1, <2>4, <3>3, <7>1
            <7>2. CASE x # p
              BY <3>2, <7>2
            <7>3. QED BY <7>1, <7>2
          <6>4. QED BY <4>2, <6>1, <6>2, <6>3 DEF LinksInv
        <5>4. QED BY <5>1, <5>2, <5>3
      <4>3. QED BY <4>1, <4>2 DEF LinksInv
    <3>7. QED BY <3>4, <3>6
  <2>5. QED BY <2>3, <2>4
<1>9. QED BY <1>1, <1>6, <1>7, <1>8 DEF InsertInto

\* check() frees the head's element and leaves what the others hold.
LEMMA PopFreesHead ==
  ASSUME QueueTypeOK, LinksInv, TimeQueueAssumption, head # NULL, PopHead
  PROVE  /\ LinksInv'
         /\ head \in Slot /\ elements[head].valid /\ ~elements'[head].valid
         /\ \A r \in Slot \ {head} : elements'[r].valid = elements[r].valid
         /\ \A r \in Slot : /\ elements'[r].tid = elements[r].tid
                            /\ elements'[r].when = elements[r].when
<1> DEFINE n == elements[head].next
           popped == [elements EXCEPT ![head].valid = FALSE]
<1>1. /\ elements' = IF n = NULL THEN popped ELSE [popped EXCEPT ![n].prev = NULL]
      /\ head' = n
  BY DEF PopHead
<1>2. /\ head \in Slot /\ elements[head].valid /\ elements[head].prev = NULL
      /\ NULL \notin Slot
  BY DEF QueueTypeOK, Link, LinksInv, Slot, TimeQueueAssumption
<1>3. /\ elements \in [Slot -> Element]
      /\ \A r \in Slot : elements[r].next \in Slot \cup {NULL}
  BY DEF QueueTypeOK, Element, Link
<1>4. \A r \in Slot : elements[r].valid => elements[r].next # head
  BY <1>2 DEF LinksInv
<1>5. n # NULL => n \in Slot /\ n # head /\ elements[n].valid /\ elements[n].prev = head
  BY <1>2, <1>3, <1>4 DEF LinksInv
<1>6. /\ popped \in [Slot -> Element]
      /\ popped[head] = [elements[head] EXCEPT !.valid = FALSE]
      /\ \A r \in Slot \ {head} : popped[r] = elements[r]
  BY <1>2, <1>3 DEF Element
<1> HIDE DEF popped
<1>7. /\ \A r \in Slot : /\ elements'[r].tid = elements[r].tid
                         /\ elements'[r].when = elements[r].when
                         /\ elements'[r].next = elements[r].next
      /\ ~elements'[head].valid
      /\ \A r \in Slot \ {head} : elements'[r].valid = elements[r].valid
      /\ n # NULL => elements'[n].prev = NULL
      /\ \A r \in Slot \ {n} : elements'[r].prev = elements[r].prev
  <2>1. /\ \A r \in Slot : /\ popped[r].tid = elements[r].tid
                           /\ popped[r].when = elements[r].when
                           /\ popped[r].next = elements[r].next
                           /\ popped[r].prev = elements[r].prev
        /\ ~popped[head].valid
        /\ \A r \in Slot \ {head} : popped[r].valid = elements[r].valid
    BY <1>2, <1>3, <1>6 DEF Element
  <2>2. CASE n = NULL
    BY <1>1, <2>1, <2>2
  <2>3. CASE n # NULL
    <3>1. n \in Slot /\ elements' = [popped EXCEPT ![n].prev = NULL]
      BY <1>1, <1>5, <2>3
    <3> HIDE DEF n
    <3>2. /\ elements'[n] = [popped[n] EXCEPT !.prev = NULL]
          /\ \A r \in Slot \ {n} : elements'[r] = popped[r]
      BY <1>6, <3>1
    <3>3. /\ elements'[n].tid = popped[n].tid /\ elements'[n].when = popped[n].when
          /\ elements'[n].next = popped[n].next /\ elements'[n].valid = popped[n].valid
          /\ elements'[n].prev = NULL
      BY <1>6, <3>1, <3>2 DEF Element
    <3>4. QED BY <1>2, <2>1, <3>1, <3>2, <3>3
  <2>4. QED BY <2>2, <2>3
<1>8. LinksInv'
  <2>1. head' # NULL => elements'[head'].valid /\ elements'[head'].prev = NULL
    BY <1>1, <1>5, <1>7
  <2>2. ASSUME NEW r \in Slot, elements'[r].valid, elements'[r].next # NULL
        PROVE  /\ elements'[elements'[r].next].valid
               /\ elements'[elements'[r].next].prev = r
               /\ elements'[r].when <= elements'[elements'[r].next].when
    <3> DEFINE x == elements[r].next
    <3>1. r # head /\ elements[r].valid /\ elements'[r].next = x /\ x \in Slot /\ x # head
      BY <1>3, <1>4, <1>7, <2>2
    <3>2. elements[x].valid /\ elements[x].prev = r /\ elements[r].when <= elements[x].when
      BY <1>2, <3>1 DEF LinksInv
    <3>3. x # n
      BY <1>2, <1>5, <3>1, <3>2
    <3> HIDE DEF x, n
    <3>4. QED BY <1>7, <3>1, <3>2, <3>3
  <2>3. QED BY <2>1, <2>2 DEF LinksInv
<1>9. QED BY <1>2, <1>7, <1>8

\* What a yield does to the queue and to processes: it pops nothing or the head whose
\* deadline has passed, and makes nobody but that thread run.
LEMMA YieldEffects ==
  ASSUME SchedulerTypeOK, SchedulerAssumption,
         NEW st \in [Thread -> {"Run", "Wait"}], NEW list, NEW here, NEW tick,
         Yield(st, list, here, tick)
  PROVE  /\ UNCHANGED queueVars \/ (Due(now) /\ PopHead)
         /\ \A u \in Process :
              \/ state'[u] = st[u]
              \/ Due(now) /\ PopHead /\ u = DueThread /\ state'[u] = "Run"
<1>1. Process \subseteq Thread /\ Idle \in Thread /\ Idle \notin Process
  BY DEF SchedulerAssumption
<1>2. ASSUME Walk(st, list, here, tick)
      PROVE  \A u \in Process : state'[u] = st[u]
  <2>1. CASE TakeTurn(st, list, here, tick)
    <3>1. state' = [st EXCEPT ![Idle] = "Wait"] \/ state' = st
      BY <2>1 DEF TakeTurn
    <3>2. QED BY <1>1, <3>1
  <2>2. CASE GoOn(st, tick)
    BY <2>2 DEF GoOn
  <2>3. CASE GoIdle(st, tick)
    BY <1>1, <2>3 DEF GoIdle
  <2>4. CASE WalkForEver(st)
    BY <2>4 DEF WalkForEver
  <2>5. QED BY <1>2, <2>1, <2>2, <2>3, <2>4 DEF Walk
<1>3. CASE Due(now) /\ PopHead /\ WakeSleeper(st, tick)
  <2>1. state' = [st EXCEPT ![DueThread] = "Run"]
    BY <1>3 DEF WakeSleeper
  <2>2. \A u \in Process : state'[u] = st[u] \/ (u = DueThread /\ state'[u] = "Run")
    BY <1>1, <2>1
  <2>3. QED BY <1>3, <2>2
<1>4. CASE Due(now) /\ PopHead /\ Walk(st, list, here, tick)
  BY <1>2, <1>4
<1>5. CASE UNCHANGED queueVars /\ Walk(st, list, here, tick)
  BY <1>2, <1>5
<1>6. QED BY <1>3, <1>4, <1>5 DEF Yield

\* The time queue changes by insert() and check() only.
LEMMA QueueStep ==
  ASSUME IInv, Assumptions, Next
  PROVE  \/ UNCHANGED queueVars
         \/ Due(now) /\ PopHead
         \/ \E t \in Process, when \in Nat : Insert(t, when)
<1> DEFINE Goal == \/ UNCHANGED queueVars
                   \/ Due(now) /\ PopHead
                   \/ \E t \in Process, when \in Nat : Insert(t, when)
<1>1. /\ SchedulerTypeOK /\ SchedulerAssumption
      /\ state \in [Thread -> {"Run", "Wait"}]
      /\ now \in Nat
      /\ \A t \in Thread : [state EXCEPT ![t] = "Wait"] \in [Thread -> {"Run", "Wait"}]
  BY DEF IInv, TypeOK, SchedulerTypeOK, Assumptions, ThreadingAssumption
<1>2. ASSUME NEW st \in [Thread -> {"Run", "Wait"}], NEW tick, YieldFrom(st, tick)
      PROVE  Goal
  BY <1>1, <1>2, YieldEffects DEF YieldFrom
<1>3. CASE Tick
  BY <1>1, <1>2, <1>3 DEF Tick, TimerInterrupt
<1>4. CASE KeyboardEvent
  BY <1>4 DEF KeyboardEvent
<1>5. CASE Elapse
  BY <1>5 DEF Elapse
<1>6. CASE Stopped
  BY <1>6 DEF Stopped, vars
<1>7. ASSUME NEW t \in Thread, NEW x, NEW found, AwaitExit(t, x, found) PROVE Goal
  BY <1>1, <1>2, <1>7 DEF AwaitExit
<1>8. ASSUME NEW t \in Thread, RemoveCurrentThread(t) PROVE Goal
  <2>1. Woken(t) \in [Thread -> {"Run", "Wait"}]
    BY <1>1 DEF Woken
  <2>2. PICK list, here : Yield(Woken(t), list, here, FALSE)
    BY <1>8 DEF RemoveCurrentThread
  <2>3. QED BY <1>1, <2>1, <2>2, YieldEffects
<1>9. ASSUME NEW t \in Thread, KernelStep(t) PROVE Goal
  <2>1. CASE WaitForProcess(t)
    BY <1>7, <2>1 DEF WaitForProcess
  <2>2. CASE ExecReturns(t)
    BY <2>2 DEF ExecReturns
  <2>3. CASE EnterThread(t)
    BY <2>3 DEF EnterThread
  <2>4. CASE GetKey(t)
    BY <2>4 DEF GetKey
  <2>5. CASE WaitForKeyboard(t)
    BY <1>1, <1>2, <2>5 DEF WaitForKeyboard
  <2>6. CASE SleepYield(t)
    BY <1>1, <1>2, <2>6 DEF SleepYield
  <2>7. QED BY <1>9, <2>1, <2>2, <2>3, <2>4, <2>5, <2>6 DEF KernelStep
<1>10. ASSUME NEW t \in Thread, ProgramStep(t) PROVE Goal
  <2>1. CASE SyscallYield(t)
    BY <1>1, <1>2, <2>1 DEF SyscallYield
  <2>2. CASE \E p \in Process : StartProcess(t, p)
    BY <2>2 DEF StartProcess
  <2>3. CASE ExitProcess(t) \/ EndKernelThread(t)
    BY <1>8, <2>3 DEF ExitProcess, EndKernelThread
  <2>4. CASE \E k \in KernelThread : InsertThread(t, k)
    BY <2>4 DEF InsertThread
  <2>5. CASE \E k \in KernelThread : WaitForThread(t, k)
    BY <1>7, <2>5 DEF WaitForThread
  <2>6. CASE GetKey(t)
    BY <2>6 DEF GetKey
  <2>7. ASSUME NEW d \in Durations, Sleep(t, d) PROVE Goal
    <3>1. t \in Process /\ now + d \in Nat
      BY <1>1, <2>7 DEF Sleep, Assumptions, ThreadingAssumption
    <3>2. QED BY <2>7, <3>1 DEF Sleep
  <2>8. QED BY <1>10, <2>1, <2>2, <2>3, <2>4, <2>5, <2>6, <2>7 DEF ProgramStep
<1>11. QED BY <1>3, <1>4, <1>5, <1>6, <1>9, <1>10 DEF Next

\* The links are in order after every step.
LEMMA StepKeepsLinks ==
  ASSUME IInv, LinksInv, Assumptions, [Next]_vars
  PROVE  LinksInv'
<1>1. QueueTypeOK /\ TimeQueueAssumption /\ SchedulerAssumption
  BY DEF IInv, TypeOK, SchedulerTypeOK, Assumptions
<1>2. CASE UNCHANGED queueVars
  BY <1>2 DEF queueVars, LinksInv
<1>3. CASE Due(now) /\ PopHead
  BY <1>1, <1>3, PopFreesHead DEF Due
<1>4. ASSUME NEW t \in Process, NEW when \in Nat, Insert(t, when) PROVE LinksInv'
  BY <1>1, <1>4, InsertFillsOne
<1>5. CASE UNCHANGED vars
  BY <1>2, <1>5 DEF vars
<1>6. QED BY <1>2, <1>3, <1>4, <1>5, QueueStep

\* From head along next, the sleepers come in the order of their deadlines, each one
\* holding on to the one before: TimeQueue.insert() and TimeQueue.check() never leave a
\* list that is half linked or out of order, even when a sleeper is lost.
THEOREM SleepersAreSorted == Spec => []SortedByDeadline
<1>1. Assumptions
  BY TimeQueueAssumption, SchedulerAssumption, ThreadingAssumption DEF Assumptions
<1>2. Init => IInv /\ LinksInv
  <2>1. Init => LinksInv
    BY <1>1 DEF Init, QueueInit, LinksInv
  <2>2. QED BY <1>1, <2>1, InitInvariant
<1>3. IInv /\ LinksInv /\ [Next]_vars => (IInv /\ LinksInv)'
  BY <1>1, StepKeepsInvariant, StepKeepsLinks
<1>4. IInv /\ LinksInv => SortedByDeadline
  BY <1>1, LinkedAreValid DEF IInv, TypeOK, SchedulerTypeOK, SortedByDeadline, LinksInv,
         Assumptions
<1>5. QED BY <1>2, <1>3, <1>4, PTL DEF Spec

-----------------------------------------------------------------------------
(* What a sleeper waits for *)

\* Where in the kernel a process is that something is to wake: the reader of the
\* keyboard in get_key(), one that waits for a thread that is present (in the
\* list, or not created yet) in wait_for_process() of this thread, and a sleeper at or
\* after the yield of its sleep, with one element of its own.
Waits(es, st, pcs, exits, targets, reader, present) ==
  /\ reader # NULL => reader \in Process /\ st[reader] = "Wait" /\ pcs[reader] = "key"
  /\ \A c \in present, t \in Process :
       exits[c] = t => st[t] = "Wait" /\ pcs[t] = "waited" /\ targets[t] = c
  /\ \A s \in Slot : es[s].valid =>
       /\ es[s].tid \in Process
       /\ st[es[s].tid] = "Wait"
       /\ pcs[es[s].tid] \in {"sleeping", "run"}
  /\ \A r, s \in Slot : es[r].valid /\ es[s].valid /\ es[r].tid = es[s].tid => r = s
  /\ \A t \in Thread : pcs[t] = "key_gap" => t \in Process

WaitInv == Waits(elements, state, pc, wake_on_exit, target, waiting_for_keyboard,
                 Threads(order) \cup unused)

\* A yield wakes a sleeper together with its element, and no other process.
LEMMA YieldKeepsWaits ==
  ASSUME SchedulerTypeOK, LinksInv, TimeQueueAssumption, SchedulerAssumption,
         NEW st \in [Thread -> {"Run", "Wait"}], NEW list, NEW here, NEW tick,
         NEW pcs, NEW exits, NEW targets, NEW reader, NEW present,
         Waits(elements, st, pcs, exits, targets, reader, present),
         Yield(st, list, here, tick)
  PROVE  Waits(elements', state', pcs, exits, targets, reader, present)
<1>1. /\ UNCHANGED queueVars \/ (Due(now) /\ PopHead)
      /\ \A u \in Process :
           \/ state'[u] = st[u]
           \/ Due(now) /\ PopHead /\ u = DueThread /\ state'[u] = "Run"
  BY YieldEffects
<1>2. CASE ~(Due(now) /\ PopHead)
  <2>1. elements' = elements /\ \A u \in Process : state'[u] = st[u]
    BY <1>1, <1>2 DEF queueVars
  <2>2. QED BY <2>1 DEF Waits
<1>3. CASE Due(now) /\ PopHead
  <2>1. /\ head \in Slot /\ elements[head].valid /\ ~elements'[head].valid
        /\ \A r \in Slot \ {head} : elements'[r].valid = elements[r].valid
        /\ \A r \in Slot : elements'[r].tid = elements[r].tid
    BY <1>3, PopFreesHead DEF Due, SchedulerTypeOK
  <2>2. /\ DueThread = elements[head].tid /\ DueThread \in Process
        /\ pcs[DueThread] \in {"sleeping", "run"}
    BY <2>1 DEF Waits, DueThread
  <2>3. \A u \in Process : u # DueThread => state'[u] = st[u]
    BY <1>1
  <2>4. \A r \in Slot : elements'[r].valid => /\ elements[r].valid
                                              /\ elements[r].tid # DueThread
                                              /\ elements'[r].tid = elements[r].tid
    BY <2>1, <2>2 DEF Waits
  <2>5. reader # NULL => reader \in Process /\ state'[reader] = "Wait" /\ pcs[reader] = "key"
    BY <2>2, <2>3 DEF Waits
  <2>6. \A c \in present, t \in Process :
          exits[c] = t => state'[t] = "Wait" /\ pcs[t] = "waited" /\ targets[t] = c
    BY <2>2, <2>3 DEF Waits
  <2>7. \A s \in Slot : elements'[s].valid =>
          /\ elements'[s].tid \in Process
          /\ state'[elements'[s].tid] = "Wait"
          /\ pcs[elements'[s].tid] \in {"sleeping", "run"}
    BY <2>3, <2>4 DEF Waits
  <2>8. \A r, s \in Slot : elements'[r].valid /\ elements'[s].valid
                             /\ elements'[r].tid = elements'[s].tid => r = s
    BY <2>4 DEF Waits
  <2>9. \A t \in Thread : pcs[t] = "key_gap" => t \in Process
    BY DEF Waits
  <2>10. QED BY <2>5, <2>6, <2>7, <2>8, <2>9 DEF Waits
<1>4. QED BY <1>2, <1>3

\* A thread that runs may go on in the kernel, and look for another target: it is
\* none of those that wait.
LEMMA RunnerMoves ==
  ASSUME SchedulerAssumption,
         NEW es, NEW st, NEW pcs \in [Thread -> Points],
         NEW targets \in [Thread -> Thread \cup {NULL}], NEW exits, NEW reader, NEW present,
         Waits(es, st, pcs, exits, targets, reader, present),
         NEW t \in Thread, st[t] = "Run", NEW p, p = "key_gap" => t \in Process, NEW x
  PROVE  /\ Waits(es, st, [pcs EXCEPT ![t] = p], exits, targets, reader, present)
         /\ Waits(es, st, [pcs EXCEPT ![t] = p], exits, [targets EXCEPT ![t] = x],
                  reader, present)
<1>1. \A u \in Thread : /\ [pcs EXCEPT ![t] = p][u] = IF u = t THEN p ELSE pcs[u]
                        /\ [targets EXCEPT ![t] = x][u] = IF u = t THEN x ELSE targets[u]
  OBVIOUS
<1>2. /\ "Run" # "Wait" /\ Process \subseteq Thread
  BY DEF SchedulerAssumption
<1> DEFINE pcs2 == [pcs EXCEPT ![t] = p]
           targets2 == [targets EXCEPT ![t] = x]
<1>3. \A u \in Process : st[u] = "Wait" => pcs2[u] = pcs[u] /\ targets2[u] = targets[u]
  BY <1>1, <1>2
<1>4. \A u \in Thread : pcs2[u] = "key_gap" => u \in Process
  BY <1>1 DEF Waits
<1> HIDE DEF pcs2, targets2
<1>5. Waits(es, st, pcs2, exits, targets, reader, present)
  BY <1>3, <1>4 DEF Waits
<1>6. Waits(es, st, pcs2, exits, targets2, reader, present)
  BY <1>3, <1>4 DEF Waits
<1>7. QED BY <1>5, <1>6 DEF pcs2, targets2

\* A thread that runs and begins to wait, as one of the two allows.
LEMMA RunnerWaits ==
  ASSUME SchedulerAssumption, TimeQueueAssumption,
         NEW es, NEW st \in [Thread -> {"Run", "Wait"}], NEW pcs, NEW targets,
         NEW exits \in [Thread -> Thread \cup {NULL}], NEW reader,
         NEW present \in SUBSET Thread,
         Waits(es, st, pcs, exits, targets, reader, present),
         NEW t \in Thread, st[t] = "Run"
  PROVE  /\ t \in Process /\ pcs[t] = "key" =>
              Waits(es, [st EXCEPT ![t] = "Wait"], pcs, exits, targets, t, present)
         /\ \A x \in Thread :
              (t \in Process => pcs[t] = "waited" /\ targets[t] = x) =>
                Waits(es, [st EXCEPT ![t] = "Wait"], pcs, [exits EXCEPT ![x] = t],
                      targets, reader, present)
<1> DEFINE st2 == [st EXCEPT ![t] = "Wait"]
<1>1. /\ st2[t] = "Wait" /\ Process \subseteq Thread
      /\ \A u \in Thread : st[u] = "Wait" => st2[u] = "Wait"
  BY DEF SchedulerAssumption
<1> HIDE DEF st2
<1>2. t \in Process /\ pcs[t] = "key" => Waits(es, st2, pcs, exits, targets, t, present)
  BY <1>1 DEF Waits
<1>3. ASSUME NEW x \in Thread, t \in Process => pcs[t] = "waited" /\ targets[t] = x
      PROVE  Waits(es, st2, pcs, [exits EXCEPT ![x] = t], targets, reader, present)
  <2>1. \A c \in present : [exits EXCEPT ![x] = t][c] = IF c = x THEN t ELSE exits[c]
    OBVIOUS
  <2>2. \A c \in present, u \in Process :
          [exits EXCEPT ![x] = t][c] = u =>
             st2[u] = "Wait" /\ pcs[u] = "waited" /\ targets[u] = c
    BY <1>1, <1>3, <2>1 DEF Waits
  <2>3. reader # NULL => reader \in Process /\ st2[reader] = "Wait" /\ pcs[reader] = "key"
    BY <1>1 DEF Waits
  <2>4. \A s \in Slot : es[s].valid => /\ es[s].tid \in Process
                                       /\ st2[es[s].tid] = "Wait"
                                       /\ pcs[es[s].tid] \in {"sleeping", "run"}
    BY <1>1 DEF Waits
  <2>5. /\ \A r, s \in Slot : es[r].valid /\ es[s].valid /\ es[r].tid = es[s].tid => r = s
        /\ \A u \in Thread : pcs[u] = "key_gap" => u \in Process
    BY DEF Waits
  <2> HIDE DEF st2
  <2>6. QED BY <2>2, <2>3, <2>4, <2>5 DEF Waits
<1>4. QED BY <1>2, <1>3 DEF st2

\* No sleeper is made to run by this step before its deadline.
WakesInTime ==
  \A s \in Slot : elements[s].valid /\ state'[elements[s].tid] = "Run" =>
    now >= elements[s].when

\* A yield wakes the sleeper at the head, whose deadline has passed.
LEMMA YieldWakesInTime ==
  ASSUME SchedulerTypeOK, LinksInv, TimeQueueAssumption, SchedulerAssumption,
         NEW st \in [Thread -> {"Run", "Wait"}], NEW list, NEW here, NEW tick,
         NEW pcs, NEW exits, NEW targets, NEW reader, NEW present,
         Waits(elements, st, pcs, exits, targets, reader, present),
         Yield(st, list, here, tick)
  PROVE  WakesInTime
<1> SUFFICES ASSUME NEW s \in Slot, elements[s].valid, state'[elements[s].tid] = "Run"
             PROVE  now >= elements[s].when
  BY DEF WakesInTime
<1>1. elements[s].tid \in Process /\ st[elements[s].tid] = "Wait"
  BY DEF Waits
<1>2. Due(now) /\ PopHead /\ elements[s].tid = DueThread
  BY <1>1, YieldEffects
<1>3. head \in Slot /\ elements[head].valid
  BY <1>2, PopFreesHead DEF Due, SchedulerTypeOK
<1>4. s = head
  BY <1>2, <1>3 DEF Waits, DueThread
<1>5. QED BY <1>2, <1>4 DEF Due

\* The end of a thread wakes the one that waits for it, and no sleeper.
LEMMA WakingKeepsWaits ==
  ASSUME TypeOK, Assumptions, NEW pcs, NEW present, NEW t \in present, t \in Thread,
         Waits(elements, state, pcs, wake_on_exit, target, waiting_for_keyboard, present)
  PROVE  Waits(elements, Woken(t), pcs, wake_on_exit, target, waiting_for_keyboard,
               present \ {t})
<1> DEFINE w == wake_on_exit[t]
<1>1. CASE w = NULL
  BY <1>1 DEF Woken, Waits
<1>2. CASE w # NULL
  <2>1. /\ w \in Thread
        /\ \A u \in Thread : Woken(t)[u] = IF u = w THEN "Run" ELSE state[u]
    BY <1>2 DEF Woken, TypeOK, SchedulerTypeOK
  <2>2. Process \subseteq Thread
    BY DEF Assumptions, SchedulerAssumption
  <2>3. w \in Process => pcs[w] = "waited" /\ target[w] = t
    BY DEF Waits
  <2> HIDE DEF w
  <2>4. QED BY <2>1, <2>2, <2>3 DEF Waits
<1>3. QED BY <1>1, <1>2

\* What a step that leaves the elements and the states alone does: nobody is woken.
LEMMA UnchangedWakesNobody ==
  ASSUME WaitInv, UNCHANGED state
  PROVE  WakesInTime
BY DEF WaitInv, Waits, WakesInTime

\* The waiting part of wait_for_process() and wait_for_thread().
LEMMA AwaitKeepsWaits ==
  ASSUME TypeOK, Assumptions, LinksInv, NEW t \in Thread, NEW x \in Thread,
         NEW found \in BOOLEAN, state[t] = "Run",
         NEW pcs, NEW present \in SUBSET Thread,
         Waits(elements, state, pcs, wake_on_exit, target, waiting_for_keyboard, present),
         t \in Process => pcs[t] = "waited" /\ target[t] = x,
         AwaitExit(t, x, found)
  PROVE  /\ Waits(elements', state', pcs, wake_on_exit', target, waiting_for_keyboard, present)
         /\ WakesInTime
<1>1. /\ SchedulerTypeOK /\ TimeQueueAssumption /\ SchedulerAssumption
      /\ state \in [Thread -> {"Run", "Wait"}]
      /\ wake_on_exit \in [Thread -> Thread \cup {NULL}]
  BY DEF TypeOK, SchedulerTypeOK, Assumptions
<1>2. CASE UNCHANGED <<state, wake_on_exit, queueVars>>
  BY <1>2 DEF queueVars, Waits, WakesInTime
<1>3. CASE /\ wake_on_exit' = [wake_on_exit EXCEPT ![x] = t]
           /\ YieldFrom([state EXCEPT ![t] = "Wait"], FALSE)
  <2> DEFINE st == [state EXCEPT ![t] = "Wait"]
  <2>1. st \in [Thread -> {"Run", "Wait"}]
    BY <1>1
  <2>2. Waits(elements, st, pcs, wake_on_exit', target, waiting_for_keyboard, present)
    BY <1>1, <1>3, RunnerWaits
  <2>3. Yield(st, order, Position(order, current), FALSE)
    BY <1>3 DEF YieldFrom
  <2> HIDE DEF st
  <2>4. QED BY <1>1, <2>1, <2>2, <2>3, YieldKeepsWaits, YieldWakesInTime
<1>4. QED BY <1>2, <1>3 DEF AwaitExit, Halt

\* remove_thread(): the thread that ends is present no longer; whoever waits for it runs.
LEMMA RemoveKeepsWaits ==
  ASSUME IInv, Assumptions, LinksInv, WaitInv, NEW t \in Thread, Running(t),
         state[t] = "Run", RemoveCurrentThread(t)
  PROVE  WaitInv' /\ WakesInTime
<1> DEFINE i == Position(order, t)
           present == Threads(order) \cup unused
           pcs == [pc EXCEPT ![t] = "gone"]
<1>1. /\ TypeOK /\ SchedulerTypeOK /\ TimeQueueAssumption /\ SchedulerAssumption
      /\ order \in Seq(Thread) /\ NoDuplicates(order) /\ t \in Threads(order)
      /\ t \notin unused
      /\ pc \in [Thread -> Points] /\ target \in [Thread -> Thread \cup {NULL}]
  BY DEF IInv, TypeOK, SchedulerTypeOK, ListInv, CurrentMayRun, Running, Assumptions
<1>2. /\ order' = Unlink(order, i) /\ unused' = unused
      /\ pc' = pcs
      /\ Yield(Woken(t), Unlink(order, i), i - 1, FALSE)
      /\ UNCHANGED <<waiting_for_keyboard, wake_on_exit, target>>
  BY DEF RemoveCurrentThread, keyVars
<1>3. Waits(elements, state, pcs, wake_on_exit, target, waiting_for_keyboard, present)
  BY <1>1, RunnerMoves DEF WaitInv
<1>4. Waits(elements, Woken(t), pcs, wake_on_exit, target, waiting_for_keyboard,
            present \ {t})
  BY <1>1, <1>3, WakingKeepsWaits
<1>5. i \in DOMAIN order /\ order[i] = t
  BY <1>1, PositionOfThread
<1> HIDE DEF i
<1>6. Threads(order') \cup unused' = present \ {t}
  BY <1>1, <1>2, <1>5, UnlinkThread
<1>7. Woken(t) \in [Thread -> {"Run", "Wait"}]
  BY <1>1 DEF Woken, SchedulerTypeOK
<1>8. /\ Waits(elements', state', pcs, wake_on_exit, target, waiting_for_keyboard,
               present \ {t})
      /\ WakesInTime
  BY <1>1, <1>2, <1>4, <1>7, YieldKeepsWaits, YieldWakesInTime
<1>9. QED BY <1>2, <1>6, <1>8 DEF WaitInv

\* Every step keeps what WaitInv says and wakes sleepers in time only.
LEMMA StepKeepsWaits ==
  ASSUME IInv, Assumptions, LinksInv, WaitInv, [Next]_vars
  PROVE  WaitInv' /\ WakesInTime
<1> DEFINE present == Threads(order) \cup unused
<1>1. /\ TypeOK /\ SchedulerTypeOK /\ QueueTypeOK /\ ListInv
      /\ TimeQueueAssumption /\ SchedulerAssumption
      /\ state \in [Thread -> {"Run", "Wait"}]
      /\ pc \in [Thread -> Points] /\ target \in [Thread -> Thread \cup {NULL}]
      /\ wake_on_exit \in [Thread -> Thread \cup {NULL}]
      /\ order \in Seq(Thread)
      /\ Process \subseteq Thread /\ KernelThread \subseteq Thread
      /\ present \in SUBSET Thread
  BY DEF IInv, TypeOK, SchedulerTypeOK, Assumptions, SchedulerAssumption,
         ThreadingAssumption, Threads
<1>2. /\ Waits(elements, state, pc, wake_on_exit, target, waiting_for_keyboard, present)
      /\ \A t \in Thread : Running(t) /\ pc[t] # "sleeping" => state[t] = "Run"
  BY DEF WaitInv, IInv, CurrentMayRun, Running
<1>3. ASSUME NEW pcs, NEW st \in [Thread -> {"Run", "Wait"}], NEW reader, NEW tick,
             Waits(elements, st, pcs, wake_on_exit, target, reader, present),
             YieldFrom(st, tick), pc' = pcs, waiting_for_keyboard' = reader,
             UNCHANGED <<wake_on_exit, target, order, unused>>
      PROVE  WaitInv' /\ WakesInTime
  <2>1. /\ Waits(elements', state', pcs, wake_on_exit, target, reader, present)
        /\ WakesInTime
    BY <1>1, <1>3, YieldKeepsWaits, YieldWakesInTime DEF YieldFrom
  <2>2. QED BY <1>3, <2>1 DEF WaitInv
<1>4. CASE UNCHANGED vars
  BY <1>2, <1>4 DEF vars, listVars, switchVars, keyVars, waitVars, queueVars, WaitInv, Waits,
         WakesInTime
<1>5. CASE Tick
  <2>1. YieldFrom(state, TRUE) /\ UNCHANGED <<pc, waiting_for_keyboard, wake_on_exit, target,
                                              order, unused>>
    BY <1>5 DEF Tick, TimerInterrupt, listVars, keyVars, waitVars
  <2>2. QED BY <1>1, <1>2, <1>3, <2>1
<1>6. CASE KeyboardEvent
  <2> DEFINE w == waiting_for_keyboard
  <2>1. /\ UNCHANGED <<elements, pc, wake_on_exit, target, order, unused>>
        /\ waiting_for_keyboard' = NULL
        /\ state' = IF w = NULL THEN state ELSE [state EXCEPT ![w] = "Run"]
    BY <1>6 DEF KeyboardEvent, WakeKeyReader, listVars, waitVars, queueVars
  <2>2. w # NULL => w \in Process /\ pc[w] = "key"
    BY <1>2 DEF Waits
  <2>3. \A u \in Thread : u # w => state'[u] = state[u]
    BY <1>1, <2>1
  <2> HIDE DEF w
  <2>4. \A u \in Process : pc[u] # "key" => state'[u] = state[u]
    BY <1>1, <2>1, <2>2, <2>3
  <2>5. Waits(elements, state', pc, wake_on_exit, target, NULL, present)
    BY <1>2, <2>4 DEF Waits
  <2>6. WakesInTime
    BY <1>2, <2>4 DEF Waits, WakesInTime
  <2>7. QED BY <2>1, <2>5, <2>6 DEF WaitInv
<1>7. CASE Elapse
  BY <1>2, <1>7, UnchangedWakesNobody DEF Elapse, listVars, switchVars, keyVars, waitVars,
         queueVars, WaitInv
<1>8. ASSUME NEW t \in Thread, Running(t), pc[t] # "sleeping", NEW p,
             p = "key_gap" => t \in Process, pc' = [pc EXCEPT ![t] = p],
             UNCHANGED <<elements, state, wake_on_exit, waiting_for_keyboard>>,
             NEW x, target' = target \/ target' = [target EXCEPT ![t] = x],
             Threads(order') \cup unused' = present
      PROVE  WaitInv' /\ WakesInTime
  <2>1. Waits(elements, state, pc', wake_on_exit, target', waiting_for_keyboard, present)
    <3>1. state[t] = "Run"
      BY <1>2, <1>8
    <3> DEFINE pcs == [pc EXCEPT ![t] = p]
               targets == [target EXCEPT ![t] = x]
    <3>2. /\ Waits(elements, state, pcs, wake_on_exit, target, waiting_for_keyboard, present)
          /\ Waits(elements, state, pcs, wake_on_exit, targets, waiting_for_keyboard, present)
      BY <1>1, <1>2, <1>8, <3>1, RunnerMoves
    <3>3. pc' = pcs /\ (target' = target \/ target' = targets)
      BY <1>8
    <3> HIDE DEF pcs, targets
    <3>4. CASE target' = target
      BY <3>2, <3>3, <3>4
    <3>5. CASE target' = targets
      BY <3>2, <3>3, <3>5
    <3>6. QED BY <3>3, <3>4, <3>5
  <2>2. QED BY <1>8, <2>1, UnchangedWakesNobody DEF WaitInv
<1>9. ASSUME NEW t \in Thread, GetKey(t) PROVE WaitInv' /\ WakesInTime
  <2>1. /\ Running(t) /\ pc[t] # "sleeping" /\ t \in Process
        /\ UNCHANGED <<elements, state, wake_on_exit, waiting_for_keyboard, target, order,
                       unused>>
    BY <1>9 DEF GetKey, listVars, waitVars, queueVars, Assumptions, ThreadingAssumption
  <2>2. PICK p : pc' = [pc EXCEPT ![t] = p]
    BY <1>9 DEF GetKey
  <2>3. QED BY <1>8, <2>1, <2>2
<1>10. ASSUME NEW t \in Thread, KernelStep(t) PROVE WaitInv' /\ WakesInTime
  <2>1. CASE WaitForProcess(t)
    <3> DEFINE found == target[t] \in Threads(order)
               pcs == [pc EXCEPT ![t] = "waited"]
    <3>1. /\ Running(t) /\ pc[t] = "started" /\ pc' = pcs
          /\ UNCHANGED <<waiting_for_keyboard, target, order, unused>>
          /\ AwaitExit(t, target[t], found) /\ found \in BOOLEAN
      BY <2>1 DEF WaitForProcess, listVars, keyVars
    <3>2. target[t] \in Thread /\ state[t] = "Run" /\ pcs[t] = "waited"
      BY <1>1, <1>2, <3>1 DEF ListInv
    <3>3. Waits(elements, state, pcs, wake_on_exit, target, waiting_for_keyboard, present)
      BY <1>1, <1>2, <3>2, RunnerMoves
    <3> HIDE DEF found, pcs
    <3>4. /\ Waits(elements', state', pcs, wake_on_exit', target, waiting_for_keyboard, present)
          /\ WakesInTime
      BY <1>1, <3>1, <3>2, <3>3, AwaitKeepsWaits
    <3>5. QED BY <3>1, <3>4 DEF WaitInv
  <2>2. CASE ExecReturns(t)
    <3>1. /\ Running(t) /\ pc[t] # "sleeping" /\ pc' = [pc EXCEPT ![t] = "run"]
          /\ UNCHANGED <<elements, state, wake_on_exit, waiting_for_keyboard, target, order,
                         unused>>
      BY <2>2 DEF ExecReturns, Halt, listVars, keyVars, waitVars, queueVars
    <3>2. QED BY <1>8, <3>1
  <2>3. CASE EnterThread(t)
    <3>1. /\ Running(t) /\ pc[t] # "sleeping" /\ pc' = [pc EXCEPT ![t] = "run"]
          /\ UNCHANGED <<elements, state, wake_on_exit, waiting_for_keyboard, target, order,
                         unused>>
      BY <2>3 DEF EnterThread, switchVars, keyVars, waitVars, queueVars
    <3>2. QED BY <1>8, <3>1
  <2>4. CASE GetKey(t)
    BY <1>9, <2>4
  <2>5. CASE WaitForKeyboard(t)
    <3> DEFINE pcs == [pc EXCEPT ![t] = "key"]
               st == [state EXCEPT ![t] = "Wait"]
    <3>1. /\ Running(t) /\ pc[t] = "key_gap" /\ pc' = pcs /\ waiting_for_keyboard' = t
          /\ UNCHANGED <<wake_on_exit, target, order, unused>>
          /\ YieldFrom(st, FALSE)
      BY <2>5 DEF WaitForKeyboard, listVars, waitVars
    <3>2. t \in Process /\ state[t] = "Run" /\ pcs[t] = "key"
          /\ st \in [Thread -> {"Run", "Wait"}]
      BY <1>1, <1>2, <3>1 DEF Waits
    <3>3. Waits(elements, state, pcs, wake_on_exit, target, waiting_for_keyboard, present)
      BY <1>1, <1>2, <3>2, RunnerMoves
    <3>4. Waits(elements, st, pcs, wake_on_exit, target, t, present)
      BY <1>1, <3>2, <3>3, RunnerWaits
    <3> HIDE DEF st, pcs
    <3>5. QED BY <1>3, <3>1, <3>2, <3>4
  <2>6. CASE SleepYield(t)
    <3> DEFINE pcs == [pc EXCEPT ![t] = "run"]
    <3>1. /\ pc[t] = "sleeping" /\ pc' = pcs
          /\ UNCHANGED <<waiting_for_keyboard, wake_on_exit, target, order, unused>>
          /\ YieldFrom(state, FALSE)
      BY <2>6 DEF SleepYield, listVars, keyVars, waitVars
    <3>2. \A u \in Thread : pcs[u] = IF u = t THEN "run" ELSE pc[u]
      BY <1>1
    <3> HIDE DEF pcs
    <3>3. Waits(elements, state, pcs, wake_on_exit, target, waiting_for_keyboard, present)
      BY <1>1, <1>2, <3>1, <3>2 DEF Waits
    <3>4. QED BY <1>1, <1>3, <3>1, <3>3
  <2>7. QED BY <1>10, <2>1, <2>2, <2>3, <2>4, <2>5, <2>6 DEF KernelStep
<1>11. ASSUME NEW t \in Thread, ProgramStep(t) PROVE WaitInv' /\ WakesInTime
  <2>1. CASE SyscallYield(t)
    <3>1. YieldFrom(state, FALSE) /\ UNCHANGED <<pc, waiting_for_keyboard, wake_on_exit, target,
                                                 order, unused>>
      BY <2>1 DEF SyscallYield, listVars, keyVars, waitVars
    <3>2. QED BY <1>1, <1>2, <1>3, <3>1
  <2>2. ASSUME NEW p \in Process, StartProcess(t, p) PROVE WaitInv' /\ WakesInTime
    <3>1. /\ Running(t) /\ pc[t] # "sleeping" /\ p \in unused
          /\ order' = Append(order, p) /\ unused' = unused \ {p}
          /\ pc' = [pc EXCEPT ![t] = "started"]
          /\ target' = [target EXCEPT ![t] = p]
          /\ UNCHANGED <<elements, state, wake_on_exit, waiting_for_keyboard>>
      BY <2>2 DEF StartProcess, keyVars, queueVars
    <3>2. Threads(order') \cup unused' = present
      <4>1. Threads(order') = Threads(order) \cup {p}
        BY <1>1, <3>1, AppendThread DEF ListInv
      <4>2. QED BY <3>1, <4>1
    <3>3. QED BY <1>8, <3>1, <3>2
  <2>3. CASE ExitProcess(t) \/ EndKernelThread(t)
    <3>1. Running(t) /\ state[t] = "Run" /\ RemoveCurrentThread(t)
      BY <1>2, <2>3 DEF ExitProcess, EndKernelThread
    <3>2. QED BY <3>1, RemoveKeepsWaits
  <2>4. ASSUME NEW k \in KernelThread, InsertThread(t, k) PROVE WaitInv' /\ WakesInTime
    <3>1. /\ Running(t) /\ pc[t] # "sleeping" /\ k \in unused
          /\ order' = Append(order, k) /\ unused' = unused \ {k}
          /\ pc' = [pc EXCEPT ![t] = "inserted"]
          /\ target' = [target EXCEPT ![t] = k]
          /\ UNCHANGED <<elements, state, wake_on_exit, waiting_for_keyboard>>
      BY <2>4 DEF InsertThread, switchVars, keyVars, queueVars
    <3>2. Threads(order') \cup unused' = present
      <4>1. Threads(order') = Threads(order) \cup {k}
        BY <1>1, <3>1, AppendThread DEF ListInv
      <4>2. QED BY <3>1, <4>1
    <3>3. QED BY <1>8, <3>1, <3>2
  <2>5. ASSUME NEW k \in KernelThread, WaitForThread(t, k) PROVE WaitInv' /\ WakesInTime
    <3> DEFINE found == k \in thread_list
    <3>1. /\ Running(t) /\ pc[t] = "run" /\ t \notin Process
          /\ UNCHANGED <<pc, waiting_for_keyboard, target, order, unused>>
          /\ AwaitExit(t, k, found) /\ found \in BOOLEAN
      BY <2>5 DEF WaitForThread, listVars, keyVars, Assumptions, ThreadingAssumption
    <3>2. state[t] = "Run" /\ k \in Thread
      BY <1>1, <1>2, <3>1
    <3> HIDE DEF found
    <3>3. /\ Waits(elements', state', pc, wake_on_exit', target, waiting_for_keyboard, present)
          /\ WakesInTime
      BY <1>1, <1>2, <3>1, <3>2, AwaitKeepsWaits
    <3>4. QED BY <3>1, <3>3 DEF WaitInv
  <2>6. CASE GetKey(t)
    BY <1>9, <2>6
  <2>7. ASSUME NEW d \in Durations, Sleep(t, d) PROVE WaitInv' /\ WakesInTime
    <3>1. /\ Running(t) /\ t \in Process /\ pc[t] = "run"
          /\ UNCHANGED <<waiting_for_keyboard, wake_on_exit, target, order, unused>>
      BY <2>7 DEF Sleep, listVars, keyVars, waitVars, Assumptions, ThreadingAssumption
    <3>2. CASE Full
      <4>1. UNCHANGED <<elements, state, pc>>
        BY <2>7, <3>2 DEF Sleep, Halt, queueVars
      <4>2. QED BY <1>2, <3>1, <4>1, UnchangedWakesNobody DEF WaitInv
    <3>3. CASE ~Full
      <4>1. /\ Insert(t, now + d) /\ now + d \in Nat
            /\ state' = [state EXCEPT ![t] = "Wait"]
            /\ pc' = [pc EXCEPT ![t] = "sleeping"]
        <5>1. now \in Nat
          BY <1>1 DEF TypeOK
        <5>2. d \in Nat
          BY <1>1 DEF Assumptions, ThreadingAssumption
        <5>3. now + d \in Nat
          BY <5>1, <5>2
        <5>4. QED BY <2>7, <3>3, <5>3 DEF Sleep
      <4>2. PICK s \in Slot :
              /\ ~elements[s].valid
              /\ elements'[s].valid /\ elements'[s].tid = t
              /\ \A r \in Slot \ {s} : /\ elements'[r].valid = elements[r].valid
                                       /\ elements'[r].tid = elements[r].tid
        BY <1>1, <3>1, <4>1, InsertFillsOne
      <4>3. state[t] = "Run"
        BY <1>2, <3>1
      <4>4. /\ \A u \in Thread : /\ state'[u] = IF u = t THEN "Wait" ELSE state[u]
                                 /\ pc'[u] = IF u = t THEN "sleeping" ELSE pc[u]
        BY <1>1, <4>1
      <4>5. \A r \in Slot : elements[r].valid => elements[r].tid # t
        BY <1>2, <4>3 DEF Waits
      <4>6. \A u \in Process : state[u] = "Wait" => state'[u] = "Wait" /\ pc'[u] = pc[u]
        BY <1>1, <4>3, <4>4
      <4>7. Waits(elements', state', pc', wake_on_exit, target, waiting_for_keyboard, present)
        <5>1. waiting_for_keyboard # NULL =>
                /\ waiting_for_keyboard \in Process
                /\ state'[waiting_for_keyboard] = "Wait" /\ pc'[waiting_for_keyboard] = "key"
          BY <1>2, <4>6 DEF Waits
        <5>2. \A c \in present, u \in Process :
                wake_on_exit[c] = u => state'[u] = "Wait" /\ pc'[u] = "waited" /\ target[u] = c
          BY <1>2, <4>6 DEF Waits
        <5>3. \A r \in Slot : elements'[r].valid =>
                /\ elements'[r].tid \in Process
                /\ state'[elements'[r].tid] = "Wait"
                /\ pc'[elements'[r].tid] \in {"sleeping", "run"}
          BY <1>1, <1>2, <3>1, <4>2, <4>4, <4>6 DEF Waits
        <5>4. \A q, r \in Slot : elements'[q].valid /\ elements'[r].valid
                                   /\ elements'[q].tid = elements'[r].tid => q = r
          BY <1>2, <4>2, <4>5 DEF Waits
        <5>5. \A u \in Thread : pc'[u] = "key_gap" => u \in Process
          BY <1>2, <4>4 DEF Waits
        <5>6. QED BY <5>1, <5>2, <5>3, <5>4, <5>5 DEF Waits
      <4>8. WakesInTime
        BY <1>1, <1>2, <4>6 DEF Waits, WakesInTime
      <4>9. QED BY <3>1, <4>7, <4>8 DEF WaitInv
    <3>4. QED BY <3>2, <3>3
  <2>8. QED BY <1>11, <2>1, <2>2, <2>3, <2>4, <2>5, <2>6, <2>7 DEF ProgramStep
<1>12. QED BY <1>4, <1>5, <1>6, <1>7, <1>10, <1>11 DEF Next, Stopped

\* Nobody sleeps less than was asked for: neither a key, nor the end of a process, nor the
\* deadline of another wakes a thread between its insertion into the time queue and its own
\* deadline, in whatever order interrupts and system calls come (next(), check(),
\* keyboard_event_occurred(), finish()).
THEOREM NobodyWakesEarly == Spec => SleepsUntilDeadline
<1>1. Assumptions
  BY TimeQueueAssumption, SchedulerAssumption, ThreadingAssumption DEF Assumptions
<1> DEFINE All == IInv /\ LinksInv /\ WaitInv
<1>2. Init => All
  <2>1. Init => LinksInv
    BY <1>1 DEF Init, QueueInit, LinksInv
  <2>2. Init => WaitInv
    <3> SUFFICES ASSUME Init PROVE WaitInv
      OBVIOUS
    <3>1. /\ waiting_for_keyboard = NULL
          /\ \A s \in Slot : ~elements[s].valid
          /\ \A t \in Thread : wake_on_exit[t] = NULL /\ pc[t] = "run"
      BY DEF Init, QueueInit
    <3>2. Threads(order) \cup unused \subseteq Thread /\ NULL \notin Process
      BY <1>1, InitInvariant DEF IInv, TypeOK, SchedulerTypeOK, Threads, Assumptions,
             TimeQueueAssumption, SchedulerAssumption, ThreadingAssumption
    <3>3. QED BY <3>1, <3>2 DEF WaitInv, Waits
  <2>3. QED BY <1>1, <2>1, <2>2, InitInvariant
<1>3. All /\ [Next]_vars => All'
  BY <1>1, StepKeepsInvariant, StepKeepsLinks, StepKeepsWaits
<1>4. All /\ [Next]_vars =>
        [\A t \in Thread, s \in Slot :
           (/\ elements[s].valid /\ elements[s].tid = t
            /\ state[t] = "Wait" /\ state'[t] = "Run") => now >= elements[s].when]_vars
  <2>1. All /\ [Next]_vars => WakesInTime
    BY <1>1, StepKeepsWaits
  <2>2. QED BY <2>1 DEF WakesInTime
<1>5. QED BY <1>2, <1>3, <1>4, PTL DEF Spec, SleepsUntilDeadline

-----------------------------------------------------------------------------
(* Processes that exec each other, read keys, yield and exit: no kernel thread, no sleeper *)

OnlyExec == KernelThread = {} /\ Sleepers = {}

Awaiting == {"started", "waited"}

\* t has started a process that has not ended.
Busy(t, list, pcs, targets) == pcs[t] \in Awaiting /\ targets[t] \in list

\* The threads of the list without idle are one line of parents: a process is the
\* child of one thread, which has started it and awaits its end; what has been awaited
\* and is in the list no more has left its exit info; and one thread has no child.
HaveParents(list, pcs, targets) ==
  \A p \in Process : p \in list => \E c \in list \ {Idle} : pcs[c] \in Awaiting /\ targets[c] = p

HaveOneParent(list, pcs, targets) ==
  \A c, d \in list \ {Idle} :
    pcs[c] \in Awaiting /\ pcs[d] \in Awaiting /\ targets[c] = targets[d] => c = d

LeaveExitInfo(list, new, pcs, targets, infos) ==
  \A c \in list \ {Idle} : pcs[c] \in Awaiting =>
    targets[c] \in Process \ new /\ (targets[c] \in list \/ targets[c] \in infos)

OneIsFree(list, pcs, targets) ==
  \A c, d \in list \ {Idle} :
    ~Busy(c, list, pcs, targets) /\ ~Busy(d, list, pcs, targets) => c = d

\* Where a thread is in the kernel says whether it waits, and for what: the keyboard or
\* the end of its child.
StatesFit(list, st, pcs, targets, exits, reader) ==
  \A c \in list \ {Idle} :
    /\ pcs[c] \in {"run", "key_gap", "started", "waited", "key"}
    /\ st[c] = "Run" \/ (pcs[c] = "key" /\ reader = c)
                     \/ (pcs[c] = "waited" /\ Busy(c, list, pcs, targets))
    /\ pcs[c] = "waited" /\ Busy(c, list, pcs, targets) =>
         st[c] = "Wait" /\ exits[targets[c]] = c

\* ... and nothing is to wake a thread that does not wait for it.
WakersFit(list, new, st, pcs, targets, exits, reader) ==
  /\ \A x \in list \cup new : exits[x] # NULL =>
       exits[x] \in list \ {Idle} /\ pcs[exits[x]] = "waited" /\ targets[exits[x]] = x
  /\ reader # NULL => reader \in list \ {Idle} /\ pcs[reader] = "key" /\ st[reader] = "Wait"

\* Idle, and what has not been created yet, is not in the kernel.
OthersRest(new, pcs) == pcs[Idle] = "run" /\ \A p \in new : pcs[p] = "run"

Family(list, new, st, pcs, targets, exits, reader, infos) ==
  /\ HaveParents(list, pcs, targets)
  /\ HaveOneParent(list, pcs, targets)
  /\ LeaveExitInfo(list, new, pcs, targets, infos)
  /\ OneIsFree(list, pcs, targets)
  /\ StatesFit(list, st, pcs, targets, exits, reader)
  /\ WakersFit(list, new, st, pcs, targets, exits, reader)
  /\ OthersRest(new, pcs)

ExecInv ==
  /\ head = NULL
  /\ halted \in {"no", "shutdown"}
  /\ \A t \in Thread : context[t] = "in_use" => t = current
  /\ halted = "no" =>
       Family(Threads(order), unused, state, pc, target, wake_on_exit,
              waiting_for_keyboard, exit_info)

\* A yield while nobody sleeps: the walk finds a thread other than the current one, or
\* the current one is in the list; only idle changes its state.
LEMMA QuietYield ==
  ASSUME SchedulerTypeOK, SchedulerAssumption, head = NULL,
         \A t \in Thread : context[t] = "in_use" => t = current,
         NEW st \in [Thread -> {"Run", "Wait"}], NEW list \in Seq(Thread), NEW here, NEW tick,
         current = Idle => st[Idle] = "Run",
         \/ current \in Threads(list)
         \/ \E c \in Threads(list) : c # current /\ st[c] = "Run",
         Yield(st, list, here, tick)
  PROVE  /\ head' = NULL
         /\ halted' = halted
         /\ \A t \in Thread : context'[t] = "in_use" => t = current'
         /\ \A t \in Thread \ {Idle} : state'[t] = st[t]
<1>1. UNCHANGED queueVars /\ Walk(st, list, here, tick)
  BY DEF Yield, Due
<1>2. /\ context \in [Thread -> {"unset", "saved", "in_use"}] /\ current \in Thread
      /\ Threads(list) \subseteq Thread /\ Idle \in Thread
  BY DEF SchedulerTypeOK, SchedulerAssumption, Threads
<1>3. ASSUME NEW t \in Thread, t # current, SwitchTo(t, tick)
      PROVE  halted' = halted /\ \A u \in Thread : context'[u] = "in_use" => u = current'
  BY <1>2, <1>3 DEF SwitchTo
<1>4. CASE TakeTurn(st, list, here, tick)
  <2>1. PICK pos \in DOMAIN list :
          /\ FirstReady(list, here, Others(st), pos)
          /\ state' = IF list[pos] # Idle /\ st[Idle] = "Run"
                      THEN [st EXCEPT ![Idle] = "Wait"]
                      ELSE st
          /\ SwitchTo(list[pos], tick)
    BY <1>4 DEF TakeTurn
  <2>2. list[pos] \in Thread /\ list[pos] # current
    BY <2>1 DEF FirstReady, Others
  <2>3. \A t \in Thread \ {Idle} : state'[t] = st[t]
    BY <2>1
  <2>4. QED BY <1>1, <1>3, <2>1, <2>2, <2>3 DEF queueVars
<1>5. CASE current \in Threads(list) /\ GoOn(st, tick)
  BY <1>1, <1>5 DEF GoOn, queueVars
<1>6. CASE GoIdle(st, tick)
  <2>1. Idle # current /\ state' = [st EXCEPT ![Idle] = "Run"] /\ SwitchTo(Idle, tick)
    BY <1>6 DEF GoIdle
  <2>2. QED BY <1>1, <1>2, <1>3, <2>1 DEF queueVars
<1>7. CASE NoneReady(list, Others(st)) /\ current \notin Threads(list)
  <2>1. PICK c \in Threads(list) : c # current /\ st[c] = "Run"
    BY <1>7
  <2>2. c \in Others(st)
    BY <1>2, <2>1 DEF Others
  <2>3. QED BY <1>7, <2>1, <2>2 DEF NoneReady
<1>8. QED BY <1>1, <1>4, <1>5, <1>6, <1>7 DEF Walk

\* What a family says of a thread that is not idle does not depend on idle's state.
LEMMA FamilyOfStates ==
  ASSUME NEW list \in SUBSET Thread, NEW new, NEW st, NEW st2, NEW pcs, NEW targets, NEW exits,
         NEW reader, NEW infos,
         Family(list, new, st, pcs, targets, exits, reader, infos),
         \A t \in Thread \ {Idle} : st2[t] = st[t]
  PROVE  Family(list, new, st2, pcs, targets, exits, reader, infos)
BY DEF Family, StatesFit, WakersFit

\* A thread that runs and has no child goes on in the kernel without starting one.
LEMMA FamilyMoves ==
  ASSUME SchedulerAssumption,
         NEW list \in SUBSET Thread, NEW new \in SUBSET Thread, NEW st, NEW pcs \in [Thread -> Points],
         NEW targets, NEW exits, NEW reader, NEW infos,
         Family(list, new, st, pcs, targets, exits, reader, infos),
         NEW t \in list \ {Idle}, st[t] = "Run", ~Busy(t, list, pcs, targets),
         t \notin new, NEW p \in {"run", "key_gap"}
  PROVE  Family(list, new, st, [pcs EXCEPT ![t] = p], targets, exits, reader, infos)
<1> DEFINE pcs2 == [pcs EXCEPT ![t] = p]
<1>1. pcs2[t] = p /\ (\A u \in Thread : u # t => pcs2[u] = pcs[u]) /\ t \in Thread
  OBVIOUS
<1>2. p \notin Awaiting /\ p # "waited" /\ p # "key"
  BY DEF Awaiting
<1> HIDE DEF pcs2
<1>3. \A c \in list : Busy(c, list, pcs2, targets) <=> Busy(c, list, pcs, targets)
  BY <1>1, <1>2 DEF Busy
<1>4. HaveParents(list, pcs2, targets)
  BY <1>1 DEF Family, HaveParents, Busy
<1>5. HaveOneParent(list, pcs2, targets)
  BY <1>1, <1>2 DEF Family, HaveOneParent
<1>6. LeaveExitInfo(list, new, pcs2, targets, infos)
  BY <1>1, <1>2 DEF Family, LeaveExitInfo
<1>7. OneIsFree(list, pcs2, targets)
  BY <1>3 DEF Family, OneIsFree
<1>8. StatesFit(list, st, pcs2, targets, exits, reader)
  BY <1>1, <1>2, <1>3 DEF Family, StatesFit
<1>9. WakersFit(list, new, st, pcs2, targets, exits, reader)
  <2>1. ASSUME NEW x \in list \cup new, exits[x] # NULL, exits[x] = t PROVE FALSE
    <3>1. pcs[t] = "waited" /\ targets[t] = x /\ pcs[t] \in Awaiting
      BY <2>1 DEF Family, WakersFit, Awaiting
    <3>2. x \notin new
      BY <3>1 DEF Family, LeaveExitInfo
    <3>3. QED BY <3>1, <3>2 DEF Busy
  <2>2. QED BY <1>1, <2>1 DEF Family, WakersFit
<1>10. OthersRest(new, pcs2)
  <2>1. Idle # t /\ Idle \in Thread /\ \A q \in new : q # t /\ q \in Thread
    BY DEF SchedulerAssumption
  <2>2. QED BY <1>1, <2>1 DEF Family, OthersRest
<1>11. QED
  BY <1>4, <1>5, <1>6, <1>7, <1>8, <1>9, <1>10 DEF Family, pcs2

\* get_key() found nothing: the thread that has the CPU waits, and is the only reader.
LEMMA FamilyReads ==
  ASSUME SchedulerAssumption,
         NEW list \in SUBSET Thread, NEW new \in SUBSET Thread,
         NEW st \in [Thread -> {"Run", "Wait"}], NEW pcs \in [Thread -> Points],
         NEW targets, NEW exits, NEW reader, NEW infos,
         Family(list, new, st, pcs, targets, exits, reader, infos),
         NEW t \in list \ {Idle}, pcs[t] = "key_gap"
  PROVE  Family(list, new, [st EXCEPT ![t] = "Wait"], [pcs EXCEPT ![t] = "key"],
                targets, exits, t, infos)
<1> DEFINE pcs2 == [pcs EXCEPT ![t] = "key"]
           st2 == [st EXCEPT ![t] = "Wait"]
<1>1. /\ pcs2[t] = "key" /\ st2[t] = "Wait" /\ t \in Thread
      /\ \A u \in Thread : u # t => pcs2[u] = pcs[u] /\ st2[u] = st[u]
  OBVIOUS
<1>2. pcs[t] \notin Awaiting /\ "key" \notin Awaiting
  BY DEF Awaiting
<1> HIDE DEF pcs2, st2
<1>3. \A c \in list : Busy(c, list, pcs2, targets) <=> Busy(c, list, pcs, targets)
  BY <1>1, <1>2 DEF Busy
<1>4. HaveParents(list, pcs2, targets)
  BY <1>1, <1>2 DEF Family, HaveParents
<1>5. HaveOneParent(list, pcs2, targets)
  BY <1>1, <1>2 DEF Family, HaveOneParent
<1>6. LeaveExitInfo(list, new, pcs2, targets, infos)
  BY <1>1, <1>2 DEF Family, LeaveExitInfo
<1>7. OneIsFree(list, pcs2, targets)
  BY <1>3 DEF Family, OneIsFree
<1>8. StatesFit(list, st2, pcs2, targets, exits, t)
  <2>1. ASSUME NEW c \in list \ {Idle}, c # t PROVE pcs[c] # "key"
    BY <1>2, <2>1 DEF Family, OneIsFree, Busy, Awaiting
  <2>2. QED BY <1>1, <1>3, <2>1 DEF Family, StatesFit
<1>9. WakersFit(list, new, st2, pcs2, targets, exits, t)
  BY <1>1 DEF Family, WakersFit
<1>10. OthersRest(new, pcs2)
  <2>1. Idle # t /\ Idle \in Thread /\ \A q \in new : q # t /\ q \in Thread
    BY DEF SchedulerAssumption, Family, OthersRest
  <2>2. QED BY <1>1, <2>1 DEF Family, OthersRest
<1>11. QED
  BY <1>4, <1>5, <1>6, <1>7, <1>8, <1>9, <1>10 DEF Family, pcs2, st2

\* wait_for_process() finds the child in the list: nobody waits for it yet, and its
\* parent does now.
LEMMA FamilyAwaits ==
  ASSUME SchedulerAssumption,
         NEW list \in SUBSET Thread, NEW new \in SUBSET Thread,
         NEW st \in [Thread -> {"Run", "Wait"}], NEW pcs \in [Thread -> Points],
         NEW targets, NEW exits \in [Thread -> Thread \cup {NULL}], NEW reader, NEW infos,
         Family(list, new, st, pcs, targets, exits, reader, infos),
         NEW t \in list \ {Idle}, pcs[t] = "started", targets[t] \in list
  PROVE  /\ exits[targets[t]] = NULL
         /\ Family(list, new, [st EXCEPT ![t] = "Wait"], [pcs EXCEPT ![t] = "waited"],
                   targets, [exits EXCEPT ![targets[t]] = t], reader, infos)
<1> DEFINE x == targets[t]
           pcs2 == [pcs EXCEPT ![t] = "waited"]
           st2 == [st EXCEPT ![t] = "Wait"]
           exits2 == [exits EXCEPT ![x] = t]
<1>1. /\ pcs2[t] = "waited" /\ st2[t] = "Wait" /\ t \in Thread
      /\ \A u \in Thread : u # t => pcs2[u] = pcs[u] /\ st2[u] = st[u]
  OBVIOUS
<1>2. exits2[x] = t /\ \A u \in Thread : u # x => exits2[u] = exits[u]
  OBVIOUS
<1>3. pcs[t] \in Awaiting /\ "waited" \in Awaiting /\ x \in list /\ pcs[t] # "waited"
      /\ targets[t] = x
  BY DEF Awaiting
<1> HIDE DEF pcs2, st2, exits2, x
<1>4. exits[x] = NULL
  <2> SUFFICES ASSUME exits[x] # NULL PROVE FALSE
    OBVIOUS
  <2>1. /\ exits[x] \in list \ {Idle} /\ pcs[exits[x]] = "waited" /\ targets[exits[x]] = x
    BY <1>3 DEF Family, WakersFit
  <2>2. exits[x] = t
    BY <1>3, <2>1 DEF Family, HaveOneParent, Awaiting
  <2>3. QED BY <1>3, <2>1, <2>2
<1>5. \A c \in list : Busy(c, list, pcs2, targets) <=> Busy(c, list, pcs, targets)
  BY <1>1, <1>3 DEF Busy
<1>6. HaveParents(list, pcs2, targets)
  BY <1>1, <1>3 DEF Family, HaveParents
<1>7. HaveOneParent(list, pcs2, targets)
  BY <1>1, <1>3 DEF Family, HaveOneParent
<1>8. LeaveExitInfo(list, new, pcs2, targets, infos)
  BY <1>1, <1>3 DEF Family, LeaveExitInfo
<1>9. OneIsFree(list, pcs2, targets)
  BY <1>5 DEF Family, OneIsFree
<1>10. StatesFit(list, st2, pcs2, targets, exits2, reader)
  <2>1. Busy(t, list, pcs2, targets)
    BY <1>1, <1>3 DEF Busy
  <2>2. ASSUME NEW c \in list \ {Idle}, c # t
        PROVE  /\ pcs2[c] = pcs[c] /\ st2[c] = st[c]
               /\ Busy(c, list, pcs, targets) => exits2[targets[c]] = exits[targets[c]]
    <3>1. Busy(c, list, pcs, targets) => targets[c] \in Thread /\ targets[c] # x
      BY <1>3, <2>2 DEF Family, HaveOneParent, Busy
    <3>2. QED BY <1>1, <1>2, <2>2, <3>1
  <2>3. QED BY <1>1, <1>2, <1>3, <1>5, <2>1, <2>2 DEF Family, StatesFit
<1>11. WakersFit(list, new, st2, pcs2, targets, exits2, reader)
  <2>1. ASSUME NEW y \in list \cup new, exits2[y] # NULL
        PROVE  exits2[y] \in list \ {Idle} /\ pcs2[exits2[y]] = "waited" /\ targets[exits2[y]] = y
    <3>1. CASE y = x
      BY <1>1, <1>2, <1>3, <3>1
    <3>2. CASE y # x
      <4>1. exits2[y] = exits[y]
        BY <1>2, <3>2
      <4>2. QED BY <1>1, <1>3, <2>1, <4>1 DEF Family, WakersFit
    <3>3. QED BY <3>1, <3>2
  <2>2. reader # NULL => reader \in list \ {Idle} /\ pcs2[reader] = "key" /\ st2[reader] = "Wait"
    BY <1>1 DEF Family, WakersFit
  <2>3. QED BY <2>1, <2>2 DEF WakersFit
<1>12. OthersRest(new, pcs2)
  <2>1. Idle # t /\ Idle \in Thread /\ \A q \in new : q # t /\ q \in Thread
    BY DEF SchedulerAssumption, Family, OthersRest
  <2>2. QED BY <1>1, <2>1 DEF Family, OthersRest
<1>13. QED
  BY <1>4, <1>6, <1>7, <1>8, <1>9, <1>10, <1>11, <1>12 DEF Family, pcs2, st2, exits2, x

\* wait_for_process() comes too late: the child has ended.
LEMMA FamilyMissed ==
  ASSUME SchedulerAssumption,
         NEW list \in SUBSET Thread, NEW new \in SUBSET Thread, NEW st,
         NEW pcs \in [Thread -> Points], NEW targets, NEW exits, NEW reader, NEW infos,
         Family(list, new, st, pcs, targets, exits, reader, infos),
         NEW t \in list \ {Idle}, pcs[t] = "started", targets[t] \notin list
  PROVE  Family(list, new, st, [pcs EXCEPT ![t] = "waited"], targets, exits, reader, infos)
<1> DEFINE pcs2 == [pcs EXCEPT ![t] = "waited"]
<1>1. /\ pcs2[t] = "waited" /\ t \in Thread
      /\ \A u \in Thread : u # t => pcs2[u] = pcs[u]
  OBVIOUS
<1>2. pcs[t] \in Awaiting /\ "waited" \in Awaiting
  BY DEF Awaiting
<1> HIDE DEF pcs2
<1>3. \A c \in list : Busy(c, list, pcs2, targets) <=> Busy(c, list, pcs, targets)
  BY <1>1, <1>2 DEF Busy
<1>4. ~Busy(t, list, pcs, targets)
  BY DEF Busy
<1>5. HaveParents(list, pcs2, targets)
  BY <1>1, <1>2 DEF Family, HaveParents
<1>6. HaveOneParent(list, pcs2, targets)
  BY <1>1, <1>2 DEF Family, HaveOneParent
<1>7. LeaveExitInfo(list, new, pcs2, targets, infos)
  BY <1>1, <1>2 DEF Family, LeaveExitInfo
<1>8. OneIsFree(list, pcs2, targets)
  BY <1>3 DEF Family, OneIsFree
<1>9. StatesFit(list, st, pcs2, targets, exits, reader)
  BY <1>1, <1>3, <1>4 DEF Family, StatesFit
<1>10. WakersFit(list, new, st, pcs2, targets, exits, reader)
  BY <1>1 DEF Family, WakersFit
<1>11. OthersRest(new, pcs2)
  <2>1. Idle # t /\ Idle \in Thread /\ \A q \in new : q # t /\ q \in Thread
    BY DEF SchedulerAssumption, Family, OthersRest
  <2>2. QED BY <1>1, <2>1 DEF Family, OthersRest
<1>12. QED
  BY <1>5, <1>6, <1>7, <1>8, <1>9, <1>10, <1>11 DEF Family, pcs2

\* start_process(): the thread that has the CPU becomes the parent of a new one.
LEMMA FamilyGrows ==
  ASSUME SchedulerAssumption,
         NEW list \in SUBSET Thread, NEW new \in SUBSET Thread, NEW st,
         NEW pcs \in [Thread -> Points], NEW targets \in [Thread -> Thread \cup {NULL}],
         NEW exits, NEW reader, NEW infos,
         Family(list, new, st, pcs, targets, exits, reader, infos),
         list \cap new = {}, NEW t \in list \ {Idle}, pcs[t] = "run",
         NEW p \in Process, p \in new, st[p] = "Run"
  PROVE  Family(list \cup {p}, new \ {p}, st, [pcs EXCEPT ![t] = "started"],
                [targets EXCEPT ![t] = p], exits, reader, infos)
<1> DEFINE pcs2 == [pcs EXCEPT ![t] = "started"]
           targets2 == [targets EXCEPT ![t] = p]
           list2 == list \cup {p}
           new2 == new \ {p}
<1>1. /\ pcs2[t] = "started" /\ targets2[t] = p /\ t \in Thread /\ t # p
      /\ \A u \in Thread : u # t => pcs2[u] = pcs[u] /\ targets2[u] = targets[u]
  OBVIOUS
<1>2. /\ pcs[t] \notin Awaiting /\ "started" \in Awaiting
      /\ pcs2[p] = "run" /\ "run" \notin Awaiting /\ p \in Thread /\ p # Idle
  BY <1>1 DEF Awaiting, Family, OthersRest, SchedulerAssumption
<1> HIDE DEF pcs2, targets2
<1>3. \A c \in list \ {Idle} : c # t /\ pcs[c] \in Awaiting => targets[c] # p
  BY DEF Family, LeaveExitInfo
<1>4. \A c \in list \ {Idle} : c # t =>
        (Busy(c, list2, pcs2, targets2) <=> Busy(c, list, pcs, targets))
  BY <1>1, <1>3 DEF Busy
<1>5. Busy(t, list2, pcs2, targets2) /\ ~Busy(t, list, pcs, targets)
  BY <1>1, <1>2 DEF Busy
<1>6. HaveParents(list2, pcs2, targets2)
  <2> SUFFICES ASSUME NEW q \in Process, q \in list2
               PROVE  \E c \in list2 \ {Idle} : pcs2[c] \in Awaiting /\ targets2[c] = q
    BY DEF HaveParents
  <2>1. CASE q = p
    BY <1>1, <1>2, <2>1
  <2>2. CASE q \in list
    <3>1. PICK c \in list \ {Idle} : pcs[c] \in Awaiting /\ targets[c] = q
      BY <2>2 DEF Family, HaveParents
    <3>2. c # t
      BY <1>2, <3>1
    <3>3. QED BY <1>1, <3>1, <3>2
  <2>3. QED BY <2>1, <2>2
<1>7. HaveOneParent(list2, pcs2, targets2)
  <2> SUFFICES ASSUME NEW c \in list2 \ {Idle}, NEW d \in list2 \ {Idle},
                      pcs2[c] \in Awaiting, pcs2[d] \in Awaiting, targets2[c] = targets2[d]
               PROVE  c = d
    BY DEF HaveOneParent
  <2>1. c \in list /\ d \in list
    BY <1>2
  <2>2. CASE c = t \/ d = t
    BY <1>1, <1>3, <2>1, <2>2
  <2>3. CASE c # t /\ d # t
    BY <1>1, <2>1, <2>3 DEF Family, HaveOneParent
  <2>4. QED BY <2>2, <2>3
<1>8. LeaveExitInfo(list2, new2, pcs2, targets2, infos)
  BY <1>1, <1>2 DEF Family, LeaveExitInfo
<1>9. OneIsFree(list2, pcs2, targets2)
  <2>1. ASSUME NEW c \in list2 \ {Idle}, ~Busy(c, list2, pcs2, targets2) PROVE c = p
    BY <1>4, <1>5, <2>1 DEF Family, OneIsFree
  <2>2. QED BY <2>1 DEF OneIsFree
<1>10. StatesFit(list2, st, pcs2, targets2, exits, reader)
  <2> SUFFICES ASSUME NEW c \in list2 \ {Idle}
               PROVE
    /\ pcs2[c] \in {"run", "key_gap", "started", "waited", "key"}
    /\ st[c] = "Run" \/ (pcs2[c] = "key" /\ reader = c)
                     \/ (pcs2[c] = "waited" /\ Busy(c, list2, pcs2, targets2))
    /\ pcs2[c] = "waited" /\ Busy(c, list2, pcs2, targets2) =>
         st[c] = "Wait" /\ exits[targets2[c]] = c
    BY DEF StatesFit
  <2>1. CASE c = p
    BY <1>2, <2>1
  <2>2. CASE c = t
    <3>1. st[t] = "Run"
      BY DEF Family, StatesFit
    <3>2. QED BY <1>1, <2>2, <3>1
  <2>3. CASE c \in list /\ c # t
    <3>1. pcs2[c] = pcs[c] /\ targets2[c] = targets[c]
      BY <1>1, <2>3
    <3>2. QED BY <1>4, <2>3, <3>1 DEF Family, StatesFit
  <2>4. QED BY <2>1, <2>2, <2>3
<1>11. WakersFit(list2, new2, st, pcs2, targets2, exits, reader)
  <2>1. \A u \in list : pcs[u] = "waited" \/ pcs[u] = "key" =>
          u # t /\ pcs2[u] = pcs[u] /\ targets2[u] = targets[u]
    BY <1>1
  <2>2. list2 \cup new2 = list \cup new
    OBVIOUS
  <2> HIDE DEF list2, new2
  <2>3. list \subseteq list2
    BY DEF list2
  <2>4. \A x \in list \cup new : exits[x] # NULL =>
          exits[x] \in list2 \ {Idle} /\ pcs2[exits[x]] = "waited" /\ targets2[exits[x]] = x
    BY <2>1, <2>3 DEF Family, WakersFit
  <2>5. reader # NULL => reader \in list2 \ {Idle} /\ pcs2[reader] = "key" /\ st[reader] = "Wait"
    BY <2>1, <2>3 DEF Family, WakersFit
  <2>6. QED BY <2>2, <2>4, <2>5 DEF WakersFit
<1>12. OthersRest(new2, pcs2)
  <2>1. Idle # t /\ Idle \in Thread /\ \A q \in new : q # t /\ q \in Thread
    BY DEF SchedulerAssumption
  <2>2. QED BY <1>1, <2>1 DEF Family, OthersRest
<1>13. QED
  BY <1>6, <1>7, <1>8, <1>9, <1>10, <1>11, <1>12 DEF Family, pcs2, targets2

\* The end of a thread that has no child: its parent becomes the one without ...
LEMMA FamilyShrinks ==
  ASSUME SchedulerAssumption, TimeQueueAssumption,
         NEW list \in SUBSET Thread, NEW new \in SUBSET Thread, NEW st, NEW st2,
         NEW pcs \in [Thread -> Points], NEW targets, NEW exits, NEW reader, NEW infos,
         Family(list, new, st, pcs, targets, exits, reader, infos),
         list \cap new = {}, NEW t \in list \ {Idle}, t \in Process, pcs[t] = "run",
         \A u \in Thread : st2[u] = IF u = exits[t] THEN "Run" ELSE st[u]
  PROVE  Family(list \ {t}, new, st2, [pcs EXCEPT ![t] = "gone"], targets, exits,
                reader, infos \cup {t})
<1> DEFINE pcs2 == [pcs EXCEPT ![t] = "gone"]
           list2 == list \ {t}
           infos2 == infos \cup {t}
<1>1. \A u \in Thread : u # t => pcs2[u] = pcs[u]
  OBVIOUS
<1>2. pcs[t] \notin Awaiting /\ pcs[t] # "waited" /\ pcs[t] # "key"
  BY DEF Awaiting
<1> HIDE DEF pcs2
<1>3. \A c \in list2 : Busy(c, list2, pcs2, targets) <=>
                         Busy(c, list, pcs, targets) /\ targets[c] # t
  BY <1>1 DEF Busy
<1>4. PICK c \in list \ {Idle} : pcs[c] \in Awaiting /\ targets[c] = t
  BY DEF Family, HaveParents
<1>5. c # t /\ Busy(c, list, pcs, targets) /\ ~Busy(t, list, pcs, targets)
  BY <1>2, <1>4 DEF Busy
<1>6. HaveParents(list2, pcs2, targets)
  <2> SUFFICES ASSUME NEW q \in Process, q \in list2
               PROVE  \E d \in list2 \ {Idle} : pcs2[d] \in Awaiting /\ targets[d] = q
    BY DEF HaveParents
  <2>1. PICK d \in list \ {Idle} : pcs[d] \in Awaiting /\ targets[d] = q
    BY DEF Family, HaveParents
  <2>2. d # t
    BY <1>2, <2>1
  <2>3. QED BY <1>1, <2>1, <2>2
<1>7. HaveOneParent(list2, pcs2, targets)
  BY <1>1 DEF Family, HaveOneParent
<1>8. LeaveExitInfo(list2, new, pcs2, targets, infos2)
  BY <1>1 DEF Family, LeaveExitInfo
<1>9. OneIsFree(list2, pcs2, targets)
  <2>1. ASSUME NEW d \in list2 \ {Idle}, ~Busy(d, list2, pcs2, targets) PROVE d = c
    <3>1. Busy(d, list, pcs, targets)
      BY <1>5, <2>1 DEF Family, OneIsFree
    <3>2. targets[d] = t
      BY <1>3, <2>1, <3>1
    <3>3. QED BY <1>4, <2>1, <3>1, <3>2 DEF Family, HaveOneParent, Busy
  <2>2. QED BY <2>1 DEF OneIsFree
<1>10. StatesFit(list2, st2, pcs2, targets, exits, reader)
  <2> SUFFICES ASSUME NEW d \in list2 \ {Idle}
               PROVE
    /\ pcs2[d] \in {"run", "key_gap", "started", "waited", "key"}
    /\ st2[d] = "Run" \/ (pcs2[d] = "key" /\ reader = d)
                      \/ (pcs2[d] = "waited" /\ Busy(d, list2, pcs2, targets))
    /\ pcs2[d] = "waited" /\ Busy(d, list2, pcs2, targets) =>
         st2[d] = "Wait" /\ exits[targets[d]] = d
    BY DEF StatesFit
  <2>1. d \in Thread /\ d # t /\ pcs2[d] = pcs[d]
    BY <1>1
  <2>2. CASE pcs[d] = "waited" /\ Busy(d, list, pcs, targets)
    <3>1. st[d] = "Wait" /\ exits[targets[d]] = d
      BY <2>2 DEF Family, StatesFit
    <3>2. CASE targets[d] = t
      BY <1>3, <2>1, <2>2, <3>1, <3>2
    <3>3. CASE targets[d] # t
      <4>1. exits[t] # d
        BY <3>3, <2>1 DEF Family, WakersFit, TimeQueueAssumption
      <4>2. st2[d] = st[d] /\ Busy(d, list2, pcs2, targets)
        BY <1>3, <2>1, <2>2, <3>3, <4>1
      <4>3. QED BY <2>1, <2>2, <3>1, <4>2
    <3>4. QED BY <3>2, <3>3
  <2>3. CASE ~(pcs[d] = "waited" /\ Busy(d, list, pcs, targets))
    <3>1. /\ pcs[d] \in {"run", "key_gap", "started", "waited", "key"}
          /\ st[d] = "Run" \/ (pcs[d] = "key" /\ reader = d)
      BY <2>3 DEF Family, StatesFit
    <3>2. st2[d] = "Run" \/ st2[d] = st[d]
      BY <2>1
    <3>3. ~(pcs[d] = "waited" /\ Busy(d, list2, pcs2, targets))
      BY <1>3, <2>3
    <3>4. QED BY <2>1, <3>1, <3>2, <3>3
  <2>4. QED BY <2>2, <2>3
<1>11. WakersFit(list2, new, st2, pcs2, targets, exits, reader)
  <2>1. \A u \in list : pcs[u] = "waited" \/ pcs[u] = "key" => u # t /\ pcs2[u] = pcs[u]
    BY <1>1, <1>2
  <2>2. \A x \in list2 \cup new : exits[x] # NULL =>
          exits[x] \in list2 \ {Idle} /\ pcs2[exits[x]] = "waited" /\ targets[exits[x]] = x
    BY <2>1 DEF Family, WakersFit
  <2>3. reader # NULL => reader \in list2 \ {Idle} /\ pcs2[reader] = "key" /\ st2[reader] = "Wait"
    <3> SUFFICES ASSUME reader # NULL
                 PROVE  reader \in list2 \ {Idle} /\ pcs2[reader] = "key" /\ st2[reader] = "Wait"
      OBVIOUS
    <3>1. reader \in list \ {Idle} /\ pcs[reader] = "key" /\ st[reader] = "Wait"
      BY DEF Family, WakersFit
    <3>2. reader # exits[t]
      BY <3>1 DEF Family, WakersFit
    <3>3. QED BY <2>1, <3>1, <3>2
  <2>4. QED BY <2>2, <2>3 DEF WakersFit
<1>12. OthersRest(new, pcs2)
  <2>1. Idle # t /\ Idle \in Thread /\ \A q \in new : q # t /\ q \in Thread
    BY DEF SchedulerAssumption
  <2>2. QED BY <1>1, <2>1 DEF Family, OthersRest
<1>13. QED
  BY <1>6, <1>7, <1>8, <1>9, <1>10, <1>11, <1>12 DEF Family, pcs2

\* ... and that parent runs: it was to be woken by the end, or has yet to wait for it.
LEMMA ParentMayRun ==
  ASSUME SchedulerAssumption, TimeQueueAssumption,
         NEW list \in SUBSET Thread, NEW new \in SUBSET Thread, NEW st, NEW st2,
         NEW pcs \in [Thread -> Points], NEW targets, NEW exits, NEW reader, NEW infos,
         Family(list, new, st, pcs, targets, exits, reader, infos),
         list \cap new = {}, NEW t \in list \ {Idle}, t \in Process, pcs[t] = "run",
         \A u \in Thread : st2[u] = IF u = exits[t] THEN "Run" ELSE st[u]
  PROVE  \E c \in list \ {t, Idle} : st2[c] = "Run"
<1>1. PICK c \in list \ {Idle} : pcs[c] \in Awaiting /\ targets[c] = t
  BY DEF Family, HaveParents
<1>2. c # t /\ Busy(c, list, pcs, targets)
  BY <1>1 DEF Busy, Awaiting
<1>3. st2[c] = "Run"
  <2>1. CASE pcs[c] = "waited"
    <3>1. exits[t] = c
      BY <1>1, <1>2, <2>1 DEF Family, StatesFit
    <3>2. QED BY <3>1
  <2>2. CASE pcs[c] = "started"
    <3>1. st[c] = "Run"
      BY <2>2 DEF Family, StatesFit
    <3>2. QED BY <3>1
  <2>3. QED BY <1>1, <2>1, <2>2 DEF Awaiting
<1>4. QED BY <1>2, <1>3

\* A key makes its reader run, and nobody reads any more.
LEMMA FamilyWoken ==
  ASSUME SchedulerAssumption,
         NEW list \in SUBSET Thread, NEW new, NEW st, NEW st2,
         NEW pcs, NEW targets, NEW exits, NEW reader, NEW infos,
         Family(list, new, st, pcs, targets, exits, reader, infos),
         reader = NULL => st2 = st,
         reader # NULL => \A u \in Thread : st2[u] = IF u = reader THEN "Run" ELSE st[u]
  PROVE  Family(list, new, st2, pcs, targets, exits, NULL, infos)
<1>1. CASE reader = NULL
  BY <1>1
<1>2. CASE reader # NULL
  <2>1. pcs[reader] = "key"
    BY <1>2 DEF Family, WakersFit
  <2>2. StatesFit(list, st2, pcs, targets, exits, NULL)
    BY <1>2, <2>1 DEF Family, StatesFit
  <2>3. WakersFit(list, new, st2, pcs, targets, exits, NULL)
    BY DEF Family, WakersFit
  <2>4. QED BY <2>2, <2>3 DEF Family
<1>3. QED BY <1>1, <1>2

\* remove_thread() in a family: the walk after it finds the parent, at the latest.
LEMMA ExitKeepsFamily ==
  ASSUME IInv, ExecInv, Assumptions, OnlyExec, NEW t \in Thread, ExitProcess(t)
  PROVE  ExecInv'
<1> DEFINE i == Position(order, t)
           list == Threads(order)
           pcs == [pc EXCEPT ![t] = "gone"]
<1>1. /\ TypeOK /\ SchedulerTypeOK /\ TimeQueueAssumption /\ SchedulerAssumption
      /\ order \in Seq(Thread) /\ NoDuplicates(order) /\ t \in list
      /\ list \cap unused = {} /\ unused \in SUBSET Thread /\ list \in SUBSET Thread
      /\ pc \in [Thread -> Points]
      /\ halted = "no" /\ current = t /\ t \in Process /\ t # Idle /\ pc[t] = "run"
  BY DEF IInv, TypeOK, SchedulerTypeOK, ListInv, CurrentMayRun, Running, Assumptions, Threads,
         ExitProcess, SchedulerAssumption, ThreadingAssumption
<1>2. /\ order' = Unlink(order, i) /\ unused' = unused
      /\ pc' = pcs
      /\ Yield(Woken(t), Unlink(order, i), i - 1, FALSE)
      /\ UNCHANGED <<waiting_for_keyboard, wake_on_exit, target>>
      /\ exit_info' = exit_info \cup {t}
  BY DEF ExitProcess, RecordExit, RemoveCurrentThread, keyVars
<1>3. Family(list, unused, state, pc, target, wake_on_exit, waiting_for_keyboard, exit_info)
  BY <1>1 DEF ExecInv
<1>4. /\ Woken(t) \in [Thread -> {"Run", "Wait"}]
      /\ \A u \in Thread : Woken(t)[u] = IF u = wake_on_exit[t] THEN "Run" ELSE state[u]
  BY <1>1 DEF Woken, SchedulerTypeOK, TimeQueueAssumption
<1>5. i \in DOMAIN order /\ order[i] = t
  BY <1>1, PositionOfThread
<1> HIDE DEF i, list
<1>6. Unlink(order, i) \in Seq(Thread) /\ Threads(Unlink(order, i)) = list \ {t}
  BY <1>1, <1>5, UnlinkThread DEF list
<1>7. /\ Family(list \ {t}, unused, Woken(t), pcs, target, wake_on_exit,
                waiting_for_keyboard, exit_info \cup {t})
      /\ \E c \in list \ {t, Idle} : Woken(t)[c] = "Run"
  <2>1. Family(list \ {t}, unused, Woken(t), pcs, target, wake_on_exit,
               waiting_for_keyboard, exit_info \cup {t})
    BY <1>1, <1>3, <1>4, FamilyShrinks
  <2>2. \E c \in list \ {t, Idle} : Woken(t)[c] = "Run"
    BY <1>1, <1>3, <1>4, ParentMayRun
  <2>3. QED BY <2>1, <2>2
<1>8. /\ head' = NULL /\ halted' = halted
      /\ \A u \in Thread : context'[u] = "in_use" => u = current'
      /\ \A u \in Thread \ {Idle} : state'[u] = Woken(t)[u]
  <2>1. /\ head = NULL /\ \A u \in Thread : context[u] = "in_use" => u = current
    BY DEF ExecInv
  <2>2. \E c \in Threads(Unlink(order, i)) : c # current /\ Woken(t)[c] = "Run"
    BY <1>1, <1>6, <1>7
  <2>3. QED BY <1>1, <1>2, <1>4, <1>6, <2>1, <2>2, QuietYield
<1>9. Family(list \ {t}, unused, state', pcs, target, wake_on_exit,
             waiting_for_keyboard, exit_info \cup {t})
  <2>1. list \ {t} \in SUBSET Thread
    BY <1>1
  <2>2. QED BY <1>7, <1>8, <2>1, FamilyOfStates
<1>10. QED BY <1>1, <1>2, <1>6, <1>8, <1>9 DEF ExecInv

\* Every step of a kernel that only execs keeps its threads a family.
LEMMA StepKeepsFamily ==
  ASSUME IInv, ExecInv, Assumptions, OnlyExec, [Next]_vars
  PROVE  ExecInv'
<1> DEFINE list == Threads(order)
<1>1. /\ TypeOK /\ SchedulerTypeOK /\ ListInv /\ CurrentMayRun
      /\ TimeQueueAssumption /\ SchedulerAssumption
      /\ state \in [Thread -> {"Run", "Wait"}]
      /\ pc \in [Thread -> Points] /\ target \in [Thread -> Thread \cup {NULL}]
      /\ wake_on_exit \in [Thread -> Thread \cup {NULL}]
      /\ order \in Seq(Thread) /\ list \in SUBSET Thread
      /\ unused \in SUBSET Thread /\ list \cap unused = {}
      /\ Process \subseteq Thread /\ Idle \notin Process /\ Boot # Idle
  BY DEF IInv, TypeOK, SchedulerTypeOK, ListInv, Assumptions, SchedulerAssumption,
         ThreadingAssumption, Threads
<1>2. /\ head = NULL /\ halted \in {"no", "shutdown"}
      /\ \A t \in Thread : context[t] = "in_use" => t = current
      /\ halted = "no" =>
           /\ Family(list, unused, state, pc, target, wake_on_exit,
                     waiting_for_keyboard, exit_info)
           /\ current \in list
           /\ OthersRest(unused, pc)
  BY <1>1 DEF ExecInv, Family, CurrentMayRun
<1> HIDE DEF list
<1>3. ASSUME NEW t \in Thread, Running(t)
      PROVE  /\ halted = "no" /\ current = t /\ t \in list /\ t \notin unused
             /\ pc[t] # "sleeping" => state[t] = "Run"
             /\ t # Idle => pc[t] \in {"run", "key_gap", "started", "waited", "key"}
             /\ pc[t] # "run" => t # Idle
  BY <1>1, <1>2, <1>3 DEF Running, CurrentMayRun, Family, StatesFit, OthersRest
<1>4. ASSUME NEW st \in [Thread -> {"Run", "Wait"}], NEW tick, YieldFrom(st, tick),
             current = Idle => st[Idle] = "Run", halted = "no",
             NEW pcs, NEW exits, NEW reader,
             Family(list, unused, st, pcs, target, exits, reader, exit_info),
             pc' = pcs, wake_on_exit' = exits, waiting_for_keyboard' = reader,
             UNCHANGED <<order, unused, target, exit_info>>
      PROVE  ExecInv'
  <2>1. /\ head' = NULL /\ halted' = halted
        /\ \A t \in Thread : context'[t] = "in_use" => t = current'
        /\ \A t \in Thread \ {Idle} : state'[t] = st[t]
    BY <1>1, <1>2, <1>4, QuietYield DEF YieldFrom, list
  <2>2. Family(list, unused, state', pcs, target, exits, reader, exit_info)
    BY <1>1, <1>4, <2>1, FamilyOfStates
  <2>3. QED BY <1>4, <2>1, <2>2 DEF ExecInv, list
<1>5. ASSUME UNCHANGED <<head, context, current, order, unused, target, exit_info>>,
             halted' = halted, halted = "no",
             NEW st, NEW pcs, NEW reader,
             Family(list, unused, st, pcs, target, wake_on_exit, reader, exit_info),
             state' = st, pc' = pcs, wake_on_exit' = wake_on_exit,
             waiting_for_keyboard' = reader
      PROVE  ExecInv'
  BY <1>2, <1>5 DEF ExecInv, list
<1>6. ASSUME NEW t \in Thread, Running(t), t # Idle,
             pc[t] \notin Awaiting \/ target[t] \notin list,
             NEW p \in {"run", "key_gap"}, pc' = [pc EXCEPT ![t] = p],
             UNCHANGED <<head, context, current, order, unused, target, exit_info, halted,
                         state, wake_on_exit, waiting_for_keyboard>>,
             pc[t] # "sleeping"
      PROVE  ExecInv'
  <2>1. /\ t \in list \ {Idle} /\ state[t] = "Run" /\ t \notin unused /\ halted = "no"
        /\ ~Busy(t, list, pc, target)
    BY <1>3, <1>6 DEF Busy
  <2>2. Family(list, unused, state, [pc EXCEPT ![t] = p], target, wake_on_exit,
               waiting_for_keyboard, exit_info)
    BY <1>1, <1>2, <2>1, FamilyMoves
  <2>3. QED BY <1>5, <1>6, <2>1, <2>2
<1>7. CASE UNCHANGED vars
  BY <1>2, <1>7 DEF vars, listVars, switchVars, keyVars, waitVars, queueVars, ExecInv, list
<1>8. CASE Tick
  <2>1. /\ YieldFrom(state, TRUE) /\ halted = "no"
        /\ UNCHANGED <<pc, waiting_for_keyboard, wake_on_exit, target, exit_info, order, unused>>
    BY <1>8 DEF Tick, TimerInterrupt, listVars, keyVars, waitVars
  <2>2. current = Idle => state[Idle] = "Run"
    BY <1>1, <1>2, <2>1 DEF CurrentMayRun, OthersRest
  <2>3. QED BY <1>1, <1>2, <1>4, <2>1, <2>2
<1>9. CASE KeyboardEvent
  <2>1. /\ UNCHANGED <<head, context, current, order, unused, target, exit_info, halted, pc,
                       wake_on_exit>>
        /\ halted = "no" /\ waiting_for_keyboard' = NULL
        /\ waiting_for_keyboard = NULL => state' = state
        /\ waiting_for_keyboard # NULL =>
             \A u \in Thread : state'[u] = IF u = waiting_for_keyboard THEN "Run" ELSE state[u]
    BY <1>1, <1>9 DEF KeyboardEvent, WakeKeyReader, listVars, waitVars, queueVars
  <2>2. Family(list, unused, state', pc, target, wake_on_exit, NULL, exit_info)
    BY <1>1, <1>2, <2>1, FamilyWoken
  <2>3. QED BY <1>5, <2>1, <2>2
<1>10. CASE Elapse
  BY <1>2, <1>5, <1>10 DEF Elapse, listVars, switchVars, keyVars, waitVars, queueVars
<1>11. ASSUME NEW t \in Thread, GetKey(t) PROVE ExecInv'
  <2>1. /\ Running(t) /\ t # Idle /\ pc[t] \in {"run", "key"}
        /\ UNCHANGED <<head, context, current, order, unused, target, exit_info, halted,
                       state, wake_on_exit, waiting_for_keyboard>>
        /\ pc' = [pc EXCEPT ![t] = "run"] \/ pc' = [pc EXCEPT ![t] = "key_gap"]
    BY <1>1, <1>11 DEF GetKey, listVars, waitVars, queueVars, Assumptions, ThreadingAssumption
  <2>2. pc[t] \notin Awaiting /\ pc[t] # "sleeping"
    BY <2>1 DEF Awaiting
  <2>3. QED BY <1>6, <2>1, <2>2
<1>12. ASSUME NEW t \in Thread, KernelStep(t) PROVE ExecInv'
  <2>1. CASE WaitForProcess(t)
    <3> DEFINE x == target[t]
               pcs == [pc EXCEPT ![t] = "waited"]
               st == [state EXCEPT ![t] = "Wait"]
               exits == [wake_on_exit EXCEPT ![x] = t]
    <3>1. /\ Running(t) /\ pc[t] = "started" /\ pc' = pcs
          /\ UNCHANGED <<order, unused, waiting_for_keyboard, exit_info, target>>
          /\ AwaitExit(t, x, x \in list)
      BY <2>1 DEF WaitForProcess, listVars, keyVars, list
    <3>2. t \in list \ {Idle} /\ halted = "no" /\ current = t /\ state[t] = "Run"
      BY <1>3, <3>1
    <3>3. CASE x \in list
      <4>1. /\ wake_on_exit[x] = NULL
            /\ Family(list, unused, st, pcs, target, exits, waiting_for_keyboard, exit_info)
        BY <1>1, <1>2, <3>1, <3>2, <3>3, FamilyAwaits
      <4>2. wake_on_exit' = exits /\ YieldFrom(st, FALSE)
        BY <3>1, <3>3, <4>1 DEF AwaitExit
      <4>3. st \in [Thread -> {"Run", "Wait"}] /\ current # Idle
        BY <1>1, <3>2
      <4> HIDE DEF st, pcs, exits
      <4>4. QED BY <1>4, <3>1, <3>2, <4>1, <4>2, <4>3
    <3>4. CASE x \notin list
      <4>1. Family(list, unused, state, pcs, target, wake_on_exit, waiting_for_keyboard,
                   exit_info)
        BY <1>1, <1>2, <3>1, <3>2, <3>4, FamilyMissed
      <4>2. UNCHANGED <<state, current, context, halted, wake_on_exit, head>>
        BY <3>1, <3>4 DEF AwaitExit, queueVars
      <4> HIDE DEF pcs
      <4>3. QED BY <1>5, <3>1, <3>2, <4>1, <4>2
    <3>5. QED BY <3>3, <3>4
  <2>2. CASE ExecReturns(t)
    <3>1. /\ Running(t) /\ pc[t] = "waited" /\ pc' = [pc EXCEPT ![t] = "run"]
          /\ UNCHANGED <<order, unused, waiting_for_keyboard, wake_on_exit, target, exit_info,
                         head>>
      BY <2>2 DEF ExecReturns, listVars, keyVars, waitVars, queueVars
    <3>2. t \in list \ {Idle} /\ halted = "no" /\ state[t] = "Run" /\ pc[t] \in Awaiting
      BY <1>3, <3>1 DEF Awaiting
    <3>3. target[t] \notin list /\ target[t] \in exit_info
      <4>1. target[t] \in list => state[t] = "Wait"
        BY <1>2, <3>1, <3>2 DEF Family, StatesFit, Busy
      <4>2. target[t] \in list \/ target[t] \in exit_info
        BY <1>2, <3>2 DEF Family, LeaveExitInfo
      <4>3. QED BY <3>2, <4>1, <4>2
    <3>4. CASE t = Boot
      <4>1. halted' = "shutdown" /\ UNCHANGED <<context, current>>
        BY <2>2, <3>3, <3>4 DEF ExecReturns, Halt
      <4>2. QED BY <1>2, <3>1, <4>1 DEF ExecInv
    <3>5. CASE t # Boot
      <4>1. UNCHANGED <<state, current, context, halted>>
        BY <2>2, <3>3, <3>5 DEF ExecReturns
      <4>2. QED BY <1>6, <3>1, <3>2, <3>3, <4>1
    <3>6. QED BY <3>4, <3>5
  <2>3. CASE EnterThread(t)
    <3>1. Running(t) /\ pc[t] = "inserted"
      BY <2>3 DEF EnterThread
    <3>2. QED BY <1>3, <3>1
  <2>4. CASE GetKey(t)
    BY <1>11, <2>4
  <2>5. CASE WaitForKeyboard(t)
    <3> DEFINE pcs == [pc EXCEPT ![t] = "key"]
               st == [state EXCEPT ![t] = "Wait"]
    <3>1. /\ Running(t) /\ pc[t] = "key_gap" /\ pc' = pcs /\ waiting_for_keyboard' = t
          /\ UNCHANGED <<wake_on_exit, target, exit_info, order, unused>>
          /\ YieldFrom(st, FALSE)
      BY <2>5 DEF WaitForKeyboard, listVars, waitVars
    <3>2. t \in list \ {Idle} /\ halted = "no" /\ current = t
          /\ st \in [Thread -> {"Run", "Wait"}]
      BY <1>1, <1>3, <3>1
    <3>3. Family(list, unused, st, pcs, target, wake_on_exit, t, exit_info)
      BY <1>1, <1>2, <3>1, <3>2, FamilyReads
    <3> HIDE DEF st, pcs
    <3>4. QED BY <1>4, <3>1, <3>2, <3>3
  <2>6. CASE SleepYield(t)
    <3>1. Running(t) /\ pc[t] = "sleeping"
      BY <2>6 DEF SleepYield
    <3>2. QED BY <1>3, <3>1
  <2>7. QED BY <1>12, <2>1, <2>2, <2>3, <2>4, <2>5, <2>6 DEF KernelStep
<1>13. ASSUME NEW t \in Thread, ProgramStep(t) PROVE ExecInv'
  <2>1. CASE SyscallYield(t)
    <3>1. /\ YieldFrom(state, FALSE) /\ halted = "no" /\ current # Idle
          /\ UNCHANGED <<pc, waiting_for_keyboard, wake_on_exit, target, exit_info, order, unused>>
      BY <1>1, <2>1 DEF SyscallYield, Running, listVars, keyVars, waitVars
    <3>2. QED BY <1>1, <1>2, <1>4, <3>1
  <2>2. ASSUME NEW p \in Process, StartProcess(t, p) PROVE ExecInv'
    <3> DEFINE pcs == [pc EXCEPT ![t] = "started"]
               targets == [target EXCEPT ![t] = p]
    <3>1. /\ Running(t) /\ pc[t] = "run" /\ t # Idle /\ p \in unused
          /\ order' = Append(order, p) /\ unused' = unused \ {p}
          /\ pc' = pcs /\ target' = targets
          /\ UNCHANGED <<head, state, wake_on_exit, waiting_for_keyboard, exit_info>>
          /\ SwitchTo(p, FALSE)
      BY <1>1, <2>2 DEF StartProcess, keyVars, queueVars
    <3>2. t \in list \ {Idle} /\ halted = "no" /\ current = t
      BY <1>3, <3>1
    <3>3. p \notin list /\ state[p] = "Run" /\ p # t /\ p \in Thread
      BY <1>1, <3>1, <3>2 DEF ListInv
    <3>4. Threads(order') = list \cup {p}
      BY <1>1, <3>1, <3>3, AppendThread DEF ListInv, list
    <3>5. Family(list \cup {p}, unused \ {p}, state, pcs, targets, wake_on_exit,
                 waiting_for_keyboard, exit_info)
      BY <1>1, <1>2, <3>1, <3>2, <3>3, FamilyGrows
    <3>6. halted' = halted /\ \A u \in Thread : context'[u] = "in_use" => u = current'
      <4>1. context[p] # "in_use" /\ context \in [Thread -> {"unset", "saved", "in_use"}]
            /\ current \in Thread
        BY <1>1, <1>2, <3>2, <3>3 DEF SchedulerTypeOK
      <4>2. QED BY <1>2, <3>1, <3>3, <4>1 DEF SwitchTo
    <3> HIDE DEF pcs, targets
    <3>7. QED BY <1>2, <3>1, <3>4, <3>5, <3>6 DEF ExecInv
  <2>3. CASE ExitProcess(t)
    BY <2>3, ExitKeepsFamily
  <2>4. CASE EndKernelThread(t)
    BY <2>4 DEF EndKernelThread, OnlyExec
  <2>5. CASE GetKey(t)
    BY <1>11, <2>5
  <2>6. CASE \E d \in Durations : Sleep(t, d)
    BY <2>6 DEF Sleep, OnlyExec
  <2>7. QED
    BY <1>13, <2>1, <2>2, <2>3, <2>4, <2>5, <2>6 DEF ProgramStep, OnlyExec
<1>14. QED BY <1>7, <1>8, <1>9, <1>10, <1>12, <1>13 DEF Next, Stopped

\* After the boot the boot thread, which has no child, is the whole family.
LEMMA FamilyStarts ==
  ASSUME Assumptions, Init
  PROVE  ExecInv
<1>1. /\ order = <<Idle, Boot>> /\ unused = Process \cup KernelThread
      /\ state = [t \in Thread |-> IF t = Idle THEN "Wait" ELSE "Run"]
      /\ wake_on_exit = [t \in Thread |-> NULL]
      /\ current = Boot /\ context = [t \in Thread |-> IF t = Boot THEN "in_use" ELSE "unset"]
      /\ pc = [t \in Thread |-> "run"]
      /\ waiting_for_keyboard = NULL /\ head = NULL /\ halted = "no"
  BY DEF Init, QueueInit
<1>2. /\ Boot \in Thread \ ({Idle} \cup Process) /\ Idle \in Thread
      /\ Process \subseteq Thread \ {Idle} /\ KernelThread \subseteq Thread
  BY DEF Assumptions, SchedulerAssumption, ThreadingAssumption
<1>3. Threads(order) = {Idle, Boot}
  <2>1. order = <<Idle, Boot>> /\ DOMAIN order = {1, 2}
    BY <1>1
  <2>2. QED BY <2>1 DEF Threads
<1>4. \A t \in Thread : pc[t] = "run" /\ pc[t] \notin Awaiting /\ wake_on_exit[t] = NULL
  BY <1>1 DEF Awaiting
<1> DEFINE list == {Idle, Boot}
<1>5. HaveParents(list, pc, target) /\ HaveOneParent(list, pc, target)
      /\ LeaveExitInfo(list, unused, pc, target, exit_info)
  BY <1>2, <1>4 DEF HaveParents, HaveOneParent, LeaveExitInfo
<1>6. OneIsFree(list, pc, target) /\ OthersRest(unused, pc)
  BY <1>1, <1>2, <1>4 DEF OneIsFree, OthersRest
<1>7. StatesFit(list, state, pc, target, wake_on_exit, waiting_for_keyboard)
  BY <1>1, <1>2, <1>4 DEF StatesFit, Busy
<1>8. WakersFit(list, unused, state, pc, target, wake_on_exit, waiting_for_keyboard)
  BY <1>1, <1>2, <1>4 DEF WakersFit
<1>9. \A t \in Thread : context[t] = "in_use" => t = current
  BY <1>1
<1>10. QED BY <1>1, <1>3, <1>5, <1>6, <1>7, <1>8, <1>9 DEF ExecInv, Family

\* In a family, the keyboard wakes who reads a key, its end wakes the one who awaits it,
\* and nothing wakes the one that runs.
LEMMA FamilyHasOneWaker ==
  ASSUME IInv, ExecInv, Assumptions
  PROVE  EveryWaiterHasOneWaker
<1>1. /\ state \in [Thread -> {"Run", "Wait"}] /\ Threads(order) \subseteq Thread
      /\ Idle \notin Process /\ NULL \notin Thread
  BY DEF IInv, TypeOK, SchedulerTypeOK, Threads, Assumptions, SchedulerAssumption,
         TimeQueueAssumption
<1> SUFFICES ASSUME halted = "no", NEW t \in Threads(order), t \in Process \/ pc[t] = "waited"
             PROVE  Cardinality({r \in {"key", "time", "exit"} :
                                   \/ r = "key" /\ AwaitsKeyboard(t)
                                   \/ r = "time" /\ AwaitsTime(t)
                                   \/ r = "exit" /\ AwaitsExit(t)})
                      = (IF state[t] = "Wait" THEN 1 ELSE 0)
  BY DEF EveryWaiterHasOneWaker
<1> DEFINE reasons == {r \in {"key", "time", "exit"} :
                         \/ r = "key" /\ AwaitsKeyboard(t)
                         \/ r = "time" /\ AwaitsTime(t)
                         \/ r = "exit" /\ AwaitsExit(t)}
<1>2. /\ StatesFit(Threads(order), state, pc, target, wake_on_exit, waiting_for_keyboard)
      /\ WakersFit(Threads(order), unused, state, pc, target, wake_on_exit,
                   waiting_for_keyboard)
      /\ pc[Idle] = "run"
  BY DEF ExecInv, Family, OthersRest
<1>3. t \in Threads(order) \ {Idle} /\ t # NULL
  BY <1>1, <1>2
<1>4. ~AwaitsTime(t)
  BY DEF ExecInv, AwaitsTime, Linked
<1>5. AwaitsKeyboard(t) => pc[t] = "key" /\ state[t] = "Wait"
  BY <1>2, <1>3 DEF AwaitsKeyboard, WakersFit
<1>6. AwaitsExit(t) => pc[t] = "waited" /\ Busy(t, Threads(order), pc, target)
  BY <1>2, <1>3 DEF AwaitsExit, WakersFit, Busy, Awaiting
<1>7. AwaitsExit(t) => state[t] = "Wait"
  BY <1>2, <1>3, <1>6 DEF StatesFit
<1>8. state[t] = "Wait" => AwaitsKeyboard(t) \/ AwaitsExit(t)
  <2>1. state[t] = "Wait" =>
          \/ waiting_for_keyboard = t
          \/ pc[t] = "waited" /\ Busy(t, Threads(order), pc, target)
    BY <1>2, <1>3 DEF StatesFit
  <2>2. pc[t] = "waited" /\ Busy(t, Threads(order), pc, target) =>
          target[t] \in Threads(order) /\ wake_on_exit[target[t]] = t
    BY <1>2, <1>3 DEF StatesFit, Busy
  <2>3. QED BY <2>1, <2>2 DEF AwaitsKeyboard, AwaitsExit
<1>9. CASE state[t] = "Wait"
  <2>1. reasons = {"key"} \/ reasons = {"exit"}
    BY <1>4, <1>5, <1>6, <1>8, <1>9
  <2> HIDE DEF reasons
  <2>2. Cardinality(reasons) = 1
    BY <2>1, FS_Singleton
  <2>3. QED BY <1>9, <2>2 DEF reasons
<1>10. CASE state[t] = "Run"
  <2>1. reasons = {}
    BY <1>4, <1>5, <1>7, <1>10
  <2> HIDE DEF reasons
  <2>2. Cardinality(reasons) = 0
    BY <2>1, FS_EmptySet
  <2>3. QED BY <1>10, <2>2 DEF reasons
<1>11. QED BY <1>1, <1>9, <1>10

\* The family is there from the boot on, as long as the threads only exec.
LEMMA AlwaysFamily ==
  ASSUME OnlyExec
  PROVE  Spec => [](IInv /\ ExecInv)
<1>1. Assumptions
  BY TimeQueueAssumption, SchedulerAssumption, ThreadingAssumption DEF Assumptions
<1>2. Init => IInv /\ ExecInv
  BY <1>1, InitInvariant, FamilyStarts
<1>3. IInv /\ ExecInv /\ [Next]_vars => (IInv /\ ExecInv)'
  BY <1>1, OnlyExec, StepKeepsInvariant, StepKeepsFamily
<1>4. QED BY <1>2, <1>3, PTL DEF Spec

\* exec never trips over its own bookkeeping (exec(), wait_for_process(), remove_process()):
\* nobody ever waits twice for a process, and its exit info is there when the wait is over,
\* for any tree of processes and any interleaving of their ends with the timer's yields.
THEOREM ExecNeverPanics ==
  ASSUME OnlyExec
  PROVE  Spec => []NeverPanics
<1>1. ExecInv => NeverPanics
  BY DEF ExecInv, NeverPanics
<1>2. QED BY <1>1, AlwaysFamily, PTL

\* The yield of a thread that ends finds a successor, however many processes have exec'ed
\* each other: its parent has not given up the CPU for good (remove_current_thread()).
THEOREM ExitFindsSuccessor ==
  ASSUME OnlyExec
  PROVE  Spec => []EndingThreadLeavesSuccessor
<1>1. ExecInv => EndingThreadLeavesSuccessor
  BY DEF ExecInv, EndingThreadLeavesSuccessor
<1>2. QED BY <1>1, AlwaysFamily, PTL

\* switch_to() only ever loads a context that the last switch away from its thread saved,
\* or that start_process() made: of all threads only the current one's is in use.
THEOREM ExecContextsAreFresh ==
  ASSUME OnlyExec
  PROVE  Spec => []NeverLoadsStaleContext
<1>1. ExecInv => NeverLoadsStaleContext
  BY DEF ExecInv, NeverLoadsStaleContext
<1>2. QED BY <1>1, AlwaysFamily, PTL

\* A process, or whoever execs one, waits if and only if exactly one registration will wake
\* it: wake_on_exit of its child, or the keyboard's waiting thread. None is overwritten by
\* a second waiter, and none outlives the wait it was made for.
THEOREM EveryWaitEnds ==
  ASSUME OnlyExec
  PROVE  Spec => []EveryWaiterHasOneWaker
<1>1. Assumptions
  BY TimeQueueAssumption, SchedulerAssumption, ThreadingAssumption DEF Assumptions
<1>2. IInv /\ ExecInv => EveryWaiterHasOneWaker
  BY <1>1, FamilyHasOneWaker
<1>3. QED BY <1>2, AlwaysFamily, PTL
-----------------------------------------------------------------------------
(* The idle thread, while nobody sleeps: next() wakes a sleeper without making idle wait,  *)
(* so that with sleepers idle may stay runnable.                                           *)

NoSleepers == Sleepers = {}

\* Idle is never woken by anybody, and can run only while it does.
IdleInv ==
  /\ head = NULL
  /\ pc[Idle] = "run"
  /\ waiting_for_keyboard # Idle
  /\ \A t \in Thread : wake_on_exit[t] # Idle
  /\ halted = "no" /\ state[Idle] = "Run" => current = Idle

\* A step that gives the CPU to idle.
LastResort ==
  current' = Idle /\ current # Idle /\ halted' = "no" =>
    \A t \in Threads(order') \ {Idle} : state'[t] = "Wait"

\* A yield takes a runnable idle only from idle itself, and makes it runnable when the walk
\* over the list met nobody else.
LEMMA IdleYield ==
  ASSUME SchedulerTypeOK, SchedulerAssumption, head = NULL,
         NEW st \in [Thread -> {"Run", "Wait"}], st[Idle] = "Run" => current = Idle,
         order' \in Seq(Thread), NEW here, NEW tick \in BOOLEAN,
         Yield(st, order', here, tick)
  PROVE  /\ head' = NULL
         /\ halted' = "no" /\ state'[Idle] = "Run" => current' = Idle
         /\ LastResort
<1>1. /\ Threads(order') \subseteq Thread /\ Idle \in Thread /\ current \in Thread
  BY DEF Threads, SchedulerAssumption, SchedulerTypeOK
<1>2. head' = NULL /\ Walk(st, order', here, tick)
  BY DEF Yield, Due, queueVars
<1>3. CASE TakeTurn(st, order', here, tick)
  <2>1. PICK pos \in DOMAIN (order') :
          /\ FirstReady(order', here, Others(st), pos)
          /\ state' = IF order'[pos] # Idle /\ st[Idle] = "Run"
                      THEN [st EXCEPT ![Idle] = "Wait"]
                      ELSE st
          /\ SwitchTo(order'[pos], tick)
    BY <1>3 DEF TakeTurn
  <2>2. /\ order'[pos] \in Thread /\ order'[pos] # current /\ st[order'[pos]] = "Run"
    BY <2>1 DEF FirstReady, Others
  <2>3. order'[pos] # Idle
    BY <2>2
  <2>4. state'[Idle] = "Wait"
    BY <1>1, <2>1, <2>3
  <2>5. halted' = "no" => current' = order'[pos]
    BY <2>1 DEF SwitchTo
  <2>6. QED BY <1>2, <2>3, <2>4, <2>5 DEF LastResort
<1>4. CASE GoOn(st, tick)
  BY <1>2, <1>4 DEF GoOn, LastResort
<1>5. CASE NoneReady(order', Others(st)) /\ GoIdle(st, tick)
  <2>1. state' = [st EXCEPT ![Idle] = "Run"] /\ SwitchTo(Idle, tick) /\ st[current] # "Run"
    BY <1>5 DEF GoIdle
  <2>2. halted' = "no" => current' = Idle
    BY <2>1 DEF SwitchTo
  <2>3. \A t \in Threads(order') : t \in Thread /\ st[t] # "Run"
    BY <1>1, <1>5, <2>1 DEF NoneReady, Others
  <2>4. \A t \in Threads(order') \ {Idle} : state'[t] = "Wait"
    BY <2>1, <2>3
  <2>5. QED BY <1>2, <2>2, <2>4 DEF LastResort
<1>6. CASE WalkForEver(st)
  BY <1>2, <1>6 DEF WalkForEver, LastResort
<1>7. QED BY <1>2, <1>3, <1>4, <1>5, <1>6 DEF Walk

\* What does not switch.
LEMMA IdleStays ==
  ASSUME IdleInv, UNCHANGED <<head, current>>,
         pc'[Idle] = pc[Idle], waiting_for_keyboard' \in {waiting_for_keyboard, NULL},
         wake_on_exit' = wake_on_exit, halted' = halted \/ halted' # "no",
         state'[Idle] = state[Idle], Idle # NULL
  PROVE  IdleInv' /\ LastResort
<1>1. IdleInv'
  BY DEF IdleInv
<1>2. LastResort
  BY DEF LastResort
<1>3. QED BY <1>1, <1>2

\* A thread other than idle waits, or ends, and the yield that goes with it.
LEMMA IdleSwitches ==
  ASSUME IInv, IInv', IdleInv, Assumptions, halted = "no",
         NEW st \in [Thread -> {"Run", "Wait"}], st[Idle] = "Run" => current = Idle,
         NEW here, NEW tick \in BOOLEAN, Yield(st, order', here, tick),
         pc'[Idle] = "run", waiting_for_keyboard' # Idle,
         \A t \in Thread : wake_on_exit'[t] # Idle
  PROVE  IdleInv' /\ LastResort
<1>1. SchedulerTypeOK /\ order' \in Seq(Thread) /\ SchedulerAssumption /\ head = NULL
  BY DEF IInv, TypeOK, SchedulerTypeOK, Assumptions, IdleInv
<1>2. /\ head' = NULL
      /\ halted' = "no" /\ state'[Idle] = "Run" => current' = Idle
      /\ LastResort
  BY <1>1, IdleYield
<1>3. QED BY <1>2 DEF IdleInv

LEMMA IdleStep ==
  ASSUME IInv, IInv', IdleInv, Assumptions, NoSleepers, [Next]_vars
  PROVE  IdleInv' /\ LastResort
<1>1. /\ Idle \in Thread /\ Idle # NULL /\ Idle # Boot /\ Idle \notin Process
      /\ Idle \notin KernelThread /\ KeyReaders \subseteq Process /\ Boot \in Thread
      /\ KernelThread \subseteq Thread
  BY DEF Assumptions, SchedulerAssumption, TimeQueueAssumption, ThreadingAssumption
<1>2. /\ state \in [Thread -> {"Run", "Wait"}] /\ pc \in [Thread -> Points]
      /\ wake_on_exit \in [Thread -> Thread \cup {NULL}]
      /\ target \in [Thread -> Thread \cup {NULL}]
      /\ waiting_for_keyboard \in Thread \cup {NULL}
  BY DEF IInv, TypeOK, SchedulerTypeOK
<1>3. ASSUME NEW t \in Thread, Running(t), t # Idle
      PROVE  state[Idle] = "Wait" /\ halted = "no" /\ current = t
  BY <1>1, <1>2, <1>3 DEF IdleInv, Running
<1>4. ASSUME YieldFrom(state, TRUE) \/ YieldFrom(state, FALSE), halted = "no",
             order' = order, pc'[Idle] = "run",
             UNCHANGED <<waiting_for_keyboard, wake_on_exit>>
      PROVE  IdleInv' /\ LastResort
  <2>1. state[Idle] = "Run" => current = Idle
    BY <1>4 DEF IdleInv
  <2>2. waiting_for_keyboard' # Idle /\ \A t \in Thread : wake_on_exit'[t] # Idle
    BY <1>4 DEF IdleInv
  <2>3. CASE YieldFrom(state, TRUE)
    BY <1>2, <1>4, <2>1, <2>2, <2>3, IdleSwitches DEF YieldFrom
  <2>4. CASE YieldFrom(state, FALSE)
    BY <1>2, <1>4, <2>1, <2>2, <2>4, IdleSwitches DEF YieldFrom
  <2>5. QED BY <1>4, <2>3, <2>4
<1>5. ASSUME NEW t \in Thread, Running(t), t # Idle, NEW x, NEW found,
             AwaitExit(t, x, found), order' = order, pc'[Idle] = "run",
             UNCHANGED waiting_for_keyboard
      PROVE  IdleInv' /\ LastResort
  <2>1. state[Idle] = "Wait" /\ halted = "no" /\ current = t
    BY <1>3, <1>5
  <2>2. CASE Halt("panic") /\ UNCHANGED <<wake_on_exit, queueVars>>
    BY <1>1, <1>5, <2>2, IdleStays DEF Halt, queueVars, IdleInv
  <2>3. CASE /\ wake_on_exit' = [wake_on_exit EXCEPT ![x] = t]
             /\ YieldFrom([state EXCEPT ![t] = "Wait"], FALSE)
    <3> DEFINE st == [state EXCEPT ![t] = "Wait"]
    <3>1. st \in [Thread -> {"Run", "Wait"}] /\ st[Idle] = "Wait"
      BY <1>2, <1>1, <2>1, <1>5
    <3>2. \A u \in Thread : wake_on_exit'[u] # Idle
      BY <1>2, <1>5, <2>3 DEF IdleInv
    <3>3. waiting_for_keyboard' # Idle
      BY <1>5 DEF IdleInv
    <3>4. Yield(st, order', Position(order, current), FALSE)
      BY <1>5, <2>3 DEF YieldFrom
    <3> HIDE DEF st
    <3>5. QED BY <1>5, <2>1, <3>1, <3>2, <3>3, <3>4, IdleSwitches
  <2>4. CASE UNCHANGED <<state, current, context, preempted, in_tick, halted,
                         wake_on_exit, queueVars>>
    BY <1>1, <1>5, <2>4, IdleStays DEF queueVars, IdleInv
  <2>5. QED BY <1>5, <2>2, <2>3, <2>4 DEF AwaitExit
<1>6. ASSUME NEW t \in Thread, Running(t), t # Idle, RemoveCurrentThread(t)
      PROVE  IdleInv' /\ LastResort
  <2>1. state[Idle] = "Wait" /\ halted = "no" /\ current = t
    BY <1>3, <1>6
  <2>2. Woken(t) \in [Thread -> {"Run", "Wait"}] /\ Woken(t)[Idle] = "Wait"
    <3>1. wake_on_exit[t] # Idle
      BY DEF IdleInv
    <3>2. QED BY <1>1, <1>2, <2>1, <3>1 DEF Woken
  <2>3. /\ Yield(Woken(t), order', Position(order, t) - 1, FALSE)
        /\ pc' = [pc EXCEPT ![t] = "gone"]
        /\ UNCHANGED <<waiting_for_keyboard, wake_on_exit>>
    BY <1>6 DEF RemoveCurrentThread, keyVars
  <2>4. /\ pc'[Idle] = "run" /\ waiting_for_keyboard' # Idle
        /\ \A u \in Thread : wake_on_exit'[u] # Idle
    BY <1>1, <1>2, <1>6, <2>3 DEF IdleInv
  <2>5. QED BY <2>1, <2>2, <2>3, <2>4, IdleSwitches
<1>7. CASE UNCHANGED vars
  BY <1>1, <1>7, IdleStays DEF vars, listVars, switchVars, keyVars, waitVars, queueVars
<1>8. CASE Tick
  BY <1>4, <1>8 DEF Tick, TimerInterrupt, listVars, keyVars, waitVars, IdleInv
<1>9. CASE KeyboardEvent
  <2>1. state'[Idle] = state[Idle]
    BY <1>1, <1>2, <1>9 DEF KeyboardEvent, WakeKeyReader, IdleInv
  <2>2. QED
    BY <1>1, <1>9, <2>1, IdleStays DEF KeyboardEvent, WakeKeyReader, waitVars, queueVars
<1>10. CASE Elapse
  BY <1>1, <1>10, IdleStays DEF Elapse, listVars, switchVars, keyVars, waitVars, queueVars
<1>11. ASSUME NEW t \in Thread, GetKey(t) PROVE IdleInv' /\ LastResort
  <2>1. t # Idle /\ UNCHANGED <<head, current, waiting_for_keyboard, wake_on_exit, halted, state>>
    BY <1>1, <1>11 DEF GetKey, waitVars, queueVars
  <2>2. pc' = [pc EXCEPT ![t] = "run"] \/ pc' = [pc EXCEPT ![t] = "key_gap"]
    BY <1>11 DEF GetKey
  <2>3. pc'[Idle] = pc[Idle]
    BY <1>1, <1>2, <2>1, <2>2
  <2>4. QED BY <1>1, <2>1, <2>3, IdleStays
<1>12. ASSUME NEW t \in Thread, Running(t), pc[t] # "run" PROVE t # Idle
  BY <1>12 DEF IdleInv
<1>13. ASSUME NEW t \in Thread, KernelStep(t) PROVE IdleInv' /\ LastResort
  <2>1. CASE WaitForProcess(t)
    <3>1. /\ Running(t) /\ t # Idle /\ order' = order
          /\ UNCHANGED waiting_for_keyboard
          /\ pc' = [pc EXCEPT ![t] = "waited"]
          /\ AwaitExit(t, target[t], target[t] \in Threads(order))
      BY <1>12, <2>1 DEF WaitForProcess, listVars, keyVars
    <3>2. pc'[Idle] = "run"
      BY <1>2, <3>1 DEF IdleInv
    <3>3. QED BY <1>5, <3>1, <3>2
  <2>2. CASE ExecReturns(t)
    <3>1. /\ t # Idle /\ pc'[Idle] = pc[Idle]
          /\ UNCHANGED <<waiting_for_keyboard, wake_on_exit, head>>
      BY <1>2, <1>12, <2>2 DEF ExecReturns, listVars, keyVars, waitVars, queueVars
    <3>2. state' = state /\ current' = current /\ (halted' = halted \/ halted' # "no")
      BY <2>2 DEF ExecReturns, Halt
    <3>3. QED BY <1>1, <3>1, <3>2, IdleStays
  <2>3. CASE EnterThread(t)
    <3>1. pc'[Idle] = pc[Idle]
      BY <1>2, <1>12, <2>3 DEF EnterThread
    <3>2. QED BY <1>1, <2>3, <3>1, IdleStays DEF EnterThread, switchVars, keyVars, waitVars, queueVars
  <2>4. CASE GetKey(t)
    BY <1>11, <2>4
  <2>5. CASE WaitForKeyboard(t)
    <3> DEFINE st == [state EXCEPT ![t] = "Wait"]
    <3>1. /\ Running(t) /\ t # Idle /\ pc' = [pc EXCEPT ![t] = "key"] /\ waiting_for_keyboard' = t
          /\ wake_on_exit' = wake_on_exit /\ order' = order
          /\ Yield(st, order', Position(order, current), FALSE)
      BY <1>12, <2>5 DEF WaitForKeyboard, listVars, waitVars, YieldFrom
    <3>2. halted = "no" /\ st \in [Thread -> {"Run", "Wait"}] /\ st[Idle] = "Wait"
      BY <1>1, <1>2, <1>3, <3>1
    <3>3. pc'[Idle] = "run" /\ \A u \in Thread : wake_on_exit'[u] # Idle
      BY <1>2, <3>1 DEF IdleInv
    <3> HIDE DEF st
    <3>4. QED BY <3>1, <3>2, <3>3, IdleSwitches
  <2>6. CASE SleepYield(t)
    <3>1. pc'[Idle] = "run" /\ halted = "no"
      BY <1>2, <2>6 DEF SleepYield, Running, IdleInv
    <3>2. QED BY <1>4, <2>6, <3>1 DEF SleepYield, listVars, keyVars, waitVars
  <2>7. QED BY <1>13, <2>1, <2>2, <2>3, <2>4, <2>5, <2>6 DEF KernelStep
<1>14. ASSUME NEW t \in Thread, ProgramStep(t) PROVE IdleInv' /\ LastResort
  <2>1. CASE SyscallYield(t)
    BY <1>4, <2>1 DEF SyscallYield, Running, listVars, keyVars, waitVars, IdleInv
  <2>2. ASSUME NEW p \in Process, StartProcess(t, p) PROVE IdleInv' /\ LastResort
    <3>1. /\ t # Idle /\ Running(t) /\ SwitchTo(p, FALSE) /\ p # Idle
          /\ pc' = [pc EXCEPT ![t] = "started"]
          /\ UNCHANGED <<state, waiting_for_keyboard, wake_on_exit, head>>
      BY <1>1, <2>2 DEF StartProcess, keyVars, queueVars
    <3>2. state[Idle] = "Wait" /\ pc'[Idle] = "run"
      BY <1>2, <1>3, <3>1 DEF IdleInv
    <3>3. current' = p \/ halted' # "no"
      BY <3>1 DEF SwitchTo
    <3>4. QED BY <3>1, <3>2, <3>3 DEF IdleInv, LastResort
  <2>3. CASE ExitProcess(t)
    BY <1>1, <1>6, <2>3 DEF ExitProcess
  <2>4. CASE EndKernelThread(t)
    BY <1>1, <1>6, <2>4 DEF EndKernelThread
  <2>5. ASSUME NEW k \in KernelThread, InsertThread(t, k) PROVE IdleInv' /\ LastResort
    <3>1. pc'[Idle] = pc[Idle]
      BY <1>1, <1>2, <2>5 DEF InsertThread
    <3>2. QED BY <1>1, <2>5, <3>1, IdleStays DEF InsertThread, switchVars, keyVars, queueVars
  <2>6. ASSUME NEW k \in KernelThread, WaitForThread(t, k) PROVE IdleInv' /\ LastResort
    <3>1. /\ Running(t) /\ t # Idle /\ AwaitExit(t, k, k \in thread_list)
          /\ order' = order /\ UNCHANGED <<waiting_for_keyboard, pc>>
      BY <1>1, <2>6 DEF WaitForThread, listVars, keyVars
    <3>2. pc'[Idle] = "run"
      BY <3>1 DEF IdleInv
    <3>3. QED BY <1>5, <3>1, <3>2
  <2>7. CASE GetKey(t)
    BY <1>11, <2>7
  <2>8. CASE \E d \in Durations : Sleep(t, d)
    BY <2>8 DEF Sleep, NoSleepers
  <2>9. QED
    BY <1>14, <2>1, <2>2, <2>3, <2>4, <2>5, <2>6, <2>7, <2>8 DEF ProgramStep
<1>15. QED BY <1>7, <1>8, <1>9, <1>10, <1>13, <1>14 DEF Next, Stopped

LEMMA IdleStarts ==
  ASSUME Assumptions, Init
  PROVE  IdleInv
<1>1. Idle \in Thread /\ Idle # NULL
  BY DEF Assumptions, SchedulerAssumption, TimeQueueAssumption
<1>2. QED BY <1>1 DEF Init, QueueInit, IdleInv

\* next() returns the idle thread only when the whole walk found nobody else: with any
\* number of processes, kernel threads and waits, idle never takes the CPU from a thread
\* that can use it, as long as no thread sleeps.
THEOREM IdleComesLast ==
  ASSUME NoSleepers
  PROVE  Spec => IdleIsLastResort
<1>1. Assumptions
  BY TimeQueueAssumption, SchedulerAssumption, ThreadingAssumption DEF Assumptions
<1>2. Init => IInv /\ IdleInv
  BY <1>1, InitInvariant, IdleStarts
<1>3. IInv /\ IdleInv /\ [Next]_vars => IInv' /\ IdleInv' /\ LastResort
  BY <1>1, NoSleepers, StepKeepsInvariant, IdleStep
<1>4. LastResort =>
        (current' = Idle /\ current # Idle /\ halted' = "no" =>
           \A t \in Threads(order') \ {Idle} : state'[t] = "Wait")
  BY DEF LastResort
<1>5. QED BY <1>2, <1>3, <1>4, PTL DEF Spec, IdleIsLastResort

-----------------------------------------------------------------------------
(* Semaphore: wait() and signal() exclude each other *)

\* The exclusion is inductive together with its reason: the thread inside holds
\* the lock.
SemInv ==
  /\ locked \in [Lock \cup {SemLock} -> BOOLEAN]
  /\ at \in [Thread -> Stages]
  /\ SemaphoreExclusion
  /\ \A t \in KernelThread : at[t] \in Section => locked[SemLock]

\* What any step that does not take or release the lock has to respect.
LEMMA MoveKeepsExclusion ==
  ASSUME SemInv, NEW t \in KernelThread, KernelThread \subseteq Thread,
         NEW stage \in Stages, at' = [at EXCEPT ![t] = stage],
         stage \in Section => at[t] \in Section,
         locked' \in [Lock \cup {SemLock} -> BOOLEAN],
         locked'[SemLock] = locked[SemLock]
  PROVE  SemInv'
<1>1. \A u \in KernelThread : at'[u] \in Section => at[u] \in Section
  BY DEF SemInv
<1>2. at' \in [Thread -> Stages]
  BY DEF SemInv
<1>3. SemaphoreExclusion'
  BY <1>1 DEF SemInv, SemaphoreExclusion
<1>4. QED BY <1>1, <1>2, <1>3 DEF SemInv

\* spin_lock() lets a thread in only when nobody is inside ...
LEMMA AcquireKeepsExclusion ==
  ASSUME SemInv, NEW t \in KernelThread, KernelThread \subseteq Thread,
         NEW stage \in Stages, Acquire(SemLock), at' = [at EXCEPT ![t] = stage]
  PROVE  SemInv'
<1>1. \A u \in KernelThread : at[u] \notin Section
  BY DEF SemInv, Acquire
<1>2. /\ locked' \in [Lock \cup {SemLock} -> BOOLEAN]
      /\ locked'[SemLock] = TRUE
      /\ at' \in [Thread -> Stages]
  BY DEF SemInv, Acquire
<1>3. SemaphoreExclusion'
  BY <1>1 DEF SemInv, SemaphoreExclusion
<1>4. QED BY <1>2, <1>3 DEF SemInv

\* ... and unlock() is the way out of the one that is.
LEMMA ReleaseKeepsExclusion ==
  ASSUME SemInv, NEW t \in KernelThread, KernelThread \subseteq Thread,
         at[t] \in Section, NEW stage \in Stages \ Section,
         Release(SemLock), at' = [at EXCEPT ![t] = stage]
  PROVE  SemInv'
<1>1. \A u \in KernelThread : at'[u] \notin Section
  BY DEF SemInv, SemaphoreExclusion
<1>2. /\ locked' \in [Lock \cup {SemLock} -> BOOLEAN]
      /\ at' \in [Thread -> Stages]
  BY DEF SemInv, Release
<1>3. QED BY <1>1, <1>2 DEF SemInv, SemaphoreExclusion

\* The lock of a program's own lock or unlock is not the semaphore's.
LEMMA OtherLock ==
  ASSUME SemaphoreAssumption, NEW t \in KernelThread, NEW stage,
         AtStage(t, {"lock"}, stage) \/ AtStage(t, {"spin_lock"}, stage)
           \/ AtStage(t, {"unlock"}, stage)
  PROVE  /\ Program[t][ip[t]].lock \in Lock
         /\ Program[t][ip[t]].lock # SemLock
<1>1. /\ ip[t] \in DOMAIN Program[t]
      /\ Program[t][ip[t]].op \notin {"wait", "signal"}
      /\ Program[t] \in Seq([op : Op, lock : Lock \cup {SemLock}])
  BY DEF AtStage, SemaphoreAssumption
<1>2. Program[t][ip[t]] \in [op : Op, lock : Lock \cup {SemLock}]
  <2>1. ASSUME NEW Instruction, NEW p \in Seq(Instruction), NEW i \in DOMAIN p
        PROVE  p[i] \in Instruction
    OBVIOUS
  <2>2. QED BY <1>1, <2>1, Zenon
<1>3. \A u \in KernelThread : \A i \in DOMAIN Program[u] :
        Program[u][i].lock = SemLock => Program[u][i].op \in {"wait", "signal"}
  BY Zenon DEF SemaphoreAssumption
<1>4. Program[t][ip[t]].lock # SemLock
  BY <1>1, <1>3
<1>5. QED BY <1>2, <1>4

LEMMA StepKeepsExclusion ==
  ASSUME SemInv, SemaphoreAssumption, ThreadingAssumption, [SyncNext]_allVars
  PROVE  SemInv'
<1> USE DEF Section, Stages
<1>0. KernelThread \subseteq Thread /\ Boot \in Thread \ KernelThread
  BY DEF ThreadingAssumption
<1>1. CASE UNCHANGED <<locked, at>>
  BY <1>1 DEF SemInv, SemaphoreExclusion
<1>2. ASSUME NEW t \in KernelThread, ThreadStep(t) PROVE SemInv'
  <2>1. ASSUME NEW l \in Lock, l # SemLock, Acquire(l) \/ Release(l), Returns(t)
        PROVE  SemInv'
    <3>1. /\ locked' \in [Lock \cup {SemLock} -> BOOLEAN]
          /\ locked'[SemLock] = locked[SemLock]
      <4>1. locked \in [Lock \cup {SemLock} -> BOOLEAN]
        BY DEF SemInv
      <4>2. CASE locked' = [locked EXCEPT ![l] = TRUE]
        BY <2>1, <4>1, <4>2
      <4>3. CASE locked' = [locked EXCEPT ![l] = FALSE]
        BY <2>1, <4>1, <4>3
      <4>4. QED BY <2>1, <4>2, <4>3 DEF Acquire, Release
    <3>2. QED BY <1>0, <2>1, <3>1, MoveKeepsExclusion DEF Returns
  <2>2. CASE LockOrPanic(t)
    BY <1>1, <2>1, <2>2, OtherLock DEF LockOrPanic, PanicsAt, syncVars
  <2>3. CASE SpinLock(t)
    BY <2>1, <2>3, OtherLock DEF SpinLock
  <2>4. CASE Unlock(t)
    BY <1>1, <2>1, <2>4, OtherLock DEF Unlock, PanicsAt, syncVars
  <2>5. CASE WaitLock(t) \/ SignalLock(t)
    BY <1>0, <2>5, AcquireKeepsExclusion DEF WaitLock, SignalLock, Moves
  <2>6. CASE WaitUnlock(t) \/ ReleaseAndReturn(t)
    <3>1. at[t] \in Section /\ Release(SemLock)
      BY <2>6 DEF WaitUnlock, ReleaseAndReturn, AtStage
    <3>2. \E stage \in Stages \ Section : at' = [at EXCEPT ![t] = stage]
      BY <2>6 DEF WaitUnlock, ReleaseAndReturn, Moves, Returns
    <3>3. QED BY <1>0, <3>1, <3>2, ReleaseKeepsExclusion
  <2>7. ASSUME NEW stage \in Stages, stage \in Section => at[t] \in Section,
               at' = [at EXCEPT ![t] = stage], UNCHANGED locked
        PROVE  SemInv'
    BY <1>0, <2>7, MoveKeepsExclusion DEF SemInv
  <2>8. CASE WaitTake(t) \/ WaitQueue(t) \/ WaitStops(t)
    BY <2>7, <2>8 DEF WaitTake, WaitQueue, WaitStops, AtStage, Moves
  <2>9. CASE WaitYield(t) \/ WaitWakes(t)
    BY <2>7, <2>9 DEF WaitYield, WaitWakes, Moves, Returns
  <2>10. CASE SignalAdd(t) \/ SignalPop(t)
    BY <1>1, <2>7, <2>10 DEF SignalAdd, SignalPop, AtStage, Moves
  <2>11. CASE EndThread(t)
    BY <1>1, <2>11 DEF EndThread, syncVars
  <2>12. QED
    BY <1>2, <2>2, <2>3, <2>4, <2>5, <2>6, <2>8, <2>9, <2>10, <2>11 DEF ThreadStep
<1>3. CASE BootWaits
  <2>1. /\ UNCHANGED locked /\ at' = [at EXCEPT ![Boot] = "start"]
    BY <1>3 DEF BootWaits, Returns
  <2>2. QED BY <1>0, <2>1 DEF SemInv, SemaphoreExclusion
<1>4. CASE Preempt
  BY <1>1, <1>4 DEF Preempt, syncVars
<1>5. QED BY <1>1, <1>2, <1>3, <1>4 DEF SyncNext, allVars, syncVars

\* At first nobody is inside.
LEMMA ExclusionStarts == ASSUME SyncInit PROVE SemInv
<1>1. locked \in [Lock \cup {SemLock} -> BOOLEAN]
  <2>1. \A l \in Lock \cup {SemLock} : (l \in LockedAtStart) \in BOOLEAN
    OBVIOUS
  <2>2. [l \in Lock \cup {SemLock} |-> l \in LockedAtStart] \in [Lock \cup {SemLock} -> BOOLEAN]
    BY <2>1, Zenon
  <2>3. QED BY <2>2, Zenon DEF SyncInit
<1>2. at \in [Thread -> Stages] /\ \A t \in Thread : at[t] \notin Section
  BY DEF SyncInit, Section, Stages
<1>3. KernelThread \subseteq Thread
  BY ThreadingAssumption DEF ThreadingAssumption
<1>4. QED BY <1>1, <1>2, <1>3 DEF SemInv, SemaphoreExclusion

\* wait() and signal() exclude each other on a semaphore, for any programs and
\* wherever they are preempted.
THEOREM SemaphoreIsExclusive == SyncSpec => []SemaphoreExclusion
<1>1. SyncInit => SemInv
  BY ExclusionStarts
<1>2. SemInv /\ [SyncNext]_allVars => SemInv'
  BY StepKeepsExclusion, SemaphoreAssumption, ThreadingAssumption
<1>3. SemInv => SemaphoreExclusion
  BY DEF SemInv
<1>4. QED BY <1>1, <1>2, <1>3, PTL DEF SyncSpec

-----------------------------------------------------------------------------
(* Semaphore: no wake-up is lost *)

\* The Manager's part: who runs is in the system list, each thread once, nobody
\* sleeps on the time queue, and only the boot thread waits for ends.
ManagerInv ==
  /\ TypeOK
  /\ Idle \in Threads(order) /\ NoDuplicates(order) /\ thread_list = Threads(order)
  /\ head = NULL /\ \A s \in Slot : elements[s].tid = NULL
  /\ \A t \in Thread : wake_on_exit[t] \in {NULL, Boot}

\* A thread that is on its way out of wait() gives the CPU away before it returns.
CpuInv ==
  halted = "no" =>
    /\ current \in thread_list
    /\ state[current] = "Run" \/ (current \in KernelThread /\ at[current] \in {"asleep", "yield"})

\* A thread is in the queue from push_back() until signal() pops it, once, and it
\* cannot end in between, so that signal() never passes over it.
QueueInv ==
  /\ NoDuplicates(queue)
  /\ \A t \in KernelThread :
       /\ t \in Threads(queue) <=> at[t] = "queued" \/ state[t] = "Wait"
       /\ state[t] = "Wait" => at[t] \in {"asleep", "yield", "blocked"}
       /\ at[t] # "start" => t \in thread_list /\ ip[t] \in DOMAIN Program[t]

OperationTypes ==
  /\ value \in 0..MaxValue
  /\ queue \in Seq(KernelThread)
  /\ ip \in [Thread -> Nat]

SyncInv == SemInv /\ ManagerInv /\ CpuInv /\ OperationTypes /\ QueueInv
\* Popping the first of a queue takes it out and nothing else.
LEMMA TailThread ==
  ASSUME NEW S, NEW list \in Seq(S), NoDuplicates(list), list # <<>>
  PROVE  /\ Tail(list) \in Seq(S)
         /\ Head(list) \in S
         /\ Head(list) \in Threads(list)
         /\ Threads(Tail(list)) = Threads(list) \ {Head(list)}
         /\ NoDuplicates(Tail(list))
<1> DEFINE rest == Tail(list)
           n == Len(list)
<1>1. /\ n \in Nat \ {0} /\ DOMAIN list = 1..n
      /\ rest \in Seq(S) /\ DOMAIN rest = 1..(n - 1)
      /\ \A i \in 1..(n - 1) : rest[i] = list[i + 1]
      /\ Head(list) = list[1] /\ list[1] \in S
  <2>1. n \in Nat /\ n # 0 /\ DOMAIN list = 1..n /\ Head(list) = list[1]
    OBVIOUS
  <2>2. rest \in Seq(S) /\ Len(rest) = n - 1 /\ \A i \in 1..Len(rest) : rest[i] = list[i + 1]
    BY HeadTailProperties
  <2>3. 1 \in DOMAIN list
    BY <2>1
  <2>4. list[1] \in S
    BY <2>3
  <2>5. DOMAIN rest = 1..Len(rest)
    BY <2>2, LenProperties
  <2>6. QED BY <2>1, <2>2, <2>4, <2>5
<1> HIDE DEF rest, n
<1>2. NoDuplicates(rest)
  <2>1. ASSUME NEW i \in 1..(n - 1), NEW k \in 1..(n - 1), rest[i] = rest[k] PROVE i = k
    <3>1. i + 1 \in DOMAIN list /\ k + 1 \in DOMAIN list /\ list[i + 1] = list[k + 1]
      BY <1>1, <2>1
    <3>2. i + 1 = k + 1
      BY <3>1 DEF NoDuplicates
    <3>3. QED BY <1>1, <3>2
  <2>2. QED BY <1>1, <2>1 DEF NoDuplicates
<1>3. Head(list) \in Threads(list)
  BY <1>1 DEF Threads
<1>4. Threads(rest) = Threads(list) \ {Head(list)}
  <2>1. ASSUME NEW x \in Threads(rest) PROVE x \in Threads(list) \ {Head(list)}
    <3>1. PICK i \in 1..(n - 1) : rest[i] = x
      BY <1>1 DEF Threads
    <3>2. i + 1 \in DOMAIN list /\ i + 1 # 1 /\ 1 \in DOMAIN list /\ list[i + 1] = x
      BY <1>1, <3>1
    <3>3. QED BY <1>1, <3>2 DEF Threads, NoDuplicates
  <2>2. ASSUME NEW x \in Threads(list) \ {Head(list)} PROVE x \in Threads(rest)
    <3>1. PICK i \in 1..n : list[i] = x
      BY <1>1 DEF Threads
    <3>2. i - 1 \in 1..(n - 1) /\ list[(i - 1) + 1] = x
      BY <1>1, <3>1
    <3>3. QED BY <1>1, <3>2 DEF Threads
  <2>3. QED BY <2>1, <2>2
<1>5. QED BY <1>1, <1>2, <1>3, <1>4 DEF rest

\* While nobody sleeps, a yield leaves all threads but idle in the state that
\* they are in.
LEMMA SleeplessYield ==
  ASSUME head = NULL, SchedulerAssumption, NEW st \in [Thread -> {"Run", "Wait"}],
         NEW list, NEW here, NEW tick, Yield(st, list, here, tick)
  PROVE  UNCHANGED queueVars /\ \A u \in Thread \ {Idle} : state'[u] = st[u]
<1>1. UNCHANGED queueVars /\ Walk(st, list, here, tick)
  BY DEF Yield, Due
<1>2. state' = st \/ (\E s \in {"Run", "Wait"} : state' = [st EXCEPT ![Idle] = s])
  BY <1>1 DEF Walk, TakeTurn, GoOn, GoIdle, WalkForEver
<1>3. QED BY <1>1, <1>2

\* What a yield leaves of the Manager's part: from a list that thread_list agrees
\* with it picks a thread of the list that can run.
LEMMA YieldKeepsManager ==
  ASSUME ManagerInv, Assumptions, NEW st \in [Thread -> {"Run", "Wait"}],
         NEW list \in Seq(Thread), NEW here, NEW tick \in BOOLEAN,
         Idle \in Threads(list), thread_list' = Threads(list),
         Yield(st, list, here, tick)
  PROVE  /\ CpuTypeOK' /\ QueueTypeOK' /\ UNCHANGED queueVars
         /\ halted' = "no" => current' \in Threads(list) /\ state'[current'] = "Run"
         /\ \A u \in KernelThread : state'[u] = st[u]
<1>1. /\ SchedulerTypeOK /\ head = NULL
      /\ SchedulerAssumption /\ TimeQueueAssumption /\ ThreadingAssumption
      /\ \A s \in Slot : elements[s].tid \in Process \cup {NULL}
  BY DEF ManagerInv, TypeOK, Assumptions
<1>2. thread_list' \in SUBSET Thread /\ thread_list' \cap Process \subseteq Threads(list)
  BY DEF Threads
<1>3. /\ CpuTypeOK' /\ QueueTypeOK'
      /\ halted' = "no" => current' \in Threads(list) /\ state'[current'] = "Run"
  BY <1>1, <1>2, YieldResult
<1>4. UNCHANGED queueVars /\ \A u \in Thread \ {Idle} : state'[u] = st[u]
  BY <1>1, SleeplessYield
<1>5. QED BY <1>1, <1>3, <1>4 DEF ThreadingAssumption
\* The Manager's part does not notice a step that leaves its variables alone, or
\* that only ends in a panic.
LEMMA ManagerStays ==
  ASSUME ManagerInv, UNCHANGED vars \/ (\E l, b : PanicsAt(l, b))
  PROVE  ManagerInv'
<1>1. /\ UNCHANGED <<listVars, state, current, context, interrupts, preempted, in_tick,
                     keyVars, waitVars, queueVars, pc, now>>
      /\ halted' \in {halted, "panic"}
  BY DEF PanicsAt, vars, switchVars
<1>2. QueueTypeOK'
  BY <1>1 DEF ManagerInv, TypeOK, SchedulerTypeOK, QueueTypeOK, queueVars
<1>3. SchedulerTypeOK'
  BY <1>1, <1>2 DEF ManagerInv, TypeOK, SchedulerTypeOK, listVars, Endings
<1>4. TypeOK'
  BY <1>1, <1>3 DEF ManagerInv, TypeOK, listVars, keyVars, waitVars
<1>5. QED BY <1>1, <1>4 DEF ManagerInv, listVars, queueVars, waitVars

\* What a thread that has the CPU is, in its own program.
LEMMA RunnerStands ==
  ASSUME SyncInv, Assumptions, NEW t \in KernelThread, Running(t)
  PROVE  /\ t = current /\ halted = "no" /\ t \in Thread \ {Idle, Boot} /\ t \in thread_list
         /\ state[t] = "Run" \/ at[t] \in {"asleep", "yield"}
BY DEF SyncInv, CpuInv, Running, Assumptions, ThreadingAssumption

\* A step of a thread inside an operation, by which the threads' states, the queue
\* and the system list stay as they are.
LEMMA PlainStep ==
  ASSUME SyncInv, Assumptions, NEW t \in KernelThread, Running(t), UNCHANGED <<vars, queue>>,
         NEW stage \in Stages, at' = [at EXCEPT ![t] = stage],
         \A u \in Thread : ip'[u] = ip[u] \/ (u = t /\ stage = "start"),
         ip[t] \in DOMAIN Program[t],
         at[t] # "queued" /\ stage # "queued",
         at[t] \in {"asleep", "yield"} <=> stage = "yield"
  PROVE  ManagerInv' /\ CpuInv' /\ QueueInv'
<1>1. ManagerInv'
  BY ManagerStays DEF SyncInv
<1>2. /\ t = current /\ halted = "no" /\ t \in Thread /\ t \in thread_list
      /\ state[t] = "Run" \/ at[t] \in {"asleep", "yield"}
      /\ UNCHANGED <<state, current, halted, thread_list>>
      /\ at \in [Thread -> Stages]
      /\ KernelThread \subseteq Thread
  BY RunnerStands DEF vars, switchVars, listVars, SyncInv, SemInv, Assumptions, ThreadingAssumption
<1>3. at'[t] = stage /\ \A u \in Thread \ {t} : at'[u] = at[u]
  BY <1>2
<1>4. CpuInv'
  BY <1>2, <1>3 DEF SyncInv, CpuInv
<1>5. ASSUME NEW u \in KernelThread
      PROVE  /\ u \in Threads(queue) <=> at'[u] = "queued" \/ state[u] = "Wait"
             /\ state[u] = "Wait" => at'[u] \in {"asleep", "yield", "blocked"}
             /\ at'[u] # "start" => u \in thread_list /\ ip'[u] \in DOMAIN Program[u]
  <2>1. CASE u = t
    <3>1. at'[u] # "start" => ip'[u] = ip[u]
      BY <1>2, <1>3, <2>1
    <3>2. QED BY <1>2, <1>3, <2>1, <3>1 DEF SyncInv, QueueInv
  <2>2. CASE u # t
    BY <1>2, <1>3, <2>2 DEF SyncInv, QueueInv
  <2>3. QED BY <2>1, <2>2
<1>6. QueueInv'
  BY <1>2, <1>5 DEF SyncInv, QueueInv
<1>7. QED BY <1>1, <1>4, <1>6
\* The steps that only move a thread on.
LEMMA PlainSteps ==
  ASSUME SyncInv, Assumptions, NEW t \in KernelThread,
         \/ LockOrPanic(t) \/ SpinLock(t) \/ Unlock(t)
         \/ WaitLock(t) \/ WaitTake(t) \/ WaitUnlock(t) \/ WaitWakes(t)
         \/ SignalLock(t) \/ SignalAdd(t) \/ ReleaseAndReturn(t)
  PROVE  ManagerInv' /\ CpuInv' /\ QueueInv'
<1>1. Running(t) /\ ip[t] \in DOMAIN Program[t]
  BY DEF LockOrPanic, SpinLock, Unlock, WaitLock, WaitTake, WaitUnlock, WaitWakes,
         SignalLock, SignalAdd, ReleaseAndReturn, AtStage
<1>2. ip \in [Thread -> Nat]
  BY DEF SyncInv, OperationTypes
<1>3. ASSUME NEW old \in {"start", "test", "asleep", "blocked", "add", "release"}, at[t] = old,
             NEW stage \in {"start", "test", "yield", "add", "pop", "release"},
             (old = "asleep") <=> (stage = "yield"),
             UNCHANGED <<vars, queue>>,
             Moves(t, stage) \/ (Returns(t) /\ stage = "start")
      PROVE  ManagerInv' /\ CpuInv' /\ QueueInv'
  <2>1. /\ at' = [at EXCEPT ![t] = stage]
        /\ \A u \in Thread : ip'[u] = ip[u] \/ (u = t /\ stage = "start")
    BY <1>2, <1>3 DEF Moves, Returns
  <2>2. /\ stage \in Stages /\ at[t] # "queued" /\ stage # "queued"
        /\ at[t] \in {"asleep", "yield"} <=> stage = "yield"
    BY <1>3 DEF Stages, Section
  <2>3. QED BY <1>1, <1>3, <2>1, <2>2, PlainStep
<1>4. ASSUME NEW l, NEW b, PanicsAt(l, b) PROVE ManagerInv' /\ CpuInv' /\ QueueInv'
  <2>1. ManagerInv'
    BY <1>4, ManagerStays DEF SyncInv
  <2>2. halted' = "panic" /\ UNCHANGED <<state, queue, at, ip, thread_list>>
    BY <1>4 DEF PanicsAt, syncVars, listVars
  <2>3. QED BY <2>1, <2>2 DEF SyncInv, CpuInv, QueueInv
<1>5. CASE LockOrPanic(t) \/ SpinLock(t) \/ Unlock(t)
  <2>1. at[t] = "start"
    BY <1>5 DEF LockOrPanic, SpinLock, Unlock, AtStage
  <2>2. \/ Returns(t) /\ UNCHANGED <<vars, queue>>
        \/ \E l, b : PanicsAt(l, b)
    BY <1>5 DEF LockOrPanic, SpinLock, Unlock, managerVars
  <2>3. QED BY <1>3, <1>4, <2>1, <2>2
<1>6. CASE WaitLock(t) \/ SignalLock(t)
  <2>1. at[t] = "start" /\ UNCHANGED <<vars, queue>> /\ (Moves(t, "test") \/ Moves(t, "add"))
    BY <1>6 DEF WaitLock, SignalLock, AtStage, managerVars
  <2>2. QED BY <1>3, <2>1
<1>7. CASE WaitTake(t) \/ SignalAdd(t)
  <2>1. /\ at[t] \in {"test", "add"} /\ UNCHANGED <<vars, queue>>
        /\ Moves(t, "release") \/ Moves(t, "pop")
    BY <1>7 DEF WaitTake, SignalAdd, AtStage, managerVars
  <2>2. QED BY <1>3, <2>1
<1>8. CASE WaitUnlock(t)
  <2>1. at[t] = "asleep" /\ UNCHANGED <<vars, queue>> /\ Moves(t, "yield")
    BY <1>8 DEF WaitUnlock, AtStage, managerVars
  <2>2. QED BY <1>3, <2>1
<1>9. CASE WaitWakes(t) \/ ReleaseAndReturn(t)
  <2>1. at[t] \in {"blocked", "release"} /\ UNCHANGED <<vars, queue>> /\ Returns(t)
    BY <1>9 DEF WaitWakes, ReleaseAndReturn, AtStage, managerVars
  <2>2. QED BY <1>3, <2>1
<1>10. QED BY <1>5, <1>6, <1>7, <1>8, <1>9

\* push_back(): a thread that runs and is not in the queue yet joins it.
LEMMA QueueingStep ==
  ASSUME SyncInv, Assumptions, NEW t \in KernelThread, WaitQueue(t)
  PROVE  ManagerInv' /\ CpuInv' /\ QueueInv'
<1>1. /\ Running(t) /\ at[t] = "test" /\ ip[t] \in DOMAIN Program[t]
      /\ UNCHANGED vars /\ UNCHANGED ip
      /\ \/ queue' = Append(queue, t) /\ at' = [at EXCEPT ![t] = "queued"]
         \/ UNCHANGED queue /\ at' = [at EXCEPT ![t] = "start"]
  BY DEF WaitQueue, AtStage, Moves, managerVars
<1>2. CASE UNCHANGED queue /\ at' = [at EXCEPT ![t] = "start"]
  <2>1. "start" \in Stages
    BY DEF Stages
  <2>2. QED BY <1>1, <1>2, <2>1, PlainStep
<1>3. CASE queue' = Append(queue, t) /\ at' = [at EXCEPT ![t] = "queued"]
  <2>1. /\ t = current /\ halted = "no" /\ t \in Thread /\ t \in thread_list /\ state[t] = "Run"
        /\ UNCHANGED <<state, current, halted, thread_list>>
        /\ at \in [Thread -> Stages] /\ KernelThread \subseteq Thread
        /\ queue \in Seq(KernelThread)
    BY <1>1, RunnerStands
    DEF vars, switchVars, listVars, SyncInv, SemInv, OperationTypes, Assumptions,
        ThreadingAssumption
  <2>2. t \notin Threads(queue) /\ NoDuplicates(queue)
    BY <1>1, <2>1 DEF SyncInv, QueueInv
  <2>3. queue \in Seq(Thread)
    BY <2>1
  <2>4. Threads(queue') = Threads(queue) \cup {t} /\ NoDuplicates(queue')
    BY <1>3, <2>1, <2>2, <2>3, AppendThread
  <2>5. at'[t] = "queued" /\ \A u \in Thread \ {t} : at'[u] = at[u]
    BY <1>3, <2>1
  <2>6. ASSUME NEW u \in KernelThread
        PROVE  /\ u \in Threads(queue') <=> at'[u] = "queued" \/ state[u] = "Wait"
               /\ state[u] = "Wait" => at'[u] \in {"asleep", "yield", "blocked"}
               /\ at'[u] # "start" => u \in thread_list /\ ip[u] \in DOMAIN Program[u]
    <3>1. CASE u = t
      BY <1>1, <2>1, <2>4, <2>5, <3>1
    <3>2. CASE u # t
      BY <2>1, <2>4, <2>5, <3>2 DEF SyncInv, QueueInv
    <3>3. QED BY <3>1, <3>2
  <2>7. QueueInv'
    BY <1>1, <2>1, <2>4, <2>6 DEF QueueInv
  <2>8. CpuInv'
    BY <2>1 DEF CpuInv
  <2>9. QED BY <1>1, <2>7, <2>8, ManagerStays DEF SyncInv
<1>4. QED BY <1>1, <1>2, <1>3
\* Steps that set the state of a thread and nothing else of the Manager's.
LEMMA StatesOnly ==
  ASSUME ManagerInv, state' \in [Thread -> {"Run", "Wait"}],
         UNCHANGED <<listVars, current, context, interrupts, preempted, in_tick, halted,
                     keyVars, waitVars, queueVars, pc, now>>
  PROVE  ManagerInv'
<1>1. QueueTypeOK'
  BY DEF ManagerInv, TypeOK, SchedulerTypeOK, QueueTypeOK, queueVars
<1>2. SchedulerTypeOK'
  BY <1>1 DEF ManagerInv, TypeOK, SchedulerTypeOK, listVars
<1>3. TypeOK'
  BY <1>2 DEF ManagerInv, TypeOK, listVars, keyVars, waitVars
<1>4. QED BY <1>3 DEF ManagerInv, listVars, queueVars, waitVars

\* wait() sets the state of a thread that is in the queue already.
LEMMA StoppingStep ==
  ASSUME SyncInv, Assumptions, NEW t \in KernelThread, WaitStops(t)
  PROVE  ManagerInv' /\ CpuInv' /\ QueueInv'
<1>1. /\ Running(t) /\ at[t] = "queued" /\ UNCHANGED <<ip, queue>>
      /\ state' = [state EXCEPT ![t] = "Wait"] /\ at' = [at EXCEPT ![t] = "asleep"]
      /\ UNCHANGED <<listVars, current, context, interrupts, preempted, in_tick, halted,
                     keyVars, waitVars, queueVars, pc, now>>
  BY DEF WaitStops, AtStage, Moves
<1>2. /\ t = current /\ t \in Thread /\ t \in thread_list /\ UNCHANGED thread_list
      /\ at \in [Thread -> Stages] /\ KernelThread \subseteq Thread
      /\ state \in [Thread -> {"Run", "Wait"}]
  BY <1>1, RunnerStands
  DEF listVars, SyncInv, SemInv, ManagerInv, TypeOK, SchedulerTypeOK, Assumptions,
      ThreadingAssumption
<1>3. ManagerInv'
  BY <1>1, <1>2, StatesOnly DEF SyncInv
<1>4. /\ at'[t] = "asleep" /\ state'[t] = "Wait"
      /\ \A u \in Thread \ {t} : at'[u] = at[u] /\ state'[u] = state[u]
  BY <1>1, <1>2
<1>5. CpuInv'
  BY <1>1, <1>2, <1>4 DEF CpuInv
<1>6. QueueInv'
  BY <1>1, <1>2, <1>4 DEF SyncInv, QueueInv
<1>7. QED BY <1>3, <1>5, <1>6

\* signal() pops a thread that stopped, or is about to yield, and only that one
\* may run again: nobody else is inside the lock with the thread half stopped.
LEMMA PoppingStep ==
  ASSUME SyncInv, Assumptions, NEW t \in KernelThread, SignalPop(t)
  PROVE  ManagerInv' /\ CpuInv' /\ QueueInv'
<1>1. /\ Running(t) /\ at[t] = "pop" /\ ip[t] \in DOMAIN Program[t]
      /\ UNCHANGED <<listVars, current, context, interrupts, preempted, in_tick, halted,
                     keyVars, waitVars, queueVars, pc, now>>
  BY DEF SignalPop, AtStage
<1>2. /\ t = current /\ t \in Thread /\ t \in thread_list /\ UNCHANGED thread_list
      /\ state[t] = "Run"
      /\ at \in [Thread -> Stages] /\ KernelThread \subseteq Thread
      /\ state \in [Thread -> {"Run", "Wait"}]
      /\ queue \in Seq(KernelThread) /\ NoDuplicates(queue)
  BY <1>1, RunnerStands
  DEF listVars, SyncInv, SemInv, ManagerInv, OperationTypes, QueueInv, TypeOK, SchedulerTypeOK,
      Assumptions, ThreadingAssumption
<1>3. CASE queue = <<>>
  <2>1. /\ at' = [at EXCEPT ![t] = "release"] /\ UNCHANGED <<ip, state, queue>>
    BY <1>3 DEF SignalPop, Moves
  <2>2. ManagerInv'
    BY <1>1, <1>2, <2>1, StatesOnly DEF SyncInv
  <2>3. at'[t] = "release" /\ \A u \in Thread \ {t} : at'[u] = at[u]
    BY <1>2, <2>1
  <2>4. CpuInv'
    BY <1>1, <1>2, <2>1 DEF CpuInv
  <2>5. QueueInv'
    BY <1>1, <1>2, <2>1, <2>3 DEF SyncInv, QueueInv
  <2>6. QED BY <2>2, <2>4, <2>5
<1>4. CASE queue # <<>>
  <2> DEFINE h == Head(queue)
  <2>1. /\ h \in KernelThread /\ h \in Threads(queue)
        /\ Threads(Tail(queue)) = Threads(queue) \ {h}
        /\ NoDuplicates(Tail(queue))
    BY <1>2, <1>4, TailThread
  <2>2. at[h] # "queued"
    <3>1. at[t] \in Section /\ (at[h] = "queued" => at[h] \in Section)
      BY <1>1 DEF Section
    <3>2. QED BY <1>1, <2>1, <3>1 DEF SyncInv, SemInv, SemaphoreExclusion
  <2>3. state[h] = "Wait" /\ at[h] \in {"asleep", "yield", "blocked"} /\ h \in thread_list /\ h # t
    BY <1>1, <1>2, <2>1, <2>2 DEF SyncInv, QueueInv
  <2>4. /\ queue' = Tail(queue) /\ state' = [state EXCEPT ![h] = "Run"]
        /\ at' = [at EXCEPT ![t] = "release"] /\ UNCHANGED ip
    BY <1>4, <2>3 DEF SignalPop, Moves
  <2> HIDE DEF h
  <2>5. /\ at'[t] = "release" /\ \A u \in Thread \ {t} : at'[u] = at[u]
        /\ state'[h] = "Run" /\ \A u \in Thread \ {h} : state'[u] = state[u]
        /\ h \in Thread
    BY <1>2, <2>1, <2>4
  <2>6. ManagerInv'
    <3>1. state' \in [Thread -> {"Run", "Wait"}]
      BY <1>2, <2>4
    <3>2. QED BY <1>1, <3>1, StatesOnly DEF SyncInv
  <2>7. CpuInv'
    BY <1>1, <1>2, <2>3, <2>5 DEF CpuInv
  <2>8. ASSUME NEW u \in KernelThread
        PROVE  /\ u \in Threads(queue') <=> at'[u] = "queued" \/ state'[u] = "Wait"
               /\ state'[u] = "Wait" => at'[u] \in {"asleep", "yield", "blocked"}
               /\ at'[u] # "start" => u \in thread_list' /\ ip'[u] \in DOMAIN Program[u]
    <3>1. CASE u = h
      BY <1>2, <2>1, <2>2, <2>3, <2>4, <2>5, <3>1 DEF SyncInv, QueueInv
    <3>2. CASE u = t
      <4>1. u \notin Threads(queue)
        BY <1>1, <1>2, <3>2 DEF SyncInv, QueueInv
      <4>2. QED BY <1>1, <1>2, <2>1, <2>3, <2>4, <2>5, <3>2, <4>1
    <3>3. CASE u # h /\ u # t
      <4>1. at'[u] = at[u] /\ state'[u] = state[u] /\ (u \in Threads(queue') <=> u \in Threads(queue))
        BY <1>2, <2>1, <2>4, <2>5, <3>3
      <4>2. QED BY <1>2, <2>4, <4>1 DEF SyncInv, QueueInv
    <3>4. QED BY <3>1, <3>2, <3>3
  <2>9. QueueInv'
    BY <2>1, <2>4, <2>8 DEF QueueInv
  <2>10. QED BY <2>6, <2>7, <2>9
<1>5. QED BY <1>3, <1>4
\* A yield while the system list stays as it is.
LEMMA YieldStep ==
  ASSUME ManagerInv, Assumptions, NEW st \in [Thread -> {"Run", "Wait"}], NEW tick \in BOOLEAN,
         UNCHANGED <<listVars, keyVars, exit_info, target, pc, now>>,
         wake_on_exit' \in [Thread -> Thread \cup {NULL}],
         \A u \in Thread : wake_on_exit'[u] \in {NULL, Boot},
         YieldFrom(st, tick)
  PROVE  /\ ManagerInv'
         /\ halted' = "no" => current' \in thread_list' /\ state'[current'] = "Run"
         /\ \A u \in KernelThread : state'[u] = st[u]
<1>1. /\ order \in Seq(Thread) /\ Idle \in Threads(order) /\ thread_list = Threads(order)
      /\ UNCHANGED <<order, thread_list, unused>>
  BY DEF ManagerInv, TypeOK, SchedulerTypeOK, listVars
<1>2. /\ CpuTypeOK' /\ QueueTypeOK' /\ UNCHANGED queueVars
      /\ halted' = "no" => current' \in Threads(order) /\ state'[current'] = "Run"
      /\ \A u \in KernelThread : state'[u] = st[u]
  BY <1>1, YieldKeepsManager DEF YieldFrom
<1>3. SchedulerTypeOK'
  BY <1>1, <1>2 DEF ManagerInv, TypeOK, SchedulerTypeOK, CpuTypeOK
<1>4. TypeOK'
  BY <1>1, <1>3 DEF ManagerInv, TypeOK, keyVars
<1>5. ManagerInv'
  BY <1>1, <1>2, <1>4 DEF ManagerInv, queueVars
<1>6. QED BY <1>1, <1>2, <1>5

\* The yield of wait(): whoever signals has popped the thread, or it is in the queue
\* and waits.
LEMMA YieldingStep ==
  ASSUME SyncInv, Assumptions, NEW t \in KernelThread, WaitYield(t)
  PROVE  ManagerInv' /\ CpuInv' /\ QueueInv'
<1>1. /\ Running(t) /\ at[t] = "yield" /\ ip[t] \in DOMAIN Program[t]
      /\ at' = [at EXCEPT ![t] = "blocked"] /\ UNCHANGED <<ip, queue>>
      /\ UNCHANGED <<listVars, keyVars, waitVars, pc, now>>
      /\ YieldFrom(state, FALSE)
  BY DEF WaitYield, AtStage, Moves
<1>2. /\ ManagerInv /\ state \in [Thread -> {"Run", "Wait"}]
      /\ at \in [Thread -> Stages] /\ KernelThread \subseteq Thread
      /\ UNCHANGED <<exit_info, target, thread_list>>
      /\ wake_on_exit' \in [Thread -> Thread \cup {NULL}]
      /\ \A u \in Thread : wake_on_exit'[u] \in {NULL, Boot}
  BY <1>1 DEF SyncInv, SemInv, ManagerInv, TypeOK, SchedulerTypeOK, waitVars, listVars,
              Assumptions, ThreadingAssumption
<1>3. /\ ManagerInv'
      /\ halted' = "no" => current' \in thread_list' /\ state'[current'] = "Run"
      /\ \A u \in KernelThread : state'[u] = state[u]
  BY <1>1, <1>2, YieldStep
<1>4. CpuInv'
  BY <1>3 DEF CpuInv
<1>5. at'[t] = "blocked" /\ \A u \in Thread \ {t} : at'[u] = at[u]
  BY <1>1, <1>2
<1>6. ASSUME NEW u \in KernelThread
      PROVE  /\ u \in Threads(queue') <=> at'[u] = "queued" \/ state'[u] = "Wait"
             /\ state'[u] = "Wait" => at'[u] \in {"asleep", "yield", "blocked"}
             /\ at'[u] # "start" => u \in thread_list' /\ ip'[u] \in DOMAIN Program[u]
  <2>1. CASE u = t
    BY <1>1, <1>2, <1>3, <1>5, <2>1 DEF SyncInv, QueueInv
  <2>2. CASE u # t
    BY <1>1, <1>2, <1>3, <1>5, <2>2 DEF SyncInv, QueueInv
  <2>3. QED BY <2>1, <2>2
<1>7. QueueInv'
  BY <1>1, <1>6 DEF SyncInv, QueueInv
<1>8. QED BY <1>3, <1>4, <1>7

\* The queue's part does not notice steps outside of the semaphore.
LEMMA QueueStays ==
  ASSUME QueueInv, UNCHANGED <<queue, thread_list>>,
         \A u \in KernelThread : state'[u] = state[u] /\ at'[u] = at[u] /\ ip'[u] = ip[u]
  PROVE  QueueInv'
BY DEF QueueInv

\* The timer interrupt, wherever a thread is in wait() or signal().
LEMMA PreemptingStep ==
  ASSUME SyncInv, Assumptions, Preempt
  PROVE  ManagerInv' /\ CpuInv' /\ QueueInv'
<1>1. /\ YieldFrom(state, TRUE) /\ UNCHANGED <<listVars, keyVars, waitVars, pc, now>>
      /\ UNCHANGED <<queue, ip, at>>
  BY DEF Preempt, Tick, TimerInterrupt, syncVars
<1>2. /\ ManagerInv /\ state \in [Thread -> {"Run", "Wait"}]
      /\ UNCHANGED <<exit_info, target, thread_list>>
      /\ wake_on_exit' \in [Thread -> Thread \cup {NULL}]
      /\ \A u \in Thread : wake_on_exit'[u] \in {NULL, Boot}
  BY <1>1 DEF SyncInv, ManagerInv, TypeOK, SchedulerTypeOK, waitVars, listVars
<1>3. /\ ManagerInv'
      /\ halted' = "no" => current' \in thread_list' /\ state'[current'] = "Run"
      /\ \A u \in KernelThread : state'[u] = state[u]
  BY <1>1, <1>2, YieldStep
<1>4. QED BY <1>1, <1>2, <1>3, QueueStays DEF CpuInv, SyncInv

\* The boot thread waits for a thread to end, which is nothing to the others.
LEMMA BootStep ==
  ASSUME SyncInv, Assumptions, SemaphoreAssumption, BootWaits
  PROVE  ManagerInv' /\ CpuInv' /\ QueueInv'
<1> DEFINE k == Started[ip[Boot]]
<1>1. /\ Running(Boot) /\ k \in KernelThread
      /\ AwaitExit(Boot, k, k \in thread_list)
      /\ UNCHANGED <<listVars, keyVars, exit_info, target, pc, now>>
      /\ UNCHANGED queue /\ Returns(Boot)
  BY DEF BootWaits, WaitForThread
<1>2. /\ ManagerInv /\ CpuInv /\ QueueInv /\ TypeOK /\ SchedulerTypeOK /\ QueueTypeOK
      /\ at \in [Thread -> Stages] /\ ip \in [Thread -> Nat]
      /\ KernelThread \subseteq Thread \ {Boot} /\ Boot \in Thread
      /\ k \in Thread /\ UNCHANGED <<order, unused, thread_list>>
  BY <1>1 DEF SyncInv, SemInv, OperationTypes, ManagerInv, TypeOK, SchedulerTypeOK, listVars,
              Assumptions, ThreadingAssumption
<1>3. \A u \in KernelThread : at'[u] = at[u] /\ ip'[u] = ip[u]
  BY <1>1, <1>2 DEF Returns
<1> HIDE DEF k
<1>4. CASE Halt("panic") /\ UNCHANGED <<wake_on_exit, queueVars>>
  <2>1. /\ UNCHANGED <<state, current, context, interrupts, preempted, in_tick>>
        /\ halted' = "panic"
    BY <1>4 DEF Halt
  <2>2. QueueTypeOK'
    BY <1>2, <1>4 DEF QueueTypeOK, queueVars
  <2>3. SchedulerTypeOK'
    BY <1>2, <2>1, <2>2 DEF SchedulerTypeOK, Endings
  <2>4. TypeOK'
    BY <1>1, <1>2, <1>4, <2>3 DEF TypeOK, keyVars
  <2>5. ManagerInv'
    BY <1>2, <1>4, <2>4 DEF ManagerInv, queueVars
  <2>6. QED BY <1>1, <1>2, <1>3, <2>1, <2>5, QueueStays DEF CpuInv
<1>5. CASE /\ wake_on_exit' = [wake_on_exit EXCEPT ![k] = Boot]
           /\ YieldFrom([state EXCEPT ![Boot] = "Wait"], FALSE)
  <2> DEFINE st == [state EXCEPT ![Boot] = "Wait"]
  <2>1. /\ wake_on_exit' \in [Thread -> Thread \cup {NULL}]
        /\ \A u \in Thread : wake_on_exit'[u] \in {NULL, Boot}
    BY <1>2, <1>5 DEF TypeOK, ManagerInv
  <2>2. /\ st \in [Thread -> {"Run", "Wait"}] /\ \A u \in KernelThread : st[u] = state[u]
    BY <1>2 DEF SchedulerTypeOK
  <2> HIDE DEF st
  <2>3. YieldFrom(st, FALSE)
    BY <1>5 DEF st
  <2>4. /\ ManagerInv'
        /\ halted' = "no" => current' \in thread_list' /\ state'[current'] = "Run"
        /\ \A u \in KernelThread : state'[u] = st[u]
    BY <1>1, <1>2, <2>1, <2>2, <2>3, YieldStep
  <2>5. QED BY <1>1, <1>2, <1>3, <2>2, <2>4, QueueStays DEF CpuInv
<1>6. CASE /\ interrupts' = FALSE
           /\ UNCHANGED <<state, current, context, preempted, in_tick, halted,
                          wake_on_exit, queueVars>>
  <2>1. QueueTypeOK'
    BY <1>2, <1>6 DEF QueueTypeOK, queueVars
  <2>2. SchedulerTypeOK'
    BY <1>2, <1>6, <2>1 DEF SchedulerTypeOK
  <2>3. TypeOK'
    BY <1>1, <1>2, <1>6, <2>2 DEF TypeOK, keyVars
  <2>4. ManagerInv'
    BY <1>2, <1>6, <2>3 DEF ManagerInv, queueVars
  <2>5. CpuInv'
    BY <1>1, <1>2, <1>6 DEF CpuInv, Running
  <2>6. QED BY <1>1, <1>2, <1>3, <1>6, <2>4, <2>5, QueueStays
<1>7. QED BY <1>1, <1>4, <1>5, <1>6 DEF AwaitExit
\* A thread that ends is at none of its operations, so it is not in the queue.
LEMMA EndingStep ==
  ASSUME SyncInv, Assumptions, SemaphoreAssumption, NEW t \in KernelThread, EndThread(t)
  PROVE  ManagerInv' /\ CpuInv' /\ QueueInv'
<1> DEFINE i == Position(order, t)
           woken == Woken(t)
<1>1. /\ Running(t) /\ ip[t] = Len(Program[t]) + 1
      /\ order' = Unlink(order, i) /\ thread_list' = thread_list \ {t}
      /\ pc' = [pc EXCEPT ![t] = "gone"]
      /\ Yield(woken, order', i - 1, FALSE)
      /\ UNCHANGED <<unused, keyVars, wake_on_exit, target, now, exit_info>>
      /\ UNCHANGED <<queue, ip, at>>
  BY DEF EndThread, EndKernelThread, RemoveCurrentThread, syncVars
<1>2. /\ ManagerInv /\ TypeOK /\ SchedulerTypeOK /\ QueueInv
      /\ KernelThread \subseteq Thread \ {Boot, Idle} /\ Boot \in Thread
      /\ t \in Thread /\ t \in thread_list /\ wake_on_exit[t] \in {NULL, Boot}
      /\ order \in Seq(Thread) /\ NoDuplicates(order) /\ thread_list = Threads(order)
      /\ Idle \in Threads(order)
  BY <1>1, RunnerStands
  DEF SyncInv, ManagerInv, TypeOK, SchedulerTypeOK, Assumptions, ThreadingAssumption
<1>3. at[t] = "start"
  <2>1. Program[t] \in Seq([op : Op, lock : Lock \cup {SemLock}])
    BY DEF SemaphoreAssumption
  <2>2. ip[t] \notin DOMAIN Program[t]
    BY <1>1, <2>1, LenProperties
  <2>3. QED BY <1>2, <2>2 DEF QueueInv
<1>4. woken \in [Thread -> {"Run", "Wait"}] /\ \A u \in KernelThread : woken[u] = state[u]
  <2>1. CASE wake_on_exit[t] = NULL
    BY <1>2, <2>1 DEF Woken, SchedulerTypeOK
  <2>2. CASE wake_on_exit[t] = Boot /\ Boot # NULL
    BY <1>2, <2>2 DEF Woken, SchedulerTypeOK
  <2>3. QED BY <1>2, <2>1, <2>2
<1>5. i \in DOMAIN order /\ order[i] = t
  BY <1>2, PositionOfThread
<1> HIDE DEF i, woken
<1>6. order' \in Seq(Thread) /\ Threads(order') = Threads(order) \ {t} /\ NoDuplicates(order')
  BY <1>1, <1>2, <1>5, UnlinkThread
<1>7. Idle \in Threads(order') /\ thread_list' = Threads(order')
  BY <1>1, <1>2, <1>6
<1>8. /\ CpuTypeOK' /\ QueueTypeOK' /\ UNCHANGED queueVars
      /\ halted' = "no" => current' \in Threads(order') /\ state'[current'] = "Run"
      /\ \A u \in KernelThread : state'[u] = woken[u]
  BY <1>1, <1>2, <1>4, <1>6, <1>7, YieldKeepsManager
<1>9. SchedulerTypeOK'
  BY <1>1, <1>2, <1>6, <1>8 DEF SchedulerTypeOK, CpuTypeOK
<1>10. TypeOK'
  <2>1. pc' \in [Thread -> Points]
    BY <1>1, <1>2 DEF TypeOK, Points
  <2>2. QED BY <1>1, <1>2, <1>9, <2>1 DEF TypeOK, keyVars
<1>11. ManagerInv'
  BY <1>1, <1>2, <1>6, <1>7, <1>8, <1>10 DEF ManagerInv, queueVars
<1>12. CpuInv'
  BY <1>7, <1>8 DEF CpuInv
<1>13. QueueInv'
  <2>1. \A u \in KernelThread : state'[u] = state[u] /\ at'[u] = at[u] /\ ip'[u] = ip[u]
    BY <1>1, <1>4, <1>8
  <2>2. \A u \in KernelThread : at'[u] # "start" => u \in thread_list'
    BY <1>1, <1>2, <1>3 DEF QueueInv
  <2>3. QED BY <1>1, <1>2, <2>1, <2>2 DEF QueueInv
<1>14. QED BY <1>11, <1>12, <1>13

\* The operations keep their own variables typed.
LEMMA StepKeepsTypes ==
  ASSUME SyncInv, Assumptions, SemaphoreAssumption, [SyncNext]_allVars
  PROVE  OperationTypes'
<1>1. /\ value \in 0..MaxValue /\ queue \in Seq(KernelThread) /\ ip \in [Thread -> Nat]
      /\ MaxValue \in Nat /\ KernelThread \subseteq Thread /\ Boot \in Thread
  BY DEF SyncInv, OperationTypes, SemaphoreAssumption, Assumptions, ThreadingAssumption
<1>2. CASE UNCHANGED <<value, queue>>
  <2>1. ip' = ip \/ \E t \in Thread : Returns(t)
    <3>1. CASE \E t \in KernelThread : ThreadStep(t)
      BY <1>1, <3>1
      DEF ThreadStep, LockOrPanic, SpinLock, Unlock, WaitLock, WaitTake, WaitQueue, WaitStops,
          WaitUnlock, WaitYield, WaitWakes, SignalLock, SignalAdd, SignalPop, ReleaseAndReturn,
          EndThread, Moves, PanicsAt, syncVars
    <3>2. CASE BootWaits
      BY <1>1, <3>2 DEF BootWaits
    <3>3. CASE Preempt \/ UNCHANGED allVars
      BY <3>3 DEF Preempt, allVars, syncVars
    <3>4. QED BY <3>1, <3>2, <3>3 DEF SyncNext
  <2>2. ip' \in [Thread -> Nat]
    <3>1. ASSUME NEW t \in Thread, Returns(t) PROVE ip' \in [Thread -> Nat]
      <4>1. ip' = [ip EXCEPT ![t] = ip[t] + 1] /\ ip[t] + 1 \in Nat
        BY <1>1, <3>1 DEF Returns
      <4>2. QED BY <1>1, <4>1
    <3>2. QED BY <1>1, <2>1, <3>1
  <2>3. QED BY <1>1, <1>2, <2>2 DEF OperationTypes
<1>3. ASSUME NEW t \in KernelThread, WaitTake(t) \/ SignalAdd(t) PROVE OperationTypes'
  <2>1. UNCHANGED <<ip, queue>> /\ value' \in 0..MaxValue
    BY <1>1, <1>3 DEF WaitTake, SignalAdd, Moves
  <2>2. QED BY <1>1, <2>1 DEF OperationTypes
<1>4. ASSUME NEW t \in KernelThread, WaitQueue(t) PROVE OperationTypes'
  <2>1. UNCHANGED <<ip, value>> /\ queue' \in {queue, Append(queue, t)}
    BY <1>4 DEF WaitQueue, Moves
  <2>2. Append(queue, t) \in Seq(KernelThread)
    BY <1>1
  <2>3. QED BY <1>1, <2>1, <2>2 DEF OperationTypes
<1>5. ASSUME NEW t \in KernelThread, SignalPop(t) PROVE OperationTypes'
  <2>1. UNCHANGED <<ip, value>> /\ (queue' = queue \/ (queue # <<>> /\ queue' = Tail(queue)))
    BY <1>5 DEF SignalPop, Moves
  <2>2. queue # <<>> => Tail(queue) \in Seq(KernelThread)
    BY <1>1, HeadTailProperties
  <2>3. QED BY <1>1, <2>1, <2>2 DEF OperationTypes
<1>6. \/ UNCHANGED <<value, queue>>
      \/ \E t \in KernelThread : WaitTake(t) \/ SignalAdd(t) \/ WaitQueue(t) \/ SignalPop(t)
  BY DEF SyncNext, ThreadStep, LockOrPanic, SpinLock, Unlock, WaitLock, WaitStops, WaitUnlock,
         WaitYield, WaitWakes, SignalLock, ReleaseAndReturn, EndThread, BootWaits, Preempt,
         PanicsAt, syncVars, allVars
<1>7. QED BY <1>2, <1>3, <1>4, <1>5, <1>6

\* No step loses a thread that waits.
LEMMA StepKeepsQueue ==
  ASSUME SyncInv, Assumptions, SemaphoreAssumption, [SyncNext]_allVars
  PROVE  SyncInv'
<1>1. ManagerInv' /\ CpuInv' /\ QueueInv'
  <2>1. ASSUME NEW t \in KernelThread, ThreadStep(t) PROVE ManagerInv' /\ CpuInv' /\ QueueInv'
    <3>1. CASE \/ LockOrPanic(t) \/ SpinLock(t) \/ Unlock(t)
               \/ WaitLock(t) \/ WaitTake(t) \/ WaitUnlock(t) \/ WaitWakes(t)
               \/ SignalLock(t) \/ SignalAdd(t) \/ ReleaseAndReturn(t)
      BY <3>1, PlainSteps
    <3>2. CASE WaitQueue(t) \/ WaitStops(t) \/ WaitYield(t)
      BY <3>2, QueueingStep, StoppingStep, YieldingStep
    <3>3. CASE SignalPop(t) \/ EndThread(t)
      BY <3>3, PoppingStep, EndingStep
    <3>4. QED BY <2>1, <3>1, <3>2, <3>3 DEF ThreadStep
  <2>2. CASE BootWaits \/ Preempt
    BY <2>2, BootStep, PreemptingStep
  <2>3. CASE UNCHANGED allVars
    <3>1. UNCHANGED vars /\ UNCHANGED <<queue, ip, at>>
      BY <2>3 DEF allVars, syncVars
    <3>2. UNCHANGED <<current, halted, state, thread_list>>
      BY <3>1 DEF vars, switchVars, listVars
    <3>3. QED BY <3>1, <3>2, ManagerStays, QueueStays DEF SyncInv, CpuInv
  <2>4. QED BY <2>1, <2>2, <2>3 DEF SyncNext
<1>2. SemInv' /\ OperationTypes'
  BY StepKeepsExclusion, StepKeepsTypes DEF SyncInv, Assumptions
<1>3. QED BY <1>1, <1>2 DEF SyncInv

\* All threads are inserted and none waits.
LEMMA SyncStarts ==
  ASSUME SyncInit, SemInv, Assumptions, SemaphoreAssumption
  PROVE  SyncInv
<1> USE DEF SyncInit, QueueInit
<1>1. /\ Idle \in Thread /\ Boot \in Thread /\ Idle # Boot
      /\ KernelThread \subseteq Thread \ {Idle, Boot} /\ Process \subseteq Thread
      /\ Started \in Seq(KernelThread)
      /\ \A m, k \in DOMAIN Started : Started[m] = Started[k] => m = k
  BY DEF Assumptions, SchedulerAssumption, ThreadingAssumption, SemaphoreAssumption
<1>2. /\ Len(Started) \in Nat /\ DOMAIN Started = 1..Len(Started)
      /\ \A m \in 1..Len(Started) : Started[m] \in KernelThread
  BY <1>1
<1>3. /\ order \in Seq(Thread)
      /\ DOMAIN order = 1..(Len(Started) + 2)
      /\ order[1] = Idle /\ order[2] = Boot
      /\ \A m \in 3..(Len(Started) + 2) : order[m] = Started[m - 2]
  <2>1. <<Idle, Boot>> \in Seq(Thread) /\ Started \in Seq(Thread)
    BY <1>1
  <2>2. Len(<<Idle, Boot>>) = 2 /\ <<Idle, Boot>>[1] = Idle /\ <<Idle, Boot>>[2] = Boot
    OBVIOUS
  <2>3. QED BY <1>2, <2>1, <2>2, ConcatProperties
<1>4. \A m \in 3..(Len(Started) + 2) :
        m - 2 \in 1..Len(Started) /\ order[m] \in KernelThread
  BY <1>2, <1>3
<1>5. NoDuplicates(order)
  <2>1. ASSUME NEW m \in DOMAIN order, NEW k \in DOMAIN order, order[m] = order[k]
        PROVE  m = k
    <3>1. m \in {1, 2} \/ m \in 3..(Len(Started) + 2)
      BY <1>2, <1>3
    <3>2. k \in {1, 2} \/ k \in 3..(Len(Started) + 2)
      BY <1>2, <1>3
    <3>3. CASE m \in {1, 2} \/ k \in {1, 2}
      BY <1>1, <1>3, <1>4, <2>1, <3>1, <3>2, <3>3
    <3>4. CASE m \in 3..(Len(Started) + 2) /\ k \in 3..(Len(Started) + 2)
      <4>1. Started[m - 2] = Started[k - 2] /\ m - 2 \in DOMAIN Started /\ k - 2 \in DOMAIN Started
        BY <1>2, <1>3, <1>4, <2>1, <3>4
      <4>2. m - 2 = k - 2
        BY <1>1, <4>1
      <4>3. QED BY <1>2, <3>4, <4>2
    <3>5. QED BY <3>1, <3>2, <3>3, <3>4
  <2>2. QED BY <2>1 DEF NoDuplicates
<1>6. Idle \in Threads(order) /\ Boot \in Threads(order) /\ Threads(order) \subseteq Thread
  <2>1. 1 \in DOMAIN order /\ 2 \in DOMAIN order
    BY <1>2, <1>3
  <2>2. \A m \in DOMAIN order : order[m] \in Thread
    BY <1>3
  <2>3. QED BY <1>3, <2>1, <2>2, Zenon DEF Threads
<1>7. SchedulerTypeOK
  <2>1. /\ state \in [Thread -> {"Run", "Wait"}]
        /\ context \in [Thread -> {"unset", "saved", "in_use"}]
    OBVIOUS
  <2>2. QueueTypeOK
    BY DEF QueueTypeOK, Element, Link
  <2>3. QED BY <1>1, <1>3, <1>6, <2>1, <2>2 DEF SchedulerTypeOK, Endings
<1>8. TypeOK
  BY <1>1, <1>7 DEF TypeOK, Points, Assumptions, ThreadingAssumption
<1>9. ManagerInv
  BY <1>5, <1>6, <1>8 DEF ManagerInv
<1>10. CpuInv
  BY <1>1, <1>6 DEF CpuInv
<1>11. OperationTypes
  BY DEF OperationTypes, SemaphoreAssumption
<1>12. QueueInv
  <2>1. Threads(queue) = {} /\ NoDuplicates(queue)
    BY DEF Threads, NoDuplicates
  <2>2. QED BY <1>1, <2>1 DEF QueueInv
<1>13. QED BY <1>9, <1>10, <1>11, <1>12 DEF SyncInv

\* A thread that stops in wait() is where signal() will find it, and a thread that
\* does not wait is not there, for any programs, any number of threads, memory that
\* runs out and a timer interrupt between any two steps.
THEOREM NoWakeUpIsLost == SyncSpec => []WaitersAreQueued
<1> USE TimeQueueAssumption, SchedulerAssumption, ThreadingAssumption DEF Assumptions
<1>1. SyncInit => SyncInv
  BY ExclusionStarts, SyncStarts, SemaphoreAssumption
<1>2. SyncInv /\ [SyncNext]_allVars => SyncInv'
  BY StepKeepsQueue, SemaphoreAssumption
<1>3. SyncInv => WaitersAreQueued
  <2> SUFFICES ASSUME SyncInv PROVE WaitersAreQueued
    OBVIOUS
  <2>1. SyncTypeOK
    BY DEF SyncInv, SemInv, ManagerInv, OperationTypes, SyncTypeOK
  <2>2. at \in [Thread -> Stages] /\ KernelThread \subseteq Thread
    BY DEF SyncInv, SemInv, ThreadingAssumption
  <2>3. QED BY <2>1, <2>2 DEF SyncInv, QueueInv, WaitersAreQueued, Threads
<1>4. QED BY <1>1, <1>2, <1>3, PTL DEF SyncSpec
=============================================================================
