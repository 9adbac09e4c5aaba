----------------------------- MODULE TimeQueue -----------------------------
(***************************************************************************)
(* TimeQueue of kernel/threading.zig: the threads that sleep, as a doubly  *)
(* linked list laid over a fixed array of elements.  insert() takes the    *)
(* first invalid element and links it in by deadline; check() pops the     *)
(* head once its deadline has passed and returns the thread to wake.       *)
(*                                                                         *)
(* The links are kept as the code keeps them, because what matters is      *)
(* which elements a walk from head along next still reaches.               *)
(***************************************************************************)
EXTENDS Naturals

CONSTANTS
  Thread,   \* the thread ids that may sleep
  Slots,    \* number of elements; init() allocates 8
  NULL      \* a null pointer; also "no thread"

ASSUME TimeQueueAssumption ==
  /\ Slots \in Nat \ {0}
  /\ NULL \notin Thread
  /\ NULL \notin Nat

VARIABLES
  elements,  \* index -> [valid, tid, when, prev, next]
  head, tail

queueVars == <<elements, head, tail>>

Slot == 1..Slots
Link == Slot \cup {NULL}
Element == [valid : BOOLEAN, tid : Thread \cup {NULL}, when : Nat,
            prev : Link, next : Link]

\* TimeQueue.init(): only "valid" is assigned, the other fields of an element
\* are undefined memory that no walk reads before insert() writes it.
QueueInit ==
  /\ elements = [s \in Slot |-> [valid |-> FALSE, tid |-> NULL, when |-> 0,
                                 prev |-> NULL, next |-> NULL]]
  /\ head = NULL
  /\ tail = NULL

-----------------------------------------------------------------------------
\* The elements a walk from s along next visits (s included): the least set
\* that holds s and is closed under next.
ReachableFrom(s) ==
  {x \in Slot : \A S \in SUBSET Slot :
     (/\ s \in S
      /\ \A y \in S : elements[y].next # NULL => elements[y].next \in S) => x \in S}

Linked == IF head = NULL THEN {} ELSE ReachableFrom(head)

\* "while (self.elements[index].valid) index += 1"
FirstFree(s) == ~elements[s].valid /\ \A r \in 1..(s - 1) : elements[r].valid

Full == \A s \in Slot : elements[s].valid

\* Mutant: the walk does not stop at the first.
SomeLater(c, when) == c \in Linked /\ when < elements[c].when

\* The walk of insert() from head stops at the first element that is later
\* than when, so an element with the same deadline stays in front.
FirstLater(c, when) ==
  /\ c \in Linked
  /\ when < elements[c].when
  /\ \A d \in Linked : when < elements[d].when => d \in ReachableFrom(c)

NoneLater(when) == \A d \in Linked : when >= elements[d].when

\* Mutant: element.next is not set.
FillOneLink(es, s, tid, when, p, n) ==
  [es EXCEPT ![s] = [valid |-> TRUE, tid |-> tid, when |-> when,
                     prev |-> p, next |-> NULL]]

\* Writes the payload of a free element and the two links given.
Fill(es, s, tid, when, p, n) ==
  [es EXCEPT ![s] = [valid |-> TRUE, tid |-> tid, when |-> when,
                     prev |-> p, next |-> n]]

InsertInto(s, tid, when) ==
  \/ /\ head = NULL
     /\ elements' = Fill(elements, s, tid, when, NULL, NULL)
     /\ head' = s
     /\ tail' = s
  \/ /\ head # NULL
     /\ \E c \in Slot :
          /\ FirstLater(c, when)
          /\ LET p == elements[c].prev
                 filled == Fill(elements, s, tid, when, p, c)
             IN IF p = NULL
                THEN /\ elements' = [filled EXCEPT ![c].prev = s]
                     /\ head' = s
                ELSE /\ elements' = [filled EXCEPT ![c].prev = s, ![p].next = s]
                     /\ UNCHANGED head
     /\ UNCHANGED tail
  \* "Tack on end": the old tail's next is left as it was.
  \/ /\ head # NULL
     /\ NoneLater(when)
     /\ elements' = Fill(elements, s, tid, when, tail, NULL)
     /\ tail' = s
     /\ UNCHANGED head

Insert(tid, when) == \E s \in Slot : FirstFree(s) /\ InsertInto(s, tid, when)

\* Mutant: one unit of the clock too early.
AlmostDue(now) == head # NULL /\ now + 1 >= elements[head].when

\* The deadline of the head has passed at time now: check() will pop it.
Due(now) == head # NULL /\ now >= elements[head].when

\* The thread check() returns.
DueThread == elements[head].tid

\* The popped element keeps its links; its successor loses its prev.
PopHead ==
  LET n == elements[head].next
      popped == [elements EXCEPT ![head].valid = FALSE]
  IN /\ elements' = IF n = NULL THEN popped ELSE [popped EXCEPT ![n].prev = NULL]
     /\ head' = n
     /\ tail' = IF n = NULL THEN NULL ELSE tail

-----------------------------------------------------------------------------
QueueTypeOK ==
  /\ elements \in [Slot -> Element]
  /\ head \in Link
  /\ tail \in Link
  /\ head = NULL <=> tail = NULL

\* A walk from head meets the sleepers in the order they must wake: along next
\* no deadline decreases, prev is the inverse of next, and every element met
\* holds a sleeping thread.  insert() relies on it to place the next sleeper and
\* check() to look at the head only.
SortedByDeadline ==
  /\ QueueTypeOK
  /\ \A s \in Linked :
       /\ elements[s].valid
       /\ elements[s].next # NULL =>
            /\ elements[s].when <= elements[elements[s].next].when
            /\ elements[elements[s].next].prev = s

\* Every element in use is found by the walk from head, so each sleeper will
\* be looked at by check() in its turn.
NoSleeperLost == \A s \in Slot : elements[s].valid => s \in Linked
=============================================================================
