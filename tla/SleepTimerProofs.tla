-------------------------- MODULE SleepTimerProofs --------------------------
(***************************************************************************)
(* The time queue on its own, for any number of threads and elements and   *)
(* any durations, as long as no sleeper joins at the end of a queue that   *)
(* is not empty: then no sleeper is lost, and the linked elements keep the *)
(* promise of sleep.                                                       *)
(***************************************************************************)
EXTENDS SleepTimer, TLAPS

NoneJoinsLast == LastMayJoin = FALSE

Valid == {s \in Slot : elements[s].valid}

\* The valid elements are linked both ways, in the order of their deadlines; each holds a
\* thread of its own.
ChainInv ==
  /\ head = NULL <=> Valid = {}
  /\ head # NULL => head \in Valid
  /\ \A s \in Valid :
       /\ elements[s].tid \in Thread
       /\ elements[s].prev = NULL <=> s = head
       /\ elements[s].prev # NULL =>
            elements[s].prev \in Valid /\ elements[elements[s].prev].next = s
       /\ elements[s].next # NULL =>
            /\ elements[s].next \in Valid /\ elements[elements[s].next].prev = s
            /\ elements[s].when <= elements[elements[s].next].when
       /\ \A r \in Valid : elements[r].tid = elements[s].tid => r = s

\* Following prev leads out of every set of valid elements.
NoCycles == \A S \in SUBSET Valid : S # {} => \E s \in S : elements[s].prev \notin S

TimerInv == QueueTypeOK /\ now \in Nat /\ ChainInv /\ NoCycles

-----------------------------------------------------------------------------
(* The walk along next *)

\* An element is an index, and NULL is none.
LEMMA SlotsAreNumbers ==
  /\ \A s \in Slot : s \in Nat /\ s # NULL
  /\ NULL \notin Slot /\ NULL \notin Thread /\ NULL \notin Nat
BY TimeQueueAssumption DEF Slot

\* What is known of an element in use.
LEMMA ValidElement ==
  ASSUME QueueTypeOK, NEW s \in Slot
  PROVE  /\ elements[s].valid \in BOOLEAN /\ elements[s].tid \in Thread \cup {NULL}
         /\ elements[s].when \in Nat /\ elements[s].prev \in Slot \cup {NULL}
         /\ elements[s].next \in Slot \cup {NULL} /\ elements[s] \in Element
BY DEF QueueTypeOK, Element, Link

\* A walk visits where it begins, and what follows in any set it cannot leave.
LEMMA WalkStays ==
  ASSUME NEW s \in Slot
  PROVE  /\ s \in ReachableFrom(s)
         /\ ReachableFrom(s) \subseteq Slot
         /\ \A x \in ReachableFrom(s) : elements[x].next \in Slot => elements[x].next \in ReachableFrom(s)
         /\ \A S \in SUBSET Slot :
              s \in S /\ (\A y \in S : elements[y].next # NULL => elements[y].next \in S) =>
                ReachableFrom(s) \subseteq S
<1>1. ASSUME NEW x \in ReachableFrom(s), elements[x].next \in Slot
      PROVE  elements[x].next \in ReachableFrom(s)
  <2>1. ASSUME NEW S \in SUBSET Slot, s \in S,
               \A y \in S : elements[y].next # NULL => elements[y].next \in S
        PROVE  elements[x].next \in S
    <3>1. x \in S
      BY <1>1, <2>1 DEF ReachableFrom
    <3>2. QED BY <1>1, <2>1, <3>1, SlotsAreNumbers
  <2>2. QED BY <1>1, <2>1 DEF ReachableFrom
<1>2. QED BY <1>1 DEF ReachableFrom

\* The walk from head meets all valid elements and no others.
LEMMA LinkedIsValid ==
  ASSUME QueueTypeOK, ChainInv, NoCycles
  PROVE  Linked = Valid
<1>1. CASE head = NULL
  BY <1>1 DEF Linked, ChainInv
<1>2. CASE head # NULL
  <2>1. head \in Slot /\ head \in Valid /\ Linked = ReachableFrom(head)
    BY <1>2 DEF QueueTypeOK, Link, Linked, ChainInv
  <2>2. Linked \subseteq Valid
    <3>1. Valid \in SUBSET Slot /\ \A y \in Valid : elements[y].next # NULL => elements[y].next \in Valid
      BY DEF Valid, ChainInv
    <3>2. QED BY <2>1, <3>1, WalkStays
  <2>3. SUFFICES ASSUME Valid \ Linked # {} PROVE FALSE
    BY <2>2
  <2>4. PICK s \in Valid \ Linked : elements[s].prev \notin Valid \ Linked
    BY <2>3 DEF NoCycles
  <2>5. s # head
    BY <2>1, <2>4, WalkStays
  <2>6. elements[s].prev \in Valid /\ elements[elements[s].prev].next = s
    BY <2>4, <2>5 DEF ChainInv
  <2>7. elements[s].prev \in Linked /\ s \in Slot
    BY <2>4, <2>6 DEF Valid
  <2>8. s \in Linked
    BY <2>1, <2>6, <2>7, WalkStays
  <2>9. QED BY <2>4, <2>8
<1>3. QED BY <1>1, <1>2

\* A walk from an element does not come back to the one before it.
LEMMA WalkGoesOn ==
  ASSUME QueueTypeOK, ChainInv, NoCycles, NEW c \in Valid, elements[c].prev # NULL
  PROVE  elements[c].prev \notin ReachableFrom(c)
<1> SUFFICES ASSUME elements[c].prev \in ReachableFrom(c) PROVE FALSE
  OBVIOUS
<1> DEFINE R == ReachableFrom(c)
<1>1. c \in Slot /\ c \in R /\ R \subseteq Slot
  BY WalkStays DEF Valid
<1>2. R \subseteq Valid
  <2>1. Valid \in SUBSET Slot /\ \A y \in Valid : elements[y].next # NULL => elements[y].next \in Valid
    BY DEF Valid, ChainInv
  <2>2. QED BY <1>1, <2>1, WalkStays
<1>3. PICK x \in R : elements[x].prev \notin R
  BY <1>1, <1>2 DEF NoCycles
<1>4. x # c
  BY <1>3
<1>5. c \in R \ {x} /\ R \ {x} \in SUBSET Slot
  BY <1>1, <1>4
<1>6. ASSUME NEW y \in R \ {x}, elements[y].next # NULL PROVE elements[y].next \in R \ {x}
  <2>1. elements[y].next \in Slot
    BY <1>1, <1>6, ValidElement
  <2>2. elements[y].next \in R
    BY <1>1, <1>6, <2>1, WalkStays
  <2>3. elements[elements[y].next].prev = y
    BY <1>2, <1>6 DEF ChainInv
  <2>4. elements[y].next # x
    BY <1>3, <1>6, <2>3
  <2>5. QED BY <2>2, <2>4
<1> HIDE DEF R
<1>7. R \subseteq R \ {x}
  BY <1>1, <1>5, <1>6, WalkStays DEF R
<1>8. QED BY <1>3, <1>7

\* No sleeper's deadline is before that of the head.
LEMMA HeadIsFirst ==
  ASSUME QueueTypeOK, ChainInv, NoCycles, NEW s \in Valid
  PROVE  head \in Valid /\ elements[head].when <= elements[s].when
<1>1. head \in Valid
  BY DEF ChainInv
<1> DEFINE S == {r \in Valid : elements[r].when < elements[head].when}
<1>2. ASSUME NEW r \in S PROVE elements[r].prev \in S
  <2>1. r \in Valid /\ elements[r].when < elements[head].when
    BY <1>2
  <2>2. PICK q : q = elements[r].prev
    OBVIOUS
  <2>3. elements[r].when \in Nat /\ elements[head].when \in Nat
    BY <1>1, <2>1, ValidElement DEF Valid
  <2>4. r # head
    BY <2>1, <2>3
  <2>5. q \in Valid /\ elements[q].next = r
    BY <2>1, <2>2, <2>4 DEF ChainInv
  <2>6. elements[q].when <= elements[r].when
    <3>1. r # NULL
      BY <2>1, SlotsAreNumbers DEF Valid
    <3>2. QED BY <2>5, <3>1 DEF ChainInv
  <2>7. elements[q].when \in Nat
    BY <2>5, ValidElement DEF Valid
  <2>8. elements[q].when < elements[head].when
    BY <2>1, <2>3, <2>6, <2>7
  <2>9. QED BY <2>2, <2>5, <2>8
<1>3. S = {}
  BY <1>2 DEF NoCycles
<1>4. elements[s].when \in Nat /\ elements[head].when \in Nat
  BY <1>1, ValidElement DEF Valid
<1>5. ~(elements[s].when < elements[head].when)
  BY <1>3
<1>6. QED BY <1>1, <1>4, <1>5
-----------------------------------------------------------------------------
(* insert() *)

\* The elements after insert(): what the new one is linked to, and nothing else changes
\* but the links to it.
Inserts(s, t, when) ==
  /\ s \in Slot \ Valid /\ QueueTypeOK' /\ Valid' = Valid \cup {s}
  /\ elements'[s].tid = t /\ elements'[s].when = when
  /\ \A r \in Valid : elements'[r].tid = elements[r].tid /\ elements'[r].when = elements[r].when

\* The assignments of insert() that link a new element in before c.
LinkBefore(s, t, when, c, p) ==
  /\ p = elements[c].prev
  /\ LET filled == Fill(elements, s, t, when, p, c)
     IN IF p = NULL
        THEN elements' = [filled EXCEPT ![c].prev = s] /\ head' = s
        ELSE elements' = [filled EXCEPT ![c].prev = s, ![p].next = s] /\ head' = head
  /\ tail' = tail

\* insert() before the first element that is later.
LEMMA InsertBefore ==
  ASSUME QueueTypeOK, ChainInv, NoCycles, NEW t \in Thread, NEW when \in Nat,
         NEW s \in Slot \ Valid, NEW c \in Slot, FirstLater(c, when),
         NEW p, LinkBefore(s, t, when, c, p), \A r \in Valid : elements[r].tid # t
  PROVE  Inserts(s, t, when) /\ ChainInv' /\ NoCycles'
<1>1. c \in Valid /\ s # c /\ when < elements[c].when
  BY LinkedIsValid DEF FirstLater
<1>p. p = elements[c].prev /\ head' = (IF p = NULL THEN s ELSE head) /\ tail' = tail
  BY DEF LinkBefore
<1>2. p = NULL \/ (p \in Valid /\ p # s /\ p # c /\ elements[p].next = c)
  <2>1. SUFFICES ASSUME p # NULL PROVE p \in Valid /\ p # s /\ p # c /\ elements[p].next = c
    OBVIOUS
  <2>2. p \in Valid /\ elements[p].next = c
    BY <1>1, <1>p, <2>1 DEF ChainInv
  <2>3. p # c
    <3>1. p \notin ReachableFrom(c)
      BY <1>1, <1>p, <2>1, WalkGoesOn
    <3>2. QED BY <3>1, WalkStays
  <2>4. QED BY <2>2, <2>3
<1>3. elements \in [Slot -> Element] /\ s \in Slot /\ s # NULL /\ c # NULL
  BY SlotsAreNumbers DEF QueueTypeOK
<1>4. p # NULL => p \in Slot
  BY <1>2 DEF Valid
<1>5. /\ elements'[s] = [valid |-> TRUE, tid |-> t, when |-> when, prev |-> p, next |-> c]
      /\ elements'[c] = [elements[c] EXCEPT !.prev = s]
      /\ p # NULL => elements'[p] = [elements[p] EXCEPT !.next = s]
      /\ \A r \in Slot \ {s, c, p} : elements'[r] = elements[r]
      /\ elements' \in [Slot -> Element]
  <2> DEFINE new == [valid |-> TRUE, tid |-> t, when |-> when, prev |-> p, next |-> c]
             filled == [elements EXCEPT ![s] = new]
  <2>1. new \in Element
    BY <1>3, <1>4 DEF Element, Link
  <2>2. elements[c] \in Element /\ (p # NULL => elements[p] \in Element)
    BY <1>3, <1>4
  <2>3. [elements[c] EXCEPT !.prev = s] \in Element
        /\ (p # NULL => [elements[p] EXCEPT !.next = s] \in Element)
    BY <1>3, <2>2 DEF Element, Link
  <2>4. filled = [elements EXCEPT ![s] = new] /\ filled \in [Slot -> Element]
        /\ filled[c] = elements[c] /\ filled[s] = new
        /\ (p # NULL => filled[p] = elements[p])
    BY <1>1, <1>2, <1>3, <1>4, <2>1
  <2>5. elements' = IF p = NULL THEN [filled EXCEPT ![c] = [elements[c] EXCEPT !.prev = s]]
                    ELSE [filled EXCEPT ![c] = [elements[c] EXCEPT !.prev = s],
                                        ![p] = [elements[p] EXCEPT !.next = s]]
    <3>1. elements' = IF p = NULL THEN [filled EXCEPT ![c].prev = s]
                      ELSE [filled EXCEPT ![c].prev = s, ![p].next = s]
      BY DEF LinkBefore, Fill
    <3> HIDE DEF filled
    <3>2. CASE p = NULL
      BY <2>4, <3>1, <3>2
    <3>3. CASE p # NULL
      BY <1>2, <1>3, <1>4, <2>4, <3>1, <3>3
    <3>4. QED BY <3>2, <3>3
  <2> HIDE DEF new
  <2>6. CASE p = NULL
    BY <1>1, <1>3, <2>1, <2>3, <2>4, <2>5, <2>6 DEF new
  <2>7. CASE p # NULL
    BY <1>1, <1>2, <1>3, <1>4, <2>1, <2>3, <2>4, <2>5, <2>7 DEF new
  <2>8. QED BY <2>6, <2>7
<1>6. /\ elements'[s].valid /\ elements'[s].tid = t /\ elements'[s].when = when
      /\ elements'[s].prev = p /\ elements'[s].next = c
      /\ elements'[c].prev = s /\ elements'[c].next = elements[c].next
      /\ p # NULL => elements'[p].next = s /\ elements'[p].prev = elements[p].prev
  BY <1>1, <1>2, <1>3, <1>4, <1>5 DEF Element
<1>7. \A r \in Slot \ {s} : /\ elements'[r].valid = elements[r].valid
                            /\ elements'[r].tid = elements[r].tid
                            /\ elements'[r].when = elements[r].when
  <2>1. ASSUME NEW r \in Slot \ {s}
        PROVE  /\ elements'[r].valid = elements[r].valid
               /\ elements'[r].tid = elements[r].tid
               /\ elements'[r].when = elements[r].when
    <3>1. elements[r] \in Element
      BY <1>3
    <3>2. CASE r = c
      BY <1>5, <3>1, <3>2 DEF Element
    <3>3. CASE r = p
      <4>1. p # NULL
        BY <3>3, SlotsAreNumbers
      <4>2. QED BY <1>5, <3>1, <3>3, <4>1 DEF Element
    <3>4. CASE r # c /\ r # p
      BY <1>5, <2>1, <3>4
    <3>5. QED BY <3>2, <3>3, <3>4
  <2>2. QED BY <2>1
<1>8. /\ \A r \in Valid \ {c} : elements'[r].prev = elements[r].prev
      /\ \A r \in Valid \ {p} : elements'[r].next = elements[r].next
  <2>1. ASSUME NEW r \in Valid \ {c} PROVE elements'[r].prev = elements[r].prev
    <3>1. r \in Slot /\ r # s /\ r # NULL
      BY SlotsAreNumbers DEF Valid
    <3>2. QED BY <1>5, <1>6, <2>1, <3>1
  <2>2. ASSUME NEW r \in Valid \ {p} PROVE elements'[r].next = elements[r].next
    <3>1. r \in Slot /\ r # s /\ r # NULL
      BY SlotsAreNumbers DEF Valid
    <3>2. QED BY <1>5, <1>6, <2>2, <3>1
  <2>3. QED BY <2>1, <2>2
<1>9. Valid' = Valid \cup {s}
  BY <1>3, <1>6, <1>7 DEF Valid
<1>10. QueueTypeOK' /\ head # NULL /\ head \in Valid
  <2>1. head # NULL /\ head \in Valid
    BY <1>1 DEF ChainInv
  <2>2. QED BY <1>3, <1>5, <1>p, <2>1 DEF QueueTypeOK, Link
<1>11. p # NULL => elements[p].when <= when
  <2>1. SUFFICES ASSUME p # NULL PROVE elements[p].when <= when
    OBVIOUS
  <2>2. p \notin ReachableFrom(c)
    BY <1>1, <1>p, <2>1, WalkGoesOn
  <2>3. p \in Linked
    BY <1>2, <2>1, LinkedIsValid
  <2>4. ~(when < elements[p].when)
    BY <2>2, <2>3 DEF FirstLater
  <2>5. elements[p].when \in Nat
    BY <1>4, <2>1, ValidElement
  <2>6. QED BY <2>4, <2>5
<1>12. ChainInv'
  <2>1. head' # NULL /\ head' \in Valid'
    BY <1>3, <1>9, <1>10, <1>p
  <2>2. ASSUME NEW r \in Valid' PROVE elements'[r].tid \in Thread
    BY <1>6, <1>7, <1>9, <2>2 DEF ChainInv, Valid
  <2>3. ASSUME NEW r \in Valid' PROVE elements'[r].prev = NULL <=> r = head'
    <3>1. CASE r = s
      <4>1. s # head
        BY <1>10
      <4>2. QED BY <1>6, <1>p, <3>1, <4>1
    <3>2. CASE r = c
      <4>1. elements'[r].prev # NULL
        BY <1>3, <1>6, <3>2
      <4>2. c = head => p = NULL
        BY <1>1, <1>p DEF ChainInv
      <4>3. QED BY <1>1, <1>p, <3>2, <4>1, <4>2
    <3>3. CASE r # s /\ r # c
      <4>1. r \in Valid /\ elements'[r].prev = elements[r].prev
        BY <1>8, <1>9, <3>3
      <4>2. p = NULL => c = head
        BY <1>1, <1>p DEF ChainInv
      <4>3. QED BY <1>p, <3>3, <4>1, <4>2 DEF ChainInv
    <3>4. QED BY <3>1, <3>2, <3>3
  <2>4. ASSUME NEW r \in Valid', elements'[r].prev # NULL
        PROVE  elements'[r].prev \in Valid' /\ elements'[elements'[r].prev].next = r
    <3>1. CASE r = s
      BY <1>2, <1>6, <1>9, <2>4, <3>1
    <3>2. CASE r = c
      BY <1>6, <1>9, <3>2
    <3>3. CASE r # s /\ r # c
      <4>1. r \in Valid /\ elements'[r].prev = elements[r].prev
        BY <1>8, <1>9, <3>3
      <4>2. PICK q : q = elements[r].prev
        OBVIOUS
      <4>3. q \in Valid /\ elements[q].next = r
        BY <2>4, <4>1, <4>2 DEF ChainInv
      <4>4. q # p
        BY <1>2, <3>3, <4>3, SlotsAreNumbers DEF Valid
      <4>5. elements'[q].next = r
        BY <1>8, <4>3, <4>4
      <4>6. QED BY <1>9, <4>1, <4>2, <4>3, <4>5
    <3>4. QED BY <3>1, <3>2, <3>3
  <2>5. ASSUME NEW r \in Valid', elements'[r].next # NULL
        PROVE  /\ elements'[r].next \in Valid' /\ elements'[elements'[r].next].prev = r
               /\ elements'[r].when <= elements'[elements'[r].next].when
    <3>1. CASE r = s
      <4>1. elements'[c].when = elements[c].when /\ elements[c].when \in Nat
        BY <1>1, <1>7, ValidElement DEF Valid
      <4>2. QED BY <1>1, <1>6, <1>9, <3>1, <4>1
    <3>2. CASE r = p /\ r # s
      <4>1. p # NULL /\ p \in Slot /\ p # s
        BY <1>9, <3>2, SlotsAreNumbers DEF Valid
      <4>2. elements'[p].next = s /\ elements'[s].prev = p /\ elements'[p].when = elements[p].when
        BY <1>6, <1>7, <4>1
      <4>3. QED BY <1>6, <1>9, <1>11, <3>2, <4>1, <4>2
    <3>3. CASE r # s /\ r # p
      <4>1. r \in Valid /\ elements'[r].next = elements[r].next
        BY <1>8, <1>9, <3>3
      <4>2. PICK q : q = elements[r].next
        OBVIOUS
      <4>3. q \in Valid /\ elements[q].prev = r /\ elements[r].when <= elements[q].when
        BY <2>5, <4>1, <4>2 DEF ChainInv
      <4>4. q # c /\ q # s
        BY <1>p, <3>3, <4>3
      <4>5. elements'[q].prev = r /\ elements'[q].when = elements[q].when
            /\ elements'[r].when = elements[r].when
        BY <1>7, <1>8, <3>3, <4>1, <4>3, <4>4 DEF Valid
      <4>6. QED BY <1>9, <4>1, <4>2, <4>3, <4>5
    <3>4. QED BY <3>1, <3>2, <3>3
  <2>6. ASSUME NEW r \in Valid', NEW q \in Valid', elements'[q].tid = elements'[r].tid
        PROVE  q = r
    <3>1. \A v \in Valid : elements'[v].tid = elements[v].tid
      BY <1>7 DEF Valid
    <3>2. CASE r = s
      BY <1>6, <1>9, <2>6, <3>1, <3>2
    <3>3. CASE q = s
      BY <1>6, <1>9, <2>6, <3>1, <3>3
    <3>4. CASE r # s /\ q # s
      BY <1>9, <2>6, <3>1, <3>4 DEF ChainInv
    <3>5. QED BY <3>2, <3>3, <3>4
  <2>7. Valid' # {}
    BY <1>9
  <2>8. QED BY <2>1, <2>2, <2>3, <2>4, <2>5, <2>6, <2>7 DEF ChainInv
<1>13. NoCycles'
  <2> SUFFICES ASSUME NEW S \in SUBSET Valid', S # {}
               PROVE  \E r \in S : elements'[r].prev \notin S
    BY DEF NoCycles
  <2>1. p \notin {s}
    BY <1>2, <1>3
  <2>2. CASE S = {s}
    BY <1>6, <2>1, <2>2
  <2>3. CASE S # {s}
    <3>1. S \ {s} # {} /\ S \ {s} \in SUBSET Valid
      BY <1>9, <2>3
    <3>2. PICK x \in S \ {s} : elements[x].prev \notin S \ {s}
      BY <3>1 DEF NoCycles
    <3>3. elements[x].prev # s
      <4>1. x \in Valid
        BY <3>1
      <4>2. QED BY <1>3, <4>1 DEF ChainInv
    <3>4. CASE x # c
      <4>1. elements'[x].prev = elements[x].prev
        BY <1>8, <3>1, <3>4
      <4>2. QED BY <3>2, <3>3, <4>1
    <3>5. CASE x = c /\ s \notin S
      BY <1>6, <3>5
    <3>6. CASE x = c /\ s \in S
      BY <1>6, <1>p, <2>1, <3>2, <3>6
    <3>7. QED BY <3>4, <3>5, <3>6
  <2>4. QED BY <2>2, <2>3
<1>14. Inserts(s, t, when)
  BY <1>6, <1>7, <1>9, <1>10 DEF Inserts, Valid
<1>15. QED BY <1>12, <1>13, <1>14
\* insert() into an empty queue.
LEMMA InsertFirst ==
  ASSUME QueueTypeOK, ChainInv, head = NULL, NEW t \in Thread, NEW when \in Nat,
         NEW s \in Slot \ Valid, InsertInto(s, t, when)
  PROVE  Inserts(s, t, when) /\ ChainInv' /\ NoCycles'
<1>1. /\ elements' = Fill(elements, s, t, when, NULL, NULL)
      /\ head' = s /\ tail' = s
  BY DEF InsertInto
<1>2. Valid = {} /\ s \in Slot /\ s # NULL /\ elements \in [Slot -> Element]
  BY SlotsAreNumbers DEF ChainInv, QueueTypeOK
<1>3. /\ elements' \in [Slot -> Element]
      /\ elements'[s] = [valid |-> TRUE, tid |-> t, when |-> when, prev |-> NULL, next |-> NULL]
      /\ \A r \in Slot \ {s} : elements'[r] = elements[r]
  BY <1>1, <1>2 DEF Fill, Element, Link
<1>4. Valid' = {s}
  BY <1>2, <1>3 DEF Valid
<1>5. QueueTypeOK'
  BY <1>1, <1>2, <1>3 DEF QueueTypeOK, Link
<1>6. Inserts(s, t, when)
  BY <1>2, <1>3, <1>4, <1>5 DEF Inserts
<1>7. ChainInv'
  BY <1>1, <1>2, <1>3, <1>4 DEF ChainInv
<1>8. NoCycles'
  BY <1>2, <1>3, <1>4 DEF NoCycles
<1>9. QED BY <1>6, <1>7, <1>8

\* A thread falls asleep: its element is new and linked in.
LEMMA SleepKeeps ==
  ASSUME TimerInv, NoneJoinsLast, NEW t \in Thread, NEW d \in Durations, Sleep(t, d)
  PROVE  /\ TimerInv' /\ now' = now
         /\ \A r \in Valid : elements[r].tid # t
         /\ \E s \in Slot : Inserts(s, t, now + d)
<1>1. QueueTypeOK /\ ChainInv /\ NoCycles /\ now + d \in Nat
  BY SleepTimerAssumption DEF TimerInv
<1>2. PICK when \in Nat : when = now + d
  BY <1>1
<1>3. PICK s \in Slot : FirstFree(s) /\ InsertInto(s, t, when)
  BY <1>2 DEF Sleep, Insert
<1>4. s \in Slot \ Valid
  BY <1>3 DEF FirstFree, Valid
<1>5. \A r \in Valid : elements[r].tid # t
  BY DEF Sleep, Asleep, Valid
<1>6. Inserts(s, t, when) /\ ChainInv' /\ NoCycles'
  <2>1. CASE head = NULL
    BY <1>1, <1>3, <1>4, <2>1, InsertFirst
  <2>2. CASE head # NULL
    <3>1. ~NoneLater(when)
      BY <1>2, <2>2 DEF Sleep, NoneJoinsLast
    <3>2. PICK c \in Slot : FirstLater(c, when) /\ LinkBefore(s, t, when, c, elements[c].prev)
      BY <1>3, <2>2, <3>1 DEF InsertInto, LinkBefore
    <3>3. QED BY <1>1, <1>4, <1>5, <3>2, InsertBefore
  <2>3. QED BY <2>1, <2>2
<1>7. now' = now /\ now \in Nat
  BY DEF Sleep, TimerInv
<1>8. QED BY <1>2, <1>5, <1>6, <1>7 DEF TimerInv, Inserts

-----------------------------------------------------------------------------
(* check() *)

\* A thread wakes: the head's element is free, and nothing else changes but its successor.
LEMMA CheckKeeps ==
  ASSUME TimerInv, Check
  PROVE  /\ TimerInv' /\ now' = now /\ head \in Valid
         /\ Valid' = Valid \ {head}
         /\ \A r \in Valid' : elements'[r].tid = elements[r].tid /\ elements'[r].when = elements[r].when
<1> DEFINE h == head
           n == elements[h].next
<1>1. QueueTypeOK /\ ChainInv /\ NoCycles /\ now \in Nat
  BY DEF TimerInv
<1>2. head # NULL /\ now' = now
  BY DEF Check, Due
<1>3. h \in Valid /\ h \in Slot /\ elements \in [Slot -> Element]
  BY <1>1, <1>2 DEF ChainInv, Valid, QueueTypeOK
<1>4. n \in Slot \cup {NULL} /\ NULL \notin Slot
  BY <1>1, <1>3, ValidElement, SlotsAreNumbers
<1>5. n # NULL => n \in Valid /\ elements[n].prev = h /\ n # h
  <2>1. SUFFICES ASSUME n # NULL PROVE n \in Valid /\ elements[n].prev = h /\ n # h
    OBVIOUS
  <2>2. n \in Valid /\ elements[n].prev = h
    BY <1>1, <1>3, <2>1 DEF ChainInv
  <2>3. elements[h].prev = NULL
    BY <1>1, <1>3 DEF ChainInv
  <2>4. QED BY <1>3, <1>4, <2>2, <2>3
<1>6. head' = n /\ tail' = IF n = NULL THEN NULL ELSE tail
  BY DEF Check, PopHead
<1>7. elements' = IF n = NULL THEN [elements EXCEPT ![h] = [elements[h] EXCEPT !.valid = FALSE]]
                  ELSE [elements EXCEPT ![h] = [elements[h] EXCEPT !.valid = FALSE],
                                        ![n] = [elements[n] EXCEPT !.prev = NULL]]
  <2>1. elements' = IF n = NULL THEN [elements EXCEPT ![h].valid = FALSE]
                    ELSE [[elements EXCEPT ![h].valid = FALSE] EXCEPT ![n].prev = NULL]
    BY DEF Check, PopHead
  <2> HIDE DEF n, h
  <2>2. CASE n = NULL
    BY <1>3, <2>1, <2>2
  <2>3. CASE n # NULL
    BY <1>3, <1>4, <1>5, <2>1, <2>3
  <2>4. QED BY <2>2, <2>3
<1> HIDE DEF n, h
<1>8. elements[h] \in Element /\ (n # NULL => n \in Slot /\ elements[n] \in Element)
  BY <1>3, <1>4
<1>9. /\ [elements[h] EXCEPT !.valid = FALSE] \in Element
      /\ n # NULL => [elements[n] EXCEPT !.prev = NULL] \in Element
  BY <1>8 DEF Element, Link
<1>10. /\ elements' \in [Slot -> Element]
       /\ elements'[h] = [elements[h] EXCEPT !.valid = FALSE]
       /\ n # NULL => elements'[n] = [elements[n] EXCEPT !.prev = NULL]
       /\ \A r \in Slot \ {h, n} : elements'[r] = elements[r]
  <2>1. CASE n = NULL
    BY <1>3, <1>7, <1>9, <2>1
  <2>2. CASE n # NULL
    BY <1>3, <1>5, <1>7, <1>8, <1>9, <2>2
  <2>3. QED BY <2>1, <2>2
<1>11. /\ ~elements'[h].valid
       /\ n # NULL => elements'[n].prev = NULL
       /\ \A r \in Slot \ {h} : /\ elements'[r].valid = elements[r].valid
                                /\ elements'[r].tid = elements[r].tid
                                /\ elements'[r].when = elements[r].when
                                /\ elements'[r].next = elements[r].next
                                /\ r # n => elements'[r].prev = elements[r].prev
  <2>1. ~elements'[h].valid /\ (n # NULL => elements'[n].prev = NULL)
    BY <1>8, <1>10 DEF Element
  <2>2. ASSUME NEW r \in Slot \ {h}
        PROVE  /\ elements'[r].valid = elements[r].valid
               /\ elements'[r].tid = elements[r].tid
               /\ elements'[r].when = elements[r].when
               /\ elements'[r].next = elements[r].next
               /\ r # n => elements'[r].prev = elements[r].prev
    <3>1. CASE r = n
      <4>1. n # NULL
        BY <1>4, <3>1
      <4>2. QED BY <1>8, <1>10, <3>1, <4>1 DEF Element
    <3>2. CASE r # n
      BY <1>10, <2>2, <3>2
    <3>3. QED BY <3>1, <3>2
  <2>3. QED BY <2>1, <2>2
<1>12. Valid' = Valid \ {h} /\ \A r \in Valid' : r \in Slot \ {h} /\ r # NULL
  BY <1>4, <1>11 DEF Valid
<1>13. QueueTypeOK'
  BY <1>1, <1>2, <1>4, <1>6, <1>10 DEF QueueTypeOK, Link
<1>14. ChainInv'
  <2>1. head' = NULL <=> Valid' = {}
    <3>1. CASE n = NULL
      <4>1. ASSUME NEW r \in Valid' PROVE FALSE
        <5> DEFINE S == Valid \ {h}
        <5>1. S # {} /\ S \in SUBSET Valid
          BY <1>12, <4>1
        <5>2. PICK q \in S : elements[q].prev \notin S
          BY <1>1, <5>1 DEF NoCycles
        <5>3. q # head /\ q \in Valid
          BY DEF h
        <5>4. elements[q].prev \in Valid /\ elements[elements[q].prev].next = q
          BY <1>1, <5>3 DEF ChainInv
        <5>5. elements[q].prev = h
          BY <5>2, <5>4
        <5>6. elements[h].next = q
          BY <5>4, <5>5
        <5>7. q \in Slot
          BY <5>3 DEF Valid
        <5>8. QED BY <1>4, <3>1, <5>6, <5>7 DEF n
      <4>2. QED BY <1>6, <3>1, <4>1
    <3>2. CASE n # NULL
      BY <1>5, <1>6, <1>12, <3>2
    <3>3. QED BY <3>1, <3>2
  <2>2. head' # NULL => head' \in Valid'
    BY <1>5, <1>6, <1>12
  <2>3. ASSUME NEW r \in Valid' PROVE elements'[r].tid \in Thread
    BY <1>1, <1>11, <1>12, <2>3 DEF ChainInv
  <2>4. ASSUME NEW r \in Valid' PROVE elements'[r].prev = NULL <=> r = head'
    <3>1. CASE r = n
      BY <1>6, <1>11, <1>12, <2>4, <3>1
    <3>2. CASE r # n
      <4>1. elements'[r].prev = elements[r].prev /\ r \in Valid /\ r # head
        BY <1>11, <1>12, <2>4, <3>2 DEF h
      <4>2. elements[r].prev # NULL
        BY <1>1, <4>1 DEF ChainInv
      <4>3. QED BY <1>6, <3>2, <4>1, <4>2
    <3>3. QED BY <3>1, <3>2
  <2>5. ASSUME NEW r \in Valid', elements'[r].prev # NULL
        PROVE  elements'[r].prev \in Valid' /\ elements'[elements'[r].prev].next = r
    <3>1. r # n
      BY <1>11, <1>12, <2>5
    <3>2. elements'[r].prev = elements[r].prev /\ r \in Valid
      BY <1>11, <1>12, <2>5, <3>1
    <3>3. PICK q : q = elements[r].prev
      OBVIOUS
    <3>4. q \in Valid /\ elements[q].next = r
      BY <1>1, <2>5, <3>2, <3>3 DEF ChainInv
    <3>5. q # h
      BY <3>1, <3>4 DEF n
    <3>6. elements'[q].next = r
      BY <1>11, <1>12, <3>4, <3>5
    <3>7. QED BY <1>12, <3>2, <3>3, <3>4, <3>5, <3>6
  <2>6. ASSUME NEW r \in Valid', elements'[r].next # NULL
        PROVE  /\ elements'[r].next \in Valid' /\ elements'[elements'[r].next].prev = r
               /\ elements'[r].when <= elements'[elements'[r].next].when
    <3>1. r \in Valid /\ elements'[r].next = elements[r].next /\ r # h
      BY <1>11, <1>12, <2>6
    <3>2. PICK q : q = elements[r].next
      OBVIOUS
    <3>3. q \in Valid /\ elements[q].prev = r /\ elements[r].when <= elements[q].when
      BY <1>1, <2>6, <3>1, <3>2 DEF ChainInv
    <3>4. q # h
      <4>1. elements[h].prev = NULL
        BY <1>1, <1>3 DEF ChainInv, h
      <4>2. r # NULL
        BY <1>12, <2>6
      <4>3. QED BY <3>3, <4>1, <4>2
    <3>5. q # n
      BY <1>4, <1>5, <3>1, <3>3, SlotsAreNumbers DEF Valid
    <3>6. elements'[q].prev = r /\ elements'[q].when = elements[q].when
          /\ elements'[r].when = elements[r].when
      BY <1>11, <1>12, <2>6, <3>1, <3>3, <3>4, <3>5
    <3>7. QED BY <1>12, <3>1, <3>2, <3>3, <3>4, <3>6
  <2>7. ASSUME NEW r \in Valid', NEW q \in Valid', elements'[q].tid = elements'[r].tid
        PROVE  q = r
    BY <1>1, <1>11, <1>12, <2>7 DEF ChainInv
  <2>8. QED BY <2>1, <2>2, <2>3, <2>4, <2>5, <2>6, <2>7 DEF ChainInv
<1>15. NoCycles'
  <2> SUFFICES ASSUME NEW S \in SUBSET Valid', S # {}
               PROVE  \E r \in S : elements'[r].prev \notin S
    BY DEF NoCycles
  <2>1. PICK r \in S : elements[r].prev \notin S
    BY <1>1, <1>12 DEF NoCycles
  <2>2. elements'[r].prev = NULL \/ elements'[r].prev = elements[r].prev
    BY <1>11, <1>12
  <2>3. NULL \notin S
    BY <1>12
  <2>4. QED BY <2>1, <2>2, <2>3
<1>16. \A r \in Valid' : elements'[r].tid = elements[r].tid /\ elements'[r].when = elements[r].when
  BY <1>11, <1>12
<1>17. QED BY <1>1, <1>2, <1>3, <1>12, <1>13, <1>14, <1>15, <1>16 DEF TimerInv, h
-----------------------------------------------------------------------------
(* The invariant, and what follows from it *)

\* TimeQueue.init(): nobody sleeps.
LEMMA InitMakesTimer == Init => TimerInv
<1> SUFFICES ASSUME Init PROVE TimerInv
  OBVIOUS
<1>1. Valid = {}
  BY DEF Init, QueueInit, Valid
<1>2. QueueTypeOK /\ now \in Nat
  BY DEF Init, QueueInit, QueueTypeOK, Element, Link
<1>3. ChainInv /\ NoCycles
  BY <1>1 DEF ChainInv, NoCycles, Init, QueueInit
<1>4. QED BY <1>2, <1>3 DEF TimerInv

\* Every step keeps the invariant while no sleeper joins last.
LEMMA StepKeepsTimer ==
  ASSUME NoneJoinsLast
  PROVE  TimerInv /\ [Next]_vars => TimerInv'
<1> SUFFICES ASSUME TimerInv, [Next]_vars PROVE TimerInv'
  OBVIOUS
<1>1. ASSUME NEW t \in Thread, NEW d \in Durations, Sleep(t, d) PROVE TimerInv'
  BY <1>1, SleepKeeps
<1>2. CASE Check
  BY <1>2, CheckKeeps
<1>3. ASSUME UNCHANGED queueVars, now' \in Nat PROVE TimerInv'
  <2>1. Valid' = Valid /\ elements' = elements /\ head' = head /\ tail' = tail
    BY <1>3 DEF Valid, queueVars
  <2>2. ChainInv' /\ NoCycles'
    BY <2>1 DEF TimerInv, ChainInv, NoCycles
  <2>3. QED BY <1>3, <2>1, <2>2 DEF TimerInv, QueueTypeOK
<1>4. CASE Elapse
  <2>1. now' \in Nat
    BY <1>4 DEF Elapse, TimerInv
  <2>2. QED BY <1>3, <1>4, <2>1 DEF Elapse
<1>5. CASE UNCHANGED vars
  <2>1. UNCHANGED queueVars /\ now' \in Nat
    BY <1>5 DEF vars, queueVars, TimerInv
  <2>2. QED BY <1>3, <2>1
<1>6. QED BY <1>1, <1>2, <1>4, <1>5 DEF Next

\* The invariant holds for ever.
LEMMA TimerInvHolds ==
  ASSUME NoneJoinsLast
  PROVE  Spec => []TimerInv
<1>1. QED BY InitMakesTimer, StepKeepsTimer, PTL DEF Spec

\* Whoever falls asleep when, and whichever elements are used again: as long as nobody
\* joins at the end of a queue that is not empty, the walk of check() along next will come
\* to every sleeper.
THEOREM NoSleeperIsForgotten ==
  ASSUME NoneJoinsLast
  PROVE  Spec => []NoSleeperLost
<1>1. TimerInv => NoSleeperLost
  BY LinkedIsValid DEF TimerInv, NoSleeperLost, Valid
<1>2. QED BY TimerInvHolds, <1>1, PTL

\* The walk meets the sleepers in the order of their deadlines.
THEOREM SleepersStaySorted ==
  ASSUME NoneJoinsLast
  PROVE  Spec => []SortedByDeadline
<1>1. TimerInv => SortedByDeadline
  BY LinkedIsValid DEF TimerInv, SortedByDeadline, ChainInv, Valid
<1>2. QED BY TimerInvHolds, <1>1, PTL

-----------------------------------------------------------------------------
(* The linked elements keep the promise of sleep *)

\* The deadline of a thread is that of its element, if it has one.
DeadlinesOfElements ==
  /\ \A s \in Valid : elements[s].tid \in Thread /\ Deadline[elements[s].tid] = elements[s].when
  /\ \A t \in Thread : (\A s \in Valid : elements[s].tid # t) => Deadline[t] = NULL

\* No two elements are of one thread, so that there is no doubt which deadline it has.
LEMMA DeadlineIs == TimerInv => DeadlinesOfElements
<1> SUFFICES ASSUME TimerInv PROVE DeadlinesOfElements
  OBVIOUS
<1>1. ASSUME NEW s \in Valid
      PROVE  elements[s].tid \in Thread /\ Deadline[elements[s].tid] = elements[s].when
  <2>1. PICK t : t = elements[s].tid
    OBVIOUS
  <2>2. t \in Thread /\ \A r \in Valid : elements[r].tid = t => r = s
    BY <2>1 DEF TimerInv, ChainInv
  <2>3. s \in Slot /\ elements[s].valid /\ Asleep(t)
    BY <2>1 DEF Valid, Asleep
  <2>4. \A r \in Slot : elements[r].valid /\ elements[r].tid = t => r = s
    BY <2>2 DEF Valid
  <2>5. (CHOOSE r \in Slot : elements[r].valid /\ elements[r].tid = t) = s
    BY <2>1, <2>3, <2>4
  <2>6. Deadline[t] = elements[s].when
    BY <2>2, <2>3, <2>5 DEF Deadline
  <2>7. QED BY <2>1, <2>2, <2>6
<1>2. ASSUME NEW t \in Thread, \A s \in Valid : elements[s].tid # t PROVE Deadline[t] = NULL
  BY <1>2 DEF Deadline, Asleep, Valid
<1>3. QED BY <1>1, <1>2 DEF DeadlinesOfElements

\* The same in the next state.
LEMMA DeadlineIsNext == TimerInv' => DeadlinesOfElements'
BY DeadlineIs, PTL

\* insert() is a Sleep of the queue it implements.
LEMMA InsertIsSleep ==
  ASSUME NoneJoinsLast, TimerInv, NEW t \in Thread, NEW d \in Durations, Sleep(t, d)
  PROVE  Abstract!Sleep(t, d)
<1>1. TimerInv' /\ now' = now /\ \A r \in Valid : elements[r].tid # t
  BY SleepKeeps
<1>2. PICK s \in Slot : Inserts(s, t, now + d)
  BY SleepKeeps
<1>3. /\ Valid' = Valid \cup {s} /\ elements'[s].tid = t /\ elements'[s].when = now + d
      /\ \A r \in Valid : elements'[r].tid = elements[r].tid /\ elements'[r].when = elements[r].when
  BY <1>2 DEF Inserts
<1>4. Deadline[t] = NULL
  BY <1>1, DeadlineIs DEF DeadlinesOfElements
<1>5. Deadline'[t] = now + d
  BY <1>1, <1>3, DeadlineIsNext DEF DeadlinesOfElements
<1>6. ASSUME NEW u \in Thread, u # t PROVE Deadline'[u] = Deadline[u]
  <2>1. CASE \E r \in Valid : elements[r].tid = u
    <3>1. PICK r \in Valid : elements[r].tid = u
      BY <2>1
    <3>2. Deadline[u] = elements[r].when
      BY <3>1, DeadlineIs DEF DeadlinesOfElements
    <3>3. r \in Valid' /\ elements'[r].tid = u /\ elements'[r].when = elements[r].when
      BY <1>3, <3>1
    <3>4. QED BY <1>1, <3>2, <3>3, DeadlineIsNext DEF DeadlinesOfElements
  <2>2. CASE \A r \in Valid : elements[r].tid # u
    <3>1. \A r \in Valid' : elements'[r].tid # u
      BY <1>3, <1>6, <2>2
    <3>2. QED BY <1>1, <2>2, <3>1, DeadlineIs, DeadlineIsNext DEF DeadlinesOfElements
  <2>3. QED BY <2>1, <2>2
<1>7. Deadline' = [Deadline EXCEPT ![t] = now + d]
  <2>1. Deadline = [u \in Thread |-> Deadline[u]] /\ Deadline' = [u \in Thread |-> Deadline'[u]]
    BY DEF Deadline
  <2>2. QED BY <1>5, <1>6, <2>1
<1>8. QED BY <1>1, <1>4, <1>7 DEF Abstract!Sleep

\* check() wakes a thread that no other should have come before.
LEMMA CheckIsWake ==
  ASSUME TimerInv, Check
  PROVE  \E t \in Thread : Abstract!Wake(t)
<1>1. /\ TimerInv' /\ now' = now /\ head \in Valid /\ Valid' = Valid \ {head}
      /\ \A r \in Valid' : elements'[r].tid = elements[r].tid /\ elements'[r].when = elements[r].when
  BY CheckKeeps
<1>2. QueueTypeOK /\ ChainInv /\ NoCycles
  BY DEF TimerInv
<1>3. PICK t \in Thread : t = elements[head].tid
  BY <1>1, <1>2 DEF ChainInv
<1>4. Deadline[t] = elements[head].when /\ elements[head].when \in Nat
  BY <1>1, <1>2, <1>3, DeadlineIs, ValidElement DEF DeadlinesOfElements, Valid
<1>5. Deadline[t] # NULL /\ Deadline[t] <= now
  <2>1. now >= elements[head].when /\ now \in Nat
    BY DEF Check, Due, TimerInv
  <2>2. QED BY <1>4, <2>1, SlotsAreNumbers
<1>6. ASSUME NEW u \in Thread, Deadline[u] # NULL PROVE Deadline[t] <= Deadline[u]
  <2>1. PICK r \in Valid : elements[r].tid = u
    BY <1>6, DeadlineIs DEF DeadlinesOfElements
  <2>2. Deadline[u] = elements[r].when
    BY <2>1, DeadlineIs DEF DeadlinesOfElements
  <2>3. QED BY <1>2, <1>4, <2>2, HeadIsFirst
<1>7. \A r \in Valid' : elements'[r].tid # t
  BY <1>1, <1>2, <1>3 DEF ChainInv
<1>8. Deadline'[t] = NULL
  BY <1>1, <1>7, DeadlineIsNext DEF DeadlinesOfElements
<1>9. ASSUME NEW u \in Thread, u # t PROVE Deadline'[u] = Deadline[u]
  <2>1. CASE \E r \in Valid : elements[r].tid = u
    <3>1. PICK r \in Valid : elements[r].tid = u
      BY <2>1
    <3>2. Deadline[u] = elements[r].when
      BY <3>1, DeadlineIs DEF DeadlinesOfElements
    <3>3. r \in Valid' /\ elements'[r].tid = u /\ elements'[r].when = elements[r].when
      BY <1>1, <1>3, <1>9, <3>1
    <3>4. QED BY <1>1, <3>2, <3>3, DeadlineIsNext DEF DeadlinesOfElements
  <2>2. CASE \A r \in Valid : elements[r].tid # u
    <3>1. \A r \in Valid' : elements'[r].tid # u
      BY <1>1, <2>2
    <3>2. QED BY <1>1, <2>2, <3>1, DeadlineIs, DeadlineIsNext DEF DeadlinesOfElements
  <2>3. QED BY <2>1, <2>2
<1>10. Deadline' = [Deadline EXCEPT ![t] = NULL]
  <2>1. Deadline = [u \in Thread |-> Deadline[u]] /\ Deadline' = [u \in Thread |-> Deadline'[u]]
    BY DEF Deadline
  <2>2. QED BY <1>8, <1>9, <2>1
<1>11. QED BY <1>1, <1>5, <1>6, <1>10 DEF Abstract!Wake

\* While nobody joins last, the array of linked elements behaves as deadlines of threads
\* that wake in their order and never early.
THEOREM SleepersWakeInOrder ==
  ASSUME NoneJoinsLast
  PROVE  Spec => Abstract!Init /\ [][Abstract!Next]_<<Deadline, now>>
<1>1. Init => Abstract!Init
  <2> SUFFICES ASSUME Init PROVE Abstract!Init
    OBVIOUS
  <2>1. Valid = {}
    BY DEF Init, QueueInit, Valid
  <2>2. \A t \in Thread : Deadline[t] = NULL
    BY <2>1, InitMakesTimer, DeadlineIs DEF DeadlinesOfElements
  <2>3. Deadline = [t \in Thread |-> Deadline[t]]
    BY DEF Deadline
  <2>4. QED BY <2>2, <2>3 DEF Abstract!Init, Init
<1>2. TimerInv /\ [Next]_vars => [Abstract!Next]_<<Deadline, now>>
  <2> SUFFICES ASSUME TimerInv, [Next]_vars PROVE [Abstract!Next]_<<Deadline, now>>
    OBVIOUS
  <2>1. ASSUME NEW t \in Thread, NEW d \in Durations, Sleep(t, d) PROVE Abstract!Next
    BY <2>1, InsertIsSleep DEF Abstract!Next
  <2>2. CASE Check
    BY <2>2, CheckIsWake DEF Abstract!Next
  <2>3. ASSUME UNCHANGED queueVars PROVE Deadline' = Deadline
    BY <2>3 DEF queueVars, Deadline, Asleep
  <2>4. CASE Elapse
    BY <2>3, <2>4 DEF Elapse, Abstract!Next, Abstract!Elapse
  <2>5. CASE UNCHANGED vars
    BY <2>3, <2>5 DEF vars, queueVars
  <2>6. QED BY <2>1, <2>2, <2>4, <2>5 DEF Next
<1>3. QED BY <1>1, <1>2, TimerInvHolds, PTL DEF Spec
=============================================================================
