--------------------------- MODULE CircularBuffer ---------------------------
(***************************************************************************)
(* libs/utils/circular_buffer.zig: a ring of MaxLen slots of which len are *)
(* in use, the first at start.                                             *)
(***************************************************************************)
EXTENDS Naturals, Sequences

CONSTANTS
  Value,     \* what a slot may hold, undefined contents included
  MaxLen,    \* max_len
  Discard    \* "DiscardNewest" or "DiscardOldest"

ASSUME CircularBufferAssumption ==
  /\ MaxLen \in Nat \ {0}
  /\ Discard \in {"DiscardNewest", "DiscardOldest"}

Ring == [contents : [0..(MaxLen - 1) -> Value], start : 0..(MaxLen - 1), len : 0..MaxLen]

EmptyRing(undefined) ==
  [contents |-> [i \in 0..(MaxLen - 1) |-> undefined], start |-> 0, len |-> 0]

WrappedOffset(pos, offset) == (pos + offset) % MaxLen

Put(ring, value) ==
  [ring EXCEPT !.contents[WrappedOffset(ring.start, ring.len - 1)] = value]

Push(ring, value) ==
  IF ring.len < MaxLen THEN Put([ring EXCEPT !.len = @ + 1], value)
  ELSE IF Discard = "DiscardNewest" THEN ring
  ELSE Put([ring EXCEPT !.start = WrappedOffset(@, 1)], value)

\* What pop() leaves of a ring that is not empty, and what it returns.
Pop(ring) == [ring EXCEPT !.len = @ - 1, !.start = WrappedOffset(@, 1)]

Popped(ring) == ring.contents[ring.start]

\* get() of every offset: the values in the ring, the oldest first.
Queue(ring) == [i \in 1..ring.len |-> ring.contents[WrappedOffset(ring.start, i - 1)]]
=============================================================================
