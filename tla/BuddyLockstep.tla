--------------------------- MODULE BuddyLockstep ----------------------------
(***************************************************************************)
(* The kernel's allocator beside the prototype it was written from: the    *)
(* same calls on the same area, for as long as the prototype's lists are   *)
(* whole.                                                                  *)
(***************************************************************************)
EXTENDS BuddyAllocator, Integers

CONSTANTS
  start, size, Nil, Uninitialized,   \* of the prototype
  Request                            \* the sizes that are asked for

VARIABLES
  buddy, given,   \* the prototype
  inStep          \* whether it is still called

lockVars == <<vars, buddy, given, inStep>>

Prototype == INSTANCE BuddyPrototype

\* Both have the same area, and are asked for what the prototype takes.
ASSUME LockstepAssumption ==
  /\ start \in Nat
  /\ size = Prototype!min_size * Size[0]
  /\ Request \subseteq Prototype!min_size..size
  /\ Nil \notin Prototype!Address
  /\ Uninitialized \notin Prototype!Address \cup {Nil}

\* Bytes in the smallest blocks.
Bytes(n) == n * (size \div Size[0])

\* The pointers in what is in no list may have been overwritten by who holds it:
\* a call that read them would raise.
Overwritten(b) ==
  LET listed == UNION {Range(Prototype!FreeList(b, l)) : l \in Level}
      kept(pointers) ==
        [a \in DOMAIN pointers |-> IF a \in listed THEN pointers[a] ELSE Uninitialized]
  IN [b EXCEPT !.prev = kept(@), !.next = kept(@)]

NotCalled == inStep' = FALSE /\ buddy' = Prototype!NewBuddy /\ given' = {}

\* The prototype is called too, unless that would leave a list that is not
\* doubly linked.
Calls(outcome, addresses) ==
  IF inStep /\ Prototype!IsDoublyLinked(outcome)
  THEN buddy' = Overwritten(outcome) /\ given' = addresses /\ UNCHANGED inStep
  ELSE NotCalled

LockInit == Init /\ Prototype!Init /\ inStep = TRUE

LockAlloc ==
  \E n \in 1..Size[0], bytes \in Request :
    LET outcome == Prototype!alloc(Prototype!Ready, bytes)
    IN /\ bytes \in (Bytes(n - 1) + 1)..Bytes(n)
       /\ \/ Alloc(n)
          \/ (\A from \in Level : ~Source(from, LevelFor(n))) /\ UNCHANGED vars
       /\ Calls(outcome[1], given \cup ({outcome[2]} \ {Nil}))

\* The prototype has no reserve().
LockReserve == NotCalled /\ \E n \in 1..Size[0] : Reserve(n)

LockFree ==
  \E u \in FreeableAddresses :
    LET address == start + Bytes(u)
    IN /\ Free(u)
       /\ Calls(Prototype!free(Prototype!Ready, address), given \ {address})

LockNext == LockAlloc \/ LockReserve \/ LockFree

LockSpec == LockInit /\ [][LockNext]_lockVars

-----------------------------------------------------------------------------
\* The two are one algorithm: the same calls give the same addresses, the same
\* statuses and the same lists in the same order, and run out of memory
\* together, until merge() of the prototype leaves a list that is linked one way
\* only.
AgreesWithPrototype ==
  inStep =>
    /\ buddy.raised \in {"nothing", "OutOfMemory"}
    /\ given = {start + Bytes(Start(b)) : b \in held}
    /\ \A l \in Level :
         Prototype!FreeList(buddy, l) =
           [i \in DOMAIN free_blocks[l] |-> start + Bytes(free_blocks[l][i])]
    /\ \A b \in Block :
         <<block_statuses[b], buddy.block_statuses[Prototype!unique_id(b[1], b[2])]>> \in
           {<<"Invalid", "invalid">>, <<"Split", "split">>, <<"Free", "free">>, <<"Used", "used">>}
=============================================================================
