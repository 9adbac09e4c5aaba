--------------------------- MODULE BuddyPrototype ---------------------------
(***************************************************************************)
(* scripts/prototypes/buddy.py: the allocator as it was first written, with *)
(* its doubly linked free lists kept inside the free blocks.  A pointer is  *)
(* an address, Nil, or Uninitialized, which Memory.get() raises for.  The   *)
(* operators take the Buddy object and return it, with the exception that   *)
(* ended the call in raised.                                                *)
(***************************************************************************)
EXTENDS Integers, Sequences

CONSTANTS
  start,          \* the first address
  size,           \* bytes from there, a power of two times min_size
  Nil,
  Uninitialized

min_size == 4

\* int(math.log2(n))
log2(n) == CHOOSE k \in 0..n : n \div 2 ^ k = 1

\* Mutant: a power of two is doubled.
PotAbove(value) == 2 ^ (log2(value) + 1)

\* The next power of two, if the value is not one.
pot(value) ==
  IF 2 ^ log2(value) = value THEN value ELSE 2 ^ (log2(value) + 1)

level_count == log2(size \div min_size) + 1
PLevel == 0..(level_count - 1)
unique_id(level, index) == 2 ^ level + index - 1
level_to_block_size(level) == size \div 2 ^ level
block_size_to_level(bytes) == level_count + 1 - log2(bytes)
get_index(level, address) == (address - start) \div level_to_block_size(level)
get_pointer(level, index) == index * level_to_block_size(level) + start
get_buddy_index(index) == IF index % 2 = 1 THEN index - 1 ELSE index + 1
Address == {get_pointer(level_count - 1, i) : i \in 0..(size \div min_size - 1)}

\* Buddy.__init__()
NewBuddy ==
  LET pointers == [a \in Address |-> IF a = start THEN Nil ELSE Uninitialized]
  IN [free_lists |-> [level \in PLevel |-> IF level = 0 THEN start ELSE Nil],
      prev |-> pointers,
      next |-> pointers,
      block_statuses |-> [id \in 0..(2 ^ level_count - 2) |->
                            IF id = 0 THEN "free" ELSE "invalid"],
      raised |-> "nothing"]

Raise(b, exception) == [b EXCEPT !.raised = exception]

\* set_prev_pointer() or set_next_pointer() of a block, if there is one.
SetPointer(pointers, address, value) ==
  IF address = Nil THEN pointers ELSE [pointers EXCEPT ![address] = value]

remove_block(b, level, ptr) ==
  LET old_prev == b.prev[ptr]
      old_next == b.next[ptr]
  IN IF Uninitialized \in {old_prev, old_next} THEN Raise(b, "ValueError")
     ELSE [b EXCEPT !.free_lists[level] = IF old_prev = Nil THEN old_next ELSE @,
                    !.next = SetPointer(@, old_prev, old_next),
                    !.prev = SetPointer(@, old_next, old_prev)]

split(b, level, index) ==
  LET this_ptr == get_pointer(level, index)
      new_level == level + 1
      new_index == 2 * index
      buddy_index == new_index + 1
      buddy_ptr == get_pointer(new_level, buddy_index)
      removed == remove_block(b, level, this_ptr)
      buddy_next == removed.free_lists[new_level]
  IN IF b.block_statuses[unique_id(level, index)] # "free"
     THEN Raise(b, "WrongBlockStatus")
     ELSE IF removed.raised # "nothing" THEN removed
     ELSE [removed EXCEPT
             !.free_lists[new_level] = this_ptr,
             !.prev = SetPointer([@ EXCEPT ![this_ptr] = Nil, ![buddy_ptr] = this_ptr],
                                 buddy_next, buddy_ptr),
             !.next = [@ EXCEPT ![this_ptr] = buddy_ptr, ![buddy_ptr] = buddy_next],
             !.block_statuses = [@ EXCEPT ![unique_id(level, index)] = "split",
                                          ![unique_id(new_level, new_index)] = "free",
                                          ![unique_id(new_level, buddy_index)] = "free"]]

\* Splitting the first block of a level, if nothing was raised before.
SplitFirst(b, level) ==
  IF b.raised # "nothing" THEN b ELSE split(b, level, get_index(level, b.free_lists[level]))

\* The loop of alloc() that does so until there is a block at the target.
SplitDown(b, from, target) ==
  LET at[level \in from..target] == IF level = from THEN b ELSE SplitFirst(at[level - 1], level - 1)
  IN at[target]

\* alloc(): with the block it returns, which is the head of the list that the
\* split loop ends at.  A size out of range raises a TypeError where it would
\* have raised a ValueError: the message adds the size to a string.
alloc(b, bytes) ==
  LET target == block_size_to_level(pot(bytes))
      nonempty == {level \in 0..target : b.free_lists[level] # Nil}
      from == CHOOSE level \in nonempty : \A l \in nonempty : l <= level
      down == SplitDown(b, from, target)
      address == down.free_lists[target]
      removed == remove_block(down, target, address)
  IN IF bytes < min_size \/ bytes > size THEN <<Raise(b, "TypeError"), Nil>>
     ELSE IF nonempty = {} THEN <<Raise(b, "OutOfMemory"), Nil>>
     ELSE IF down.raised # "nothing" THEN <<down, Nil>>
     ELSE IF removed.raised # "nothing" THEN <<removed, Nil>>
     ELSE <<[removed EXCEPT
               !.block_statuses[unique_id(target, get_index(target, address))] = "used"],
            address>>

\* merge(): the joined block goes in front of the list of its level.  What was
\* in front there keeps a prev pointer of nil.
merge(b, level, index) ==
  LET buddy_index == get_buddy_index(index)
      new_level == level - 1
      new_index == index \div 2
      new_ptr == get_pointer(new_level, new_index)
      this_removed == remove_block(b, level, get_pointer(level, index))
      removed == remove_block(this_removed, level, get_pointer(level, buddy_index))
  IN IF \/ b.block_statuses[unique_id(level, index)] # "free"
        \/ b.block_statuses[unique_id(level, buddy_index)] # "free"
        \/ b.block_statuses[unique_id(new_level, new_index)] # "split"
     THEN Raise(b, "WrongBlockStatus")
     ELSE IF this_removed.raised # "nothing" THEN this_removed
     ELSE IF removed.raised # "nothing" THEN removed
     ELSE [removed EXCEPT
             !.next[new_ptr] = removed.free_lists[new_level],
             !.free_lists[new_level] = new_ptr,
             !.prev[new_ptr] = Nil,
             !.block_statuses = [@ EXCEPT ![unique_id(level, index)] = "invalid",
                                          ![unique_id(level, buddy_index)] = "invalid",
                                          ![unique_id(new_level, new_index)] = "free"]]

\* Merging a block with its buddy, unless the loop has ended or the buddy is
\* not free.
MergeWithBuddy(loop, level, index) ==
  IF /\ loop.merging
     /\ loop.b.raised = "nothing"
     /\ loop.b.block_statuses[unique_id(level, get_buddy_index(index))] = "free"
  THEN [b |-> merge(loop.b, level, index), merging |-> TRUE]
  ELSE [b |-> loop.b, merging |-> FALSE]

\* The loop of free() that does so upwards from a level.
MergeUp(b, level, address) ==
  LET at[top \in 0..level] ==   \* the object when the loop comes to top
        IF top = level THEN [b |-> b, merging |-> TRUE]
        ELSE MergeWithBuddy(at[top + 1], top + 1, get_index(top + 1, address))
  IN at[0].b

\* free(): the deepest used block at the address goes in front of its list.
free(b, address) ==
  LET used == {l \in PLevel : b.block_statuses[unique_id(l, get_index(l, address))] = "used"}
      level == CHOOSE l \in used : \A k \in used : k <= l
      next_ptr == b.free_lists[level]
      inserted == [b EXCEPT
                     !.free_lists[level] = address,
                     !.prev = [SetPointer(@, next_ptr, address) EXCEPT ![address] = Nil],
                     !.next[address] = next_ptr,
                     !.block_statuses[unique_id(level, get_index(level, address))] = "free"]
  IN IF used = {} THEN Raise(b, "InvalidPointer") ELSE MergeUp(inserted, level, address)

VARIABLES
  buddy,   \* the Buddy object
  given    \* the addresses that alloc() returned and free() has not had back

Init == buddy = NewBuddy /\ given = {}

\* The next call is made whatever the last one raised.
Ready == [buddy EXCEPT !.raised = "nothing"]

-----------------------------------------------------------------------------
\* The blocks in a free list, from its head.
FreeList(b, level) ==
  LET walk[i \in 1..(size \div min_size)] ==
        IF i = 1 THEN b.free_lists[level]
        ELSE IF walk[i - 1] = Nil THEN Nil
        ELSE b.next[walk[i - 1]]
  IN [i \in {j \in DOMAIN walk : walk[j] # Nil} |-> walk[i]]

\* Every block in a list but the first points back to the one before it.
IsDoublyLinked(b) ==
  \A level \in PLevel :
    LET list == FreeList(b, level)
    IN \A i \in 1..(Len(list) - 1) : b.prev[list[i + 1]] = list[i]
=============================================================================
