--------------------------- MODULE BuddyAllocator ---------------------------
(***************************************************************************)
(* kernel/buddy_allocator.zig: an area whose blocks are halved to fit a    *)
(* request and joined again when both halves are free.  Memory is counted  *)
(* in blocks of min_size.  A block is its level and its index there; a     *)
(* free list holds addresses, which is what a FreeBlock pointer stands for *)
(* in either kind of allocator.                                            *)
(***************************************************************************)
EXTENDS Naturals, Sequences, SequencesExt

CONSTANTS
  Levels,   \* level_count
  Size      \* level_to_block_size, in units of min_size

Level == 0..(Levels - 1)

ASSUME BuddyAssumption ==
  /\ Levels \in Nat \ {0}
  /\ Size \in [Level -> Nat \ {0}]
  /\ Size[Levels - 1] = 1
  /\ \A l \in Level \ {0} : Size[l - 1] = 2 * Size[l]
  /\ \A k, l \in Level : k <= l => \E m \in 1..Size[0] : Size[k] = m * Size[l]

Unit == 0..(Size[0] - 1)

\* block_to_index(): the block of a level that an address lies in.
BlockAt(u, l) == <<l, u \div Size[l]>>

Block == {BlockAt(u, l) : u \in Unit, l \in Level}

\* get_address()
Start(b) == b[2] * Size[b[1]]

Units(b) == {u \in Unit : BlockAt(u, b[1]) = b}

\* Mutant: an index that loses its high bits.
BuddyOfFirst(b) == <<b[1], (b[2] + 1) % 2>>

\* get_buddy_index()
Buddy(b) == <<b[1], IF b[2] % 2 = 1 THEN b[2] - 1 ELSE b[2] + 1>>

\* size_to_level(): the smallest blocks that n units fit in.
LevelFor(n) ==
  CHOOSE l \in Level : Size[l] >= n /\ \A k \in Level : k > l => Size[k] < n

VARIABLES
  block_statuses,   \* of every block
  free_blocks,      \* the list of each level
  held              \* the blocks that callers have and may free

heapVars == <<block_statuses, free_blocks>>
vars == <<block_statuses, free_blocks, held>>

Init ==
  /\ block_statuses = [b \in Block |-> IF b[1] = 0 THEN "Free" ELSE "Invalid"]
  /\ free_blocks = [l \in Level |-> IF l = 0 THEN <<0>> ELSE <<>>]
  /\ held = {}

\* split() of the block at level from, down to the block at level target that
\* starts at an address, and reserve_block() of that one: the other halves are free.
CarvedStatuses(statuses, origin, from, target) ==
  LET path(l) == BlockAt(origin, l)
  IN [b \in Block |->
        IF b = path(target) THEN "Used"
        ELSE IF b[1] \in from..target /\ b = path(b[1]) THEN "Split"
        ELSE IF b[1] \in (from + 1)..target /\ b = Buddy(path(b[1])) THEN "Free"
        ELSE statuses[b]]

CarvedLists(lists, origin, from, target) ==
  LET path(l) == BlockAt(origin, l)
  IN [l \in Level |->
        IF l = from THEN RemoveFirst(lists[l], Start(path(l)))
        ELSE IF l \in (from + 1)..target THEN <<Start(Buddy(path(l)))>> \o lists[l]
        ELSE lists[l]]

Carve(origin, from, target) ==
  /\ block_statuses' = CarvedStatuses(block_statuses, origin, from, target)
  /\ free_blocks' = CarvedLists(free_blocks, origin, from, target)

\* The level that alloc() takes a block from: the deepest at or above target
\* that has one.
Source(from, target) ==
  /\ from <= target
  /\ free_blocks[from] # <<>>
  /\ \A l \in (from + 1)..target : free_blocks[l] = <<>>

\* alloc() of n units, when it succeeds.
Alloc(n) ==
  \E from \in Level :
    LET target == LevelFor(n)
        origin == Head(free_blocks[from])
    IN /\ Source(from, target)
       /\ Carve(origin, from, target)
       /\ held' = held \cup {BlockAt(origin, target)}

\* reserve() of the first n units of an untouched area: what ManagerImpl.init()
\* does for the kernel itself, which nobody frees.
Reserve(n) ==
  \E target \in Level :
    /\ block_statuses[BlockAt(0, 0)] = "Free"
    /\ target # Levels - 1 => n >= Size[target + 1]
    /\ \A l \in Level : l < target => n < Size[l + 1]
    /\ Carve(0, 0, target)
    /\ UNCHANGED held

\* The level of the block that free() finds at an address: the deepest that is
\* used.  When none is, the search ends at level 0.
FreedLevel(u, level) ==
  /\ \A l \in Level : l > level => block_statuses[BlockAt(u, l)] # "Used"
  /\ level # 0 => block_statuses[BlockAt(u, level)] = "Used"

\* Mutant: no merge.
NotMerged(u, level, top) == top = level

\* Mutant: the status of the buddy is not looked at.
MergedAnyway(u, level, top) == top = 0

\* The level that merge() stops at, where the buddy is not free.
MergedLevel(u, level, top) ==
  /\ top <= level
  /\ top # 0 => block_statuses[Buddy(BlockAt(u, top))] # "Free"
  /\ \A l \in (top + 1)..level : block_statuses[Buddy(BlockAt(u, l))] = "Free"

\* free() of the block of u at a level, and merge() up to the level top: the
\* halves of what is joined are gone.
MergedStatuses(statuses, u, level, top) ==
  LET path(l) == BlockAt(u, l)
  IN [b \in Block |->
        IF b = path(top) THEN "Free"
        ELSE IF b[1] \in (top + 1)..level /\ b \in {path(b[1]), Buddy(path(b[1]))} THEN "Invalid"
        ELSE statuses[b]]

MergedLists(lists, u, level, top) ==
  LET path(l) == BlockAt(u, l)
  IN [l \in Level |->
        IF l = top THEN <<IF top = level THEN u ELSE Start(path(top))>> \o lists[l]
        ELSE IF l \in (top + 1)..level THEN RemoveFirst(lists[l], Start(Buddy(path(l))))
        ELSE lists[l]]

\* free() of an address: the block found, merged with its buddies.
Free(u) ==
  \E level, top \in Level :
    /\ FreedLevel(u, level)
    /\ MergedLevel(u, level, top)
    /\ block_statuses' = MergedStatuses(block_statuses, u, level, top)
    /\ free_blocks' = MergedLists(free_blocks, u, level, top)
    /\ held' = held \ {BlockAt(u, level)}

\* What callers free: the address of a block they hold.
FreeableAddresses == {Start(b) : b \in held}

Next ==
  \/ \E n \in 1..Size[0] : Alloc(n) \/ Reserve(n)
  \/ \E u \in FreeableAddresses : Free(u)

Spec == Init /\ [][Next]_vars

-----------------------------------------------------------------------------
TypeOK ==
  /\ block_statuses \in [Block -> {"Invalid", "Split", "Free", "Used"}]
  /\ free_blocks \in [Level -> Seq(Unit)]
  /\ held \in SUBSET Block

\* No unit of memory is ever given to two callers, whatever was split, merged
\* and allocated again in between.
HeldAreDisjoint ==
  \A b, c \in held : b # c => Units(b) \cap Units(c) = {}

\* A request fails only if no block that would satisfy it is unused: nothing is
\* lost, and neighbours that are both free are always one block.
FreeSpaceIsFound ==
  \A b \in Block :
    (\A u \in Units(b), l \in Level : block_statuses[BlockAt(u, l)] # "Used") =>
      \E l \in Level : l <= b[1] /\ free_blocks[l] # <<>>

\* The free lists hold the blocks that are marked free, each of them once.
ListsMatchStatuses ==
  /\ TypeOK
  /\ \A l \in Level :
       /\ IsInjective(free_blocks[l])
       /\ {BlockAt(free_blocks[l][i], l) : i \in DOMAIN free_blocks[l]} =
            {b \in Block : b[1] = l /\ block_statuses[b] = "Free"}
       /\ \A i \in DOMAIN free_blocks[l] : free_blocks[l][i] % Size[l] = 0
=============================================================================
