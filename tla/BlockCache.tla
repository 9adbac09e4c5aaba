----------------------------- MODULE BlockCache -----------------------------
(***************************************************************************)
(* MemoryBlockStore of kernel/io.zig as a cache to another BlockStore: the *)
(* blocks in block_map, in the order of their use in block_list.  The      *)
(* store below and the allocator may fail where Faults says.               *)
(***************************************************************************)
EXTENDS Naturals, FiniteSets, Sequences, SequencesExt

CONSTANTS
  Address,   \* of the blocks of the store, in bounds
  Data,      \* what a block may contain
  Garbage,   \* what newly allocated memory contains
  NULL,
  Limit,     \* cached_block_limit
  Faults     \* subset of {"map", "info", "evict", "node", "data", "read", "flush"}

\* A BlockInfo: its block's data, whether the store lacks it, and its list_node: in
\* block_list, null, or freed.  The pointer to a "wild" one was never set.
Info == [data : Data \cup {Garbage, NULL}, changed : BOOLEAN,
         node : {"listed", "none", "freed", "wild"}]

BlockInfo(data, changed, node) == [data |-> data, changed |-> changed, node |-> node]

ASSUME BlockCacheAssumption ==
  /\ Limit \in Nat \ {0}
  /\ Garbage \notin Data /\ NULL \notin Data \cup {Garbage} \cup Info
  /\ Faults \subseteq {"map", "info", "evict", "node", "data", "read", "flush"}

VARIABLES
  store,     \* contents of cached_block_store
  entries,   \* block_map: the BlockInfo of a cached block, else NULL
  order,     \* block_list, front first
  reply,     \* what the last operation returned
  halted     \* how the kernel stopped

vars == <<store, entries, order, reply, halted>>

Init ==
  /\ store \in [Address -> Data]
  /\ entries = [a \in Address |-> NULL]
  /\ order = <<>>
  /\ reply = <<"done">>
  /\ halted = "no"

Cached(a) == entries[a] # NULL
CachedBlocks == {a \in Address : Cached(a)}

\* Mutant: one block too many.
FullLate == Cardinality(CachedBlocks) > Limit

\* One more block is too many: block_count() > cached_block_limit.
Full == Cardinality(CachedBlocks) >= Limit

-----------------------------------------------------------------------------
\* The block is found with all that belongs to it.
Ready(a) == Cached(a) /\ entries[a].node = "listed" /\ entries[a].data # NULL

\* bump_node_to_front()
BumpToFront(a) ==
  \E i \in DOMAIN order : order[i] = a /\ order' = <<a>> \o RemoveAt(order, i)

ReadHit(a) ==
  /\ Ready(a)
  /\ BumpToFront(a)
  /\ reply' = <<"data", a, entries[a].data>>
  /\ UNCHANGED <<store, entries, halted>>

\* Mutant: the block is not marked as changed.
WriteHitUnmarked(a, d) ==
  /\ Ready(a)
  /\ BumpToFront(a)
  /\ entries' = [entries EXCEPT ![a].data = d]
  /\ reply' = <<"done">>
  /\ UNCHANGED <<store, halted>>

WriteHit(a, d) ==
  /\ Ready(a)
  /\ BumpToFront(a)
  /\ entries' = [entries EXCEPT ![a] = BlockInfo(d, TRUE, "listed")]
  /\ reply' = <<"done">>
  /\ UNCHANGED <<store, halted>>

\* A block that an operation left behind without its node or its data.
StrayHit(a) ==
  /\ Cached(a) /\ ~Ready(a)
  /\ halted' = IF entries[a].node \in {"freed", "wild"} THEN "dangling" ELSE "panic"
  /\ UNCHANGED <<store, entries, order, reply>>

-----------------------------------------------------------------------------
\* The block at the back is flushed and discarded if there are too many.
Oldest == Last(order)

Kept == IF Full THEN [entries EXCEPT ![Oldest] = NULL] ELSE entries

KeptOrder == IF Full THEN Front(order) ELSE order

\* Mutant: what was written to the block is dropped with it.
NotWrittenBack == store

WrittenBack ==
  IF Full /\ entries[Oldest].changed
  THEN [store EXCEPT ![Oldest] = entries[Oldest].data]
  ELSE store

\* get_block() of a block that is not in the map, up to create_block().
Miss(a, info) ==
  /\ ~Cached(a)
  /\ Full => order # <<>>
  /\ entries' = [Kept EXCEPT ![a] = info]
  /\ order' = IF info.node = "listed" THEN <<a>> \o KeptOrder ELSE KeptOrder
  /\ store' = WrittenBack
  /\ UNCHANGED halted

ReadMiss(a) ==
  /\ Miss(a, BlockInfo(store[a], FALSE, "listed"))
  /\ reply' = <<"data", a, store[a]>>

WriteMiss(a, d) ==
  /\ Miss(a, BlockInfo(d, TRUE, "listed"))
  /\ reply' = <<"done">>

\* What the miss leaves behind when there is no memory for the node of the block or
\* for its data, or when the store below fails to read it.
LeftBy(fault) ==
  CASE fault = "node" -> BlockInfo(NULL, FALSE, "none")
    [] fault = "data" -> BlockInfo(NULL, FALSE, "listed")
    [] fault = "read" -> BlockInfo(Garbage, FALSE, "listed")

MissFails(a) ==
  /\ \E fault \in Faults \cap {"node", "data", "read"} : Miss(a, LeftBy(fault))
  /\ reply' = <<"error">>

\* No memory for the map to grow.
MapFails(a) ==
  /\ "map" \in Faults
  /\ ~Cached(a)
  /\ reply' = <<"error">>
  /\ UNCHANGED <<store, entries, order, halted>>

\* No memory for the BlockInfo: the map keeps a pointer that was never set.
InfoFails(a) ==
  /\ "info" \in Faults
  /\ ~Cached(a)
  /\ entries' = [entries EXCEPT ![a] = BlockInfo(NULL, FALSE, "wild")]
  /\ reply' = <<"error">>
  /\ UNCHANGED <<store, order, halted>>

\* The oldest block cannot be flushed: its node is gone, and the new block has none.
EvictFails(a) ==
  /\ "evict" \in Faults
  /\ ~Cached(a)
  /\ Full /\ order # <<>>
  /\ entries[Oldest].changed
  /\ entries' = [entries EXCEPT ![Oldest].node = "freed", ![a] = BlockInfo(NULL, FALSE, "none")]
  /\ order' = Front(order)
  /\ reply' = <<"error">>
  /\ UNCHANGED <<store, halted>>

\* Too many blocks, and none of them in the list.
NothingToEvict(a) ==
  /\ ~Cached(a)
  /\ Full /\ order = <<>>
  /\ halted' = "panic"
  /\ UNCHANGED <<store, entries, order, reply>>

-----------------------------------------------------------------------------
WildBlocks == {a \in CachedBlocks : entries[a].node = "wild"}

\* flush_block() of each of the blocks.
FlushBlocks(blocks) ==
  /\ store' = [a \in Address |-> IF a \in blocks THEN entries[a].data ELSE store[a]]
  /\ entries' = [a \in Address |-> IF a \in blocks THEN [entries[a] EXCEPT !.changed = FALSE]
                                   ELSE entries[a]]
  /\ UNCHANGED <<order, halted>>

ChangedBlocks == {a \in CachedBlocks : entries[a].changed}

Flush ==
  /\ WildBlocks = {}
  /\ FlushBlocks(ChangedBlocks)
  /\ reply' = <<"done">>

\* The store fails to write one block, and those the iterator has not reached stay;
\* or the flush of the store itself fails.
FlushFails ==
  /\ "flush" \in Faults
  /\ \E blocks \in SUBSET ChangedBlocks :
       /\ blocks = ChangedBlocks => WildBlocks = {}
       /\ FlushBlocks(blocks)
  /\ reply' = <<"error">>

\* The iterator comes to a pointer that was never set.
FlushWild ==
  /\ WildBlocks # {}
  /\ \E blocks \in SUBSET ChangedBlocks :
       store' = [a \in Address |-> IF a \in blocks THEN entries[a].data ELSE store[a]]
  /\ halted' = "dangling"
  /\ UNCHANGED <<entries, order, reply>>

-----------------------------------------------------------------------------
Read(a) == ReadHit(a) \/ ReadMiss(a)

Write(a, d) == WriteHit(a, d) \/ WriteMiss(a, d)

Fails(a) ==
  \/ StrayHit(a)
  \/ MissFails(a) \/ MapFails(a) \/ InfoFails(a)
  \/ EvictFails(a) \/ NothingToEvict(a)

Next ==
  /\ halted = "no"
  /\ \/ \E a \in Address : Read(a) \/ Fails(a) \/ \E d \in Data : Write(a, d)
     \/ Flush
     \/ FlushFails
     \/ FlushWild

Spec == Init /\ [][Next]_vars

-----------------------------------------------------------------------------
TypeOK ==
  /\ store \in [Address -> Data]
  /\ entries \in [Address -> Info \cup {NULL}]
  /\ order \in Seq(Address) /\ IsInjective(order)
  /\ halted \in {"no", "panic", "dangling"}

\* What the cache's user sees: the cached blocks before the store's.
Contents ==
  [a \in Address |->
     IF Cached(a) /\ entries[a].data # NULL THEN entries[a].data ELSE store[a]]

Plain == INSTANCE BlockContents WITH contents <- Contents

\* The cache implements a BlockStore: reads see the last write wherever the block
\* is now, eviction and flush are invisible, and an error changes nothing of it.
ActsAsBlockStore == Plain!Spec

\* A block that is not marked changed can be discarded: the store has its data, or
\* it never had any.
CleanIsStored ==
  \A a \in CachedBlocks : ~entries[a].changed => entries[a].data \in {store[a], NULL}

\* Whatever fails, what was written to a block leaves the cache for the store only.
WrittenIsNotDropped ==
  [][\A a \in Address :
       Cached(a) /\ entries[a].changed /\ (Cached(a)' => ~entries'[a].changed)
         => store'[a] = entries[a].data]_vars

\* Until an operation leaves an entry without its node, eviction finds every block
\* of the map, and the map never outgrows its limit.
LimitIsKept ==
  /\ TypeOK
  /\ (\A a \in CachedBlocks : entries[a].node = "listed") =>
       /\ Cardinality(CachedBlocks) <= Limit
       /\ ToSet(order) = CachedBlocks
=============================================================================
