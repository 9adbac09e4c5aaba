-------------------------- MODULE BlockCacheProofs --------------------------
(***************************************************************************)
(* A cache whose store can be read is a block store, for any blocks, any   *)
(* data, any limit and any other failures.                                 *)
(***************************************************************************)
EXTENDS BlockCache, SequenceTheorems, FiniteSetTheorems, TLAPS

\* What eviction needs: the list has cached blocks only.
ListedAreCached == \A i \in DOMAIN order : Cached(order[i])

\* What was read from memory that nobody filled is never in the cache.
NoGarbage == \A a \in CachedBlocks : entries[a].data # Garbage

\* A block without data has not been written to.
ChangedHasData == \A a \in CachedBlocks : entries[a].changed => entries[a].data # NULL

CacheInv == TypeOK /\ CleanIsStored /\ ListedAreCached /\ NoGarbage /\ ChangedHasData

-----------------------------------------------------------------------------
(* The list *)

\* Pushing a block that is not in the list.
LEMMA PushFront ==
  ASSUME NEW list \in Seq(Address), IsInjective(list), NEW a \in Address,
         \A i \in DOMAIN list : list[i] # a
  PROVE  /\ <<a>> \o list \in Seq(Address)
         /\ IsInjective(<<a>> \o list)
         /\ \A i \in DOMAIN (<<a>> \o list) :
              (<<a>> \o list)[i] = a \/ \E j \in DOMAIN list : (<<a>> \o list)[i] = list[j]
<1> DEFINE new == <<a>> \o list
<1>1. /\ new \in Seq(Address)
      /\ Len(list) \in Nat
      /\ DOMAIN list = 1..Len(list)
      /\ DOMAIN new = 1..(Len(list) + 1)
  OBVIOUS
<1>2. new[1] = a
  OBVIOUS
<1>3. \A i \in 2..(Len(list) + 1) : new[i] = list[i - 1] /\ i - 1 \in DOMAIN list
  OBVIOUS
<1> HIDE DEF new
<1>4. \A i \in DOMAIN new : i = 1 \/ i \in 2..(Len(list) + 1)
  BY <1>1
<1>5. IsInjective(new)
  <2> SUFFICES ASSUME NEW i \in DOMAIN new, NEW j \in DOMAIN new, new[i] = new[j]
               PROVE  i = j
    BY DEF IsInjective
  <2>1. CASE i = 1 \/ j = 1
    BY <2>1, <1>2, <1>3, <1>4
  <2>2. CASE i # 1 /\ j # 1
    <3>1. list[i - 1] = list[j - 1] /\ i - 1 \in DOMAIN list /\ j - 1 \in DOMAIN list
      BY <2>2, <1>3, <1>4
    <3>2. i - 1 = j - 1
      BY <3>1 DEF IsInjective
    <3>3. QED BY <3>2, <1>1
  <2>3. QED BY <2>1, <2>2
<1>6. \A i \in DOMAIN new : new[i] = a \/ \E j \in DOMAIN list : new[i] = list[j]
  BY <1>2, <1>3, <1>4
<1>7. QED BY <1>1, <1>5, <1>6 DEF new

\* Popping the oldest block.
LEMMA PopBack ==
  ASSUME NEW list \in Seq(Address), IsInjective(list), list # <<>>
  PROVE  /\ Last(list) \in Address
         /\ \E i \in DOMAIN list : Last(list) = list[i]
         /\ Front(list) \in Seq(Address)
         /\ IsInjective(Front(list))
         /\ \A i \in DOMAIN Front(list) :
              /\ Front(list)[i] # Last(list)
              /\ \E j \in DOMAIN list : Front(list)[i] = list[j]
<1> DEFINE n == Len(list)
<1>1. n \in Nat \ {0} /\ DOMAIN list = 1..n
  OBVIOUS
<1>2. Last(list) = list[n] /\ n \in DOMAIN list
  BY <1>1 DEF Last
<1>3. /\ Front(list) \in Seq(Address)
      /\ DOMAIN Front(list) = 1..(n - 1)
      /\ \A i \in 1..(n - 1) : Front(list)[i] = list[i]
  BY <1>1 DEF Front
<1> HIDE DEF n
<1>4. \A i \in 1..(n - 1) : i \in 1..n /\ i # n
  BY <1>1
<1>5. \A i \in 1..(n - 1) : list[i] # list[n]
  BY <1>1, <1>4 DEF IsInjective
<1>6. IsInjective(Front(list))
  BY <1>1, <1>3, <1>4 DEF IsInjective
<1>7. Last(list) \in Address
  BY <1>1, <1>2
<1>8. QED
  BY <1>1, <1>2, <1>3, <1>4, <1>5, <1>6, <1>7

\* What is behind a block that is taken out of the list moves up by one.
LEMMA TakeOutMoves ==
  ASSUME NEW list \in Seq(Address), NEW k \in DOMAIN list
  PROVE  /\ Len(list) \in Nat /\ DOMAIN list = 1..Len(list) /\ k \in 1..Len(list)
         /\ RemoveAt(list, k) \in Seq(Address)
         /\ DOMAIN RemoveAt(list, k) = 1..(Len(list) - 1)
         /\ \A i \in 1..(Len(list) - 1) :
              RemoveAt(list, k)[i] = list[IF i < k THEN i ELSE i + 1]
<1> DEFINE n == Len(list)
           new == RemoveAt(list, k)
           before == SubSeq(list, 1, k - 1)
           after == SubSeq(list, k + 1, n)
<1>1. n \in Nat /\ DOMAIN list = 1..n /\ k \in 1..n
  OBVIOUS
<1>2. before \in Seq(Address) /\ Len(before) = k - 1 /\ \A i \in 1..(k - 1) : before[i] = list[i]
  BY <1>1
<1>3. after \in Seq(Address) /\ Len(after) = n - k /\ \A i \in 1..(n - k) : after[i] = list[k + i]
  BY <1>1
<1>4. new = before \o after
  BY DEF RemoveAt
<1> HIDE DEF before, after, new, n
<1>5. new \in Seq(Address) /\ Len(new) = n - 1 /\ DOMAIN new = 1..(n - 1)
  <2>1. new \in Seq(Address) /\ Len(new) = Len(before) + Len(after)
    BY <1>2, <1>3, <1>4, ConcatProperties
  <2>2. Len(new) = n - 1
    BY <2>1, <1>1, <1>2, <1>3
  <2>3. DOMAIN new = 1..Len(new)
    BY <2>1
  <2>4. QED BY <2>1, <2>2, <2>3
<1>6. ASSUME NEW i \in 1..(n - 1)
      PROVE  new[i] = list[IF i < k THEN i ELSE i + 1]
  <2>1. CASE i < k
    BY <2>1, <1>1, <1>2, <1>3, <1>4
  <2>2. CASE ~(i < k)
    <3>1. i - (k - 1) \in 1..(n - k) /\ k + (i - (k - 1)) = i + 1
      BY <2>2, <1>1
    <3>2. new[i] = after[i - (k - 1)]
      BY <2>2, <1>1, <1>2, <1>3, <1>4, SMTT(30)
    <3>3. QED BY <3>1, <3>2, <1>3, <2>2
  <2>3. QED BY <2>1, <2>2
<1>7. QED BY <1>1, <1>5, <1>6 DEF new, n

\* Taking a block out of the list.
LEMMA TakeOut ==
  ASSUME NEW list \in Seq(Address), IsInjective(list), NEW k \in DOMAIN list
  PROVE  /\ RemoveAt(list, k) \in Seq(Address)
         /\ IsInjective(RemoveAt(list, k))
         /\ \A i \in DOMAIN RemoveAt(list, k) :
              /\ RemoveAt(list, k)[i] # list[k]
              /\ \E j \in DOMAIN list : RemoveAt(list, k)[i] = list[j]
<1> DEFINE n == Len(list)
           new == RemoveAt(list, k)
           at(i) == IF i < k THEN i ELSE i + 1
<1>1. /\ n \in Nat /\ DOMAIN list = 1..n /\ k \in 1..n
      /\ new \in Seq(Address) /\ DOMAIN new = 1..(n - 1)
      /\ \A i \in 1..(n - 1) : new[i] = list[at(i)]
  BY TakeOutMoves
<1> HIDE DEF new, n
<1>2. \A i, j \in 1..(n - 1) : /\ at(i) \in 1..n /\ at(i) # k
                               /\ at(i) = at(j) => i = j
  BY <1>1
<1> HIDE DEF at
<1>3. QED
  BY <1>1, <1>2, SMTT(30) DEF IsInjective, new

-----------------------------------------------------------------------------
(* Steps *)

\* A new entry is not NULL.
LEMMA NewInfo ==
  ASSUME NEW d \in Data \cup {NULL}, NEW c \in BOOLEAN,
         NEW n \in {"listed", "none", "freed", "wild"}
  PROVE  /\ BlockInfo(d, c, n) \in Info
         /\ BlockInfo(d, c, n) # NULL
         /\ BlockInfo(d, c, n).data = d
         /\ BlockInfo(d, c, n).changed = c
         /\ BlockInfo(d, c, n).node = n
<1>1. BlockInfo(d, c, n) \in Info
  BY DEF BlockInfo, Info
<1>2. QED BY <1>1, BlockCacheAssumption DEF BlockInfo

\* A block in the cache goes to the front, and keeps its place in the map.
LEMMA BumpKeepsList ==
  ASSUME TypeOK, ListedAreCached, NEW a \in Address, BumpToFront(a),
         \A b \in Address : Cached(b) => Cached(b)'
  PROVE  order' \in Seq(Address) /\ IsInjective(order') /\ ListedAreCached'
<1>1. PICK i \in DOMAIN order : order[i] = a /\ order' = <<a>> \o RemoveAt(order, i)
  BY DEF BumpToFront
<1> DEFINE rest == RemoveAt(order, i)
<1>2. /\ rest \in Seq(Address) /\ IsInjective(rest)
      /\ \A k \in DOMAIN rest : rest[k] # a /\ \E j \in DOMAIN order : rest[k] = order[j]
  BY <1>1, TakeOut DEF TypeOK
<1> HIDE DEF rest
<1>3. /\ order' \in Seq(Address) /\ IsInjective(order')
      /\ \A k \in DOMAIN order' : order'[k] = a \/ \E j \in DOMAIN rest : order'[k] = rest[j]
  BY <1>1, <1>2, PushFront DEF rest
<1>4. \A k \in DOMAIN order' : \E j \in DOMAIN order : order'[k] = order[j]
  BY <1>1, <1>2, <1>3
<1>5. \A j \in DOMAIN order : order[j] \in Address /\ Cached(order[j])
  BY DEF TypeOK, ListedAreCached
<1>6. ListedAreCached'
  BY <1>4, <1>5 DEF ListedAreCached, Cached
<1>7. QED BY <1>3, <1>6

LEMMA ReadHitStep ==
  ASSUME CacheInv, NEW a \in Address, ReadHit(a)
  PROVE  CacheInv' /\ Plain!Next
<1>1. Contents' = Contents /\ reply' = <<"data", a, Contents[a]>>
  BY DEF ReadHit, Ready, Contents, Cached
<1>2. order' \in Seq(Address) /\ IsInjective(order') /\ ListedAreCached'
  BY BumpKeepsList DEF CacheInv, ReadHit, Cached
<1>3. CacheInv'
  BY <1>2 DEF CacheInv, ReadHit, TypeOK, CleanIsStored, NoGarbage, ChangedHasData,
              CachedBlocks, Cached
<1>4. QED BY <1>1, <1>3 DEF Plain!Next, Plain!Read

LEMMA WriteHitStep ==
  ASSUME CacheInv, NEW a \in Address, NEW d \in Data, WriteHit(a, d)
  PROVE  CacheInv' /\ Plain!Next
<1> DEFINE new == BlockInfo(d, TRUE, "listed")
<1>1. new \in Info /\ new # NULL /\ new.data = d /\ new.changed
  <2>1. new \in Info /\ new # NULL
    <3>1. new \in Info
      BY DEF BlockInfo, Info
    <3>2. QED BY <3>1, BlockCacheAssumption
  <2>2. QED BY <2>1 DEF BlockInfo
<1>2. entries \in [Address -> Info \cup {NULL}] /\ entries' = [entries EXCEPT ![a] = new]
  BY DEF CacheInv, TypeOK, WriteHit
<1> HIDE DEF new
<1>3. d # NULL /\ d # Garbage
  BY BlockCacheAssumption
<1>4. Contents' = [Contents EXCEPT ![a] = d] /\ reply' = <<"done">>
  BY <1>1, <1>2, <1>3 DEF WriteHit, Contents, Cached
<1>5. order' \in Seq(Address) /\ IsInjective(order') /\ ListedAreCached'
  BY <1>1, <1>2, BumpKeepsList DEF CacheInv, WriteHit, Cached
<1>6. TypeOK'
  BY <1>1, <1>2, <1>5 DEF CacheInv, TypeOK, WriteHit
<1>7. CleanIsStored' /\ NoGarbage' /\ ChangedHasData'
  BY <1>1, <1>2, <1>3 DEF CacheInv, CleanIsStored, NoGarbage, ChangedHasData, CachedBlocks,
                          Cached, WriteHit
<1>8. QED BY <1>4, <1>5, <1>6, <1>7 DEF CacheInv, Plain!Next, Plain!Write

\* Eviction: the entry and the store trade places, and nobody can tell.
LEMMA Evict ==
  ASSUME CacheInv, Full => order # <<>>
  PROVE  /\ Kept \in [Address -> Info \cup {NULL}]
         /\ WrittenBack \in [Address -> Data]
         /\ KeptOrder \in Seq(Address) /\ IsInjective(KeptOrder)
         /\ \A i \in DOMAIN KeptOrder : Kept[KeptOrder[i]] # NULL
         /\ \A b \in Address : Kept[b] # NULL => Kept[b] = entries[b] /\ WrittenBack[b] = store[b]
         /\ \A b \in Address : Kept[b] = NULL =>
              WrittenBack[b] = Contents[b]
<1>1. CASE ~Full
  <2>1. Kept = entries /\ WrittenBack = store /\ KeptOrder = order
    BY <1>1 DEF Kept, WrittenBack, KeptOrder
  <2>2. \A b \in Address : entries[b] = NULL => Contents[b] = store[b]
    BY DEF Contents, Cached
  <2>3. QED BY <2>1, <2>2 DEF CacheInv, TypeOK, ListedAreCached, Cached
<1>2. CASE Full
  <2>1. order \in Seq(Address) /\ IsInjective(order) /\ order # <<>>
    BY <1>2 DEF CacheInv, TypeOK
  <2>2. /\ Oldest \in Address
        /\ \E i \in DOMAIN order : Oldest = order[i]
        /\ Front(order) \in Seq(Address)
        /\ IsInjective(Front(order))
        /\ \A i \in DOMAIN Front(order) :
             /\ Front(order)[i] # Oldest
             /\ \E j \in DOMAIN order : Front(order)[i] = order[j]
    BY <2>1, PopBack DEF Oldest
  <2>3. KeptOrder = Front(order) /\ Kept = [entries EXCEPT ![Oldest] = NULL]
    BY <1>2 DEF Kept, KeptOrder
  <2>4. entries \in [Address -> Info \cup {NULL}] /\ store \in [Address -> Data]
    BY DEF CacheInv, TypeOK
  <2>5. entries[Oldest] # NULL
    BY <2>2 DEF CacheInv, ListedAreCached, Cached
  <2>6. entries[Oldest] \in Info
    BY <2>2, <2>4, <2>5
  <2>7. entries[Oldest].data \in Data \cup {NULL}
    BY <2>2, <2>5, <2>6 DEF CacheInv, NoGarbage, CachedBlocks, Cached, Info
  <2>8. entries[Oldest].changed => entries[Oldest].data # NULL
    BY <2>2, <2>5 DEF CacheInv, ChangedHasData, CachedBlocks, Cached
  <2>9. ~entries[Oldest].changed => entries[Oldest].data \in {store[Oldest], NULL}
    BY <2>2, <2>5 DEF CacheInv, CleanIsStored, CachedBlocks, Cached
  <2>10. WrittenBack \in [Address -> Data]
    BY <2>4, <2>7, <2>8 DEF WrittenBack
  <2>11. \A b \in Address : b # Oldest => WrittenBack[b] = store[b] /\ Kept[b] = entries[b]
    BY <2>3, <2>4 DEF WrittenBack
  <2>12. WrittenBack[Oldest] = Contents[Oldest] /\ Kept[Oldest] = NULL
    BY <1>2, <2>2, <2>3, <2>4, <2>5, <2>7, <2>8, <2>9 DEF WrittenBack, Contents, Cached
  <2>13. \A i \in DOMAIN KeptOrder : Kept[KeptOrder[i]] # NULL
    <3> SUFFICES ASSUME NEW i \in DOMAIN Front(order)
                 PROVE  Kept[Front(order)[i]] # NULL
      BY <2>3
    <3>1. PICK j \in DOMAIN order : Front(order)[i] = order[j] /\ order[j] # Oldest
      BY <2>2
    <3>2. order[j] \in Address /\ entries[order[j]] # NULL
      BY <2>1 DEF CacheInv, ListedAreCached, Cached
    <3>3. QED BY <3>1, <3>2, <2>11
  <2>14. Kept \in [Address -> Info \cup {NULL}]
    BY <2>3, <2>4
  <2>15. \A b \in Address : entries[b] = NULL => Contents[b] = store[b]
    BY DEF Contents, Cached
  <2>16. \A b \in Address : Kept[b] = NULL => WrittenBack[b] = Contents[b]
    BY <2>11, <2>12, <2>15
  <2>17. \A b \in Address : Kept[b] # NULL => Kept[b] = entries[b] /\ WrittenBack[b] = store[b]
    BY <2>11, <2>12
  <2>18. QED BY <2>2, <2>3, <2>10, <2>13, <2>14, <2>16, <2>17
<1>3. QED BY <1>1, <1>2

\* A miss changes what is seen of the block it is about, if it got its data.
LEMMA MissStep ==
  ASSUME CacheInv, NEW a \in Address, NEW info \in Info, Miss(a, info),
         info # NULL, info.data # Garbage,
         info.changed => info.data # NULL,
         ~info.changed => info.data \in {store[a], NULL}
  PROVE  /\ CacheInv'
         /\ Contents' = [Contents EXCEPT ![a] = IF info.data = NULL THEN @ ELSE info.data]
<1>1. /\ Kept \in [Address -> Info \cup {NULL}]
      /\ WrittenBack \in [Address -> Data]
      /\ KeptOrder \in Seq(Address) /\ IsInjective(KeptOrder)
      /\ \A i \in DOMAIN KeptOrder : Kept[KeptOrder[i]] # NULL
      /\ \A b \in Address : Kept[b] # NULL => Kept[b] = entries[b] /\ WrittenBack[b] = store[b]
      /\ \A b \in Address : Kept[b] = NULL => WrittenBack[b] = Contents[b]
  BY Evict DEF Miss
<1>2. /\ entries[a] = NULL /\ Contents[a] = store[a]
      /\ entries' = [Kept EXCEPT ![a] = info]
      /\ store' = WrittenBack /\ halted' = halted
      /\ order' = IF info.node = "listed" THEN <<a>> \o KeptOrder ELSE KeptOrder
  BY DEF Miss, Contents, Cached
<1>3. Kept[a] = NULL /\ store'[a] = store[a]
  BY <1>1, <1>2
<1>4. /\ entries'[a] = info
      /\ \A b \in Address : b # a => entries'[b] = Kept[b]
      /\ entries' \in [Address -> Info \cup {NULL}]
      /\ store' \in [Address -> Data]
  BY <1>1, <1>2
<1>5. Contents' = [Contents EXCEPT ![a] = IF info.data = NULL THEN @ ELSE info.data]
  <2>1. Contents'[a] = IF info.data = NULL THEN Contents[a] ELSE info.data
    BY <1>2, <1>3, <1>4 DEF Contents, Cached
  <2>2. ASSUME NEW b \in Address, b # a PROVE Contents'[b] = Contents[b]
    BY <2>2, <1>1, <1>2, <1>4 DEF Contents, Cached
  <2>3. Contents' = [b \in Address |-> Contents'[b]] /\ Contents = [b \in Address |-> Contents[b]]
    BY DEF Contents
  <2>4. QED BY <2>1, <2>2, <2>3
<1>6. \A i \in DOMAIN KeptOrder : KeptOrder[i] # a /\ KeptOrder[i] \in Address
  BY <1>1, <1>3
<1>7. order' \in Seq(Address) /\ IsInjective(order') /\ ListedAreCached'
  <2>1. CASE info.node = "listed"
    <3>1. /\ order' \in Seq(Address) /\ IsInjective(order')
          /\ \A i \in DOMAIN order' :
               order'[i] = a \/ \E j \in DOMAIN KeptOrder : order'[i] = KeptOrder[j]
      BY <2>1, <1>1, <1>2, <1>6, PushFront
    <3>2. QED BY <3>1, <1>1, <1>4, <1>6 DEF ListedAreCached, Cached
  <2>2. CASE info.node # "listed"
    <3>1. order' = KeptOrder
      BY <2>2, <1>2
    <3>2. QED BY <3>1, <1>1, <1>4, <1>6 DEF ListedAreCached, Cached
  <2>3. QED BY <2>1, <2>2
<1>8. TypeOK'
  BY <1>2, <1>4, <1>7 DEF CacheInv, TypeOK
<1>9. CleanIsStored' /\ NoGarbage' /\ ChangedHasData'
  <2>1. ASSUME NEW b \in Address, Cached(b)', b # a
        PROVE  entries'[b] = entries[b] /\ store'[b] = store[b] /\ Cached(b)
    BY <2>1, <1>1, <1>2, <1>4 DEF Cached
  <2>2. QED
    BY <2>1, <1>3, <1>4 DEF CacheInv, CleanIsStored, NoGarbage, ChangedHasData, CachedBlocks,
                            Cached
<1>10. QED BY <1>5, <1>7, <1>8, <1>9 DEF CacheInv

LEMMA ReadMissStep ==
  ASSUME CacheInv, NEW a \in Address, ReadMiss(a)
  PROVE  CacheInv' /\ Plain!Next
<1> DEFINE info == BlockInfo(store[a], FALSE, "listed")
<1>1. store[a] \in Data /\ store[a] # NULL /\ store[a] # Garbage
  BY BlockCacheAssumption DEF CacheInv, TypeOK
<1>2. info \in Info /\ info.data = store[a] /\ ~info.changed
  BY <1>1 DEF BlockInfo, Info
<1>3. info # NULL
  BY <1>2, BlockCacheAssumption
<1>4. Miss(a, info) /\ reply' = <<"data", a, store[a]>> /\ Contents[a] = store[a]
  BY DEF ReadMiss, Miss, Contents, Cached
<1> HIDE DEF info
<1>5. CacheInv' /\ Contents' = [Contents EXCEPT ![a] = store[a]]
  BY <1>1, <1>2, <1>3, <1>4, MissStep
<1>6. Contents' = Contents
  BY <1>4, <1>5 DEF Contents
<1>7. QED BY <1>4, <1>5, <1>6 DEF Plain!Next, Plain!Read

LEMMA WriteMissStep ==
  ASSUME CacheInv, NEW a \in Address, NEW d \in Data, WriteMiss(a, d)
  PROVE  CacheInv' /\ Plain!Next
<1> DEFINE info == BlockInfo(d, TRUE, "listed")
<1>1. d # NULL /\ d # Garbage
  BY BlockCacheAssumption
<1>2. info \in Info /\ info.data = d /\ info.changed
  BY DEF BlockInfo, Info
<1>3. info # NULL
  BY <1>2, BlockCacheAssumption
<1>4. Miss(a, info) /\ reply' = <<"done">>
  BY DEF WriteMiss
<1> HIDE DEF info
<1>5. CacheInv' /\ Contents' = [Contents EXCEPT ![a] = d]
  BY <1>1, <1>2, <1>3, <1>4, MissStep
<1>6. QED BY <1>4, <1>5 DEF Plain!Next, Plain!Write

\* A miss that fails without a read leaves an entry without data.
LEMMA MissFailsStep ==
  ASSUME CacheInv, "read" \notin Faults, NEW a \in Address, MissFails(a)
  PROVE  CacheInv' /\ Plain!Next
<1>1. PICK fault \in {"node", "data"} : Miss(a, LeftBy(fault)) /\ reply' = <<"error">>
  BY DEF MissFails
<1> DEFINE info == LeftBy(fault)
<1>2. info \in Info /\ info.data = NULL /\ ~info.changed
  BY <1>1 DEF LeftBy, BlockInfo, Info
<1>3. info # NULL /\ info.data # Garbage
  BY <1>2, BlockCacheAssumption
<1>4. Miss(a, info) /\ reply' = <<"error">>
  BY <1>1
<1> HIDE DEF info
<1>5. CacheInv' /\ Contents' = [Contents EXCEPT ![a] = Contents[a]]
  BY <1>2, <1>3, <1>4, MissStep
<1>6. Contents' = Contents
  BY <1>5 DEF Contents
<1>7. QED BY <1>4, <1>5, <1>6 DEF Plain!Next, Plain!Fail

LEMMA InfoFailsStep ==
  ASSUME CacheInv, NEW a \in Address, InfoFails(a)
  PROVE  CacheInv' /\ Plain!Next
<1> DEFINE info == BlockInfo(NULL, FALSE, "wild")
<1>1. info \in Info /\ info.data = NULL /\ ~info.changed
  BY DEF BlockInfo, Info
<1>2. info # NULL /\ info.data # Garbage
  BY <1>1, BlockCacheAssumption
<1>3. /\ entries' = [entries EXCEPT ![a] = info] /\ entries[a] = NULL
      /\ reply' = <<"error">> /\ UNCHANGED <<store, order, halted>>
  BY DEF InfoFails, Cached
<1> HIDE DEF info
<1>4. entries \in [Address -> Info \cup {NULL}]
  BY DEF CacheInv, TypeOK
<1>5. /\ entries'[a] = info
      /\ \A b \in Address : b # a => entries'[b] = entries[b]
      /\ entries' \in [Address -> Info \cup {NULL}]
  BY <1>1, <1>3, <1>4
<1>6. Contents' = Contents
  BY <1>1, <1>3, <1>5 DEF Contents, Cached
<1>7. TypeOK'
  BY <1>3, <1>5 DEF CacheInv, TypeOK
<1>8. ListedAreCached'
  BY <1>2, <1>3, <1>5 DEF CacheInv, TypeOK, ListedAreCached, Cached
<1>9. CleanIsStored' /\ NoGarbage' /\ ChangedHasData'
  BY <1>1, <1>2, <1>3, <1>5 DEF CacheInv, CleanIsStored, NoGarbage, ChangedHasData,
                                CachedBlocks, Cached
<1>10. QED BY <1>3, <1>6, <1>7, <1>8, <1>9 DEF CacheInv, Plain!Next, Plain!Fail

\* A failed eviction takes the oldest block from the list only.
LEMMA EvictFailsStep ==
  ASSUME CacheInv, NEW a \in Address, EvictFails(a)
  PROVE  CacheInv' /\ Plain!Next
<1> DEFINE info == BlockInfo(NULL, FALSE, "none")
           kept == [entries[Oldest] EXCEPT !.node = "freed"]
<1>1. /\ Oldest \in Address
      /\ Front(order) \in Seq(Address) /\ IsInjective(Front(order))
      /\ \A i \in DOMAIN Front(order) :
           /\ Front(order)[i] # Oldest
           /\ \E j \in DOMAIN order : Front(order)[i] = order[j]
      /\ \E i \in DOMAIN order : Oldest = order[i]
  BY PopBack DEF CacheInv, TypeOK, EvictFails, Oldest
<1>2. entries[Oldest] # NULL /\ entries[a] = NULL
  BY <1>1 DEF CacheInv, ListedAreCached, Cached, EvictFails
<1>3. entries \in [Address -> Info \cup {NULL}] /\ entries[Oldest] \in Info
  BY <1>1, <1>2 DEF CacheInv, TypeOK
<1>4. info \in Info /\ info.data = NULL /\ ~info.changed /\ info # NULL /\ info.data # Garbage
  <2>1. info \in Info /\ info.data = NULL /\ ~info.changed
    BY DEF BlockInfo, Info
  <2>2. QED BY <2>1, BlockCacheAssumption
<1>5. /\ kept \in Info /\ kept.data = entries[Oldest].data
      /\ kept.changed = entries[Oldest].changed
  BY <1>3 DEF Info
<1>6. kept # NULL
  BY <1>5, BlockCacheAssumption
<1>7. /\ entries' = [entries EXCEPT ![Oldest] = kept, ![a] = info]
      /\ order' = Front(order) /\ reply' = <<"error">> /\ UNCHANGED <<store, halted>>
  BY <1>1, <1>2, <1>3 DEF EvictFails
<1> HIDE DEF info, kept
<1>8. /\ entries' \in [Address -> Info \cup {NULL}]
      /\ entries'[a] = info /\ entries'[Oldest] = kept
      /\ \A b \in Address : b # a /\ b # Oldest => entries'[b] = entries[b]
  BY <1>1, <1>2, <1>3, <1>4, <1>5, <1>7
<1>9. Contents' = Contents
  <2>1. ASSUME NEW b \in Address PROVE Contents'[b] = Contents[b]
    <3>1. CASE b = a
      BY <3>1, <1>2, <1>4, <1>7, <1>8 DEF Contents, Cached
    <3>2. CASE b = Oldest
      BY <3>2, <1>2, <1>5, <1>6, <1>7, <1>8 DEF Contents, Cached
    <3>3. CASE b # a /\ b # Oldest
      BY <3>3, <1>7, <1>8 DEF Contents, Cached
    <3>4. QED BY <3>1, <3>2, <3>3
  <2>2. Contents' = [b \in Address |-> Contents'[b]] /\ Contents = [b \in Address |-> Contents[b]]
    BY DEF Contents
  <2>3. QED BY <2>1, <2>2
<1>10. TypeOK'
  BY <1>1, <1>7, <1>8 DEF CacheInv, TypeOK
<1>11. \A i \in DOMAIN order : order[i] \in Address /\ entries[order[i]] # NULL
  BY DEF CacheInv, TypeOK, ListedAreCached, Cached
<1>12. ListedAreCached'
  BY <1>1, <1>2, <1>7, <1>8, <1>11 DEF ListedAreCached, Cached
<1>13. CleanIsStored' /\ NoGarbage' /\ ChangedHasData'
  <2>1. ASSUME NEW b \in Address, entries'[b] # NULL, b # a
        PROVE  /\ entries[b] # NULL /\ entries'[b].data = entries[b].data
               /\ entries'[b].changed = entries[b].changed /\ store'[b] = store[b]
    BY <2>1, <1>2, <1>5, <1>7, <1>8
  <2>2. QED
    BY <2>1, <1>4, <1>8 DEF CacheInv, CleanIsStored, NoGarbage, ChangedHasData, CachedBlocks,
                            Cached
<1>14. QED BY <1>7, <1>9, <1>10, <1>12, <1>13 DEF CacheInv, Plain!Next, Plain!Fail

\* Writing back any of the changed blocks is seen by nobody.
LEMMA FlushStep ==
  ASSUME CacheInv, NEW blocks \in SUBSET ChangedBlocks, FlushBlocks(blocks)
  PROVE  CacheInv' /\ Contents' = Contents
<1>1. entries \in [Address -> Info \cup {NULL}] /\ store \in [Address -> Data]
  BY DEF CacheInv, TypeOK
<1>2. ASSUME NEW b \in blocks
      PROVE  /\ b \in Address /\ entries[b] # NULL /\ entries[b] \in Info
             /\ entries[b].data \in Data /\ entries[b].data # NULL
             /\ entries'[b] \in Info /\ entries'[b] # NULL
             /\ entries'[b].data = entries[b].data /\ ~entries'[b].changed
             /\ store'[b] = entries[b].data
  <2>1. b \in Address /\ entries[b] # NULL /\ entries[b].changed
    BY DEF ChangedBlocks, CachedBlocks, Cached
  <2>2. entries[b] \in Info
    BY <1>1, <2>1
  <2>3. entries[b].data \in Data /\ entries[b].data # NULL
    BY <2>1, <2>2 DEF CacheInv, NoGarbage, ChangedHasData, CachedBlocks, Cached, Info
  <2>4. entries'[b] = [entries[b] EXCEPT !.changed = FALSE] /\ store'[b] = entries[b].data
    BY <2>1 DEF FlushBlocks
  <2>5. entries'[b] \in Info /\ entries'[b].data = entries[b].data /\ ~entries'[b].changed
    BY <2>2, <2>4 DEF Info
  <2>6. entries'[b] # NULL
    BY <2>5, BlockCacheAssumption
  <2>7. QED BY <2>1, <2>2, <2>3, <2>4, <2>5, <2>6
<1>3. ASSUME NEW b \in Address, b \notin blocks
      PROVE  entries'[b] = entries[b] /\ store'[b] = store[b]
  BY <1>3 DEF FlushBlocks
<1>4. entries' \in [Address -> Info \cup {NULL}] /\ store' \in [Address -> Data]
  <2>1. entries' = [b \in Address |-> entries'[b]] /\ store' = [b \in Address |-> store'[b]]
    BY DEF FlushBlocks
  <2>2. \A b \in Address : entries'[b] \in Info \cup {NULL} /\ store'[b] \in Data
    BY <1>1, <1>2, <1>3
  <2>3. QED BY <2>1, <2>2
<1>5. Contents' = Contents
  <2>1. \A b \in Address : Contents'[b] = Contents[b]
    BY <1>2, <1>3 DEF Contents, Cached
  <2>2. Contents' = [b \in Address |-> Contents'[b]] /\ Contents = [b \in Address |-> Contents[b]]
    BY DEF Contents
  <2>3. QED BY <2>1, <2>2
<1>6. TypeOK'
  BY <1>4 DEF CacheInv, TypeOK, FlushBlocks
<1>7. \A b \in Address : entries'[b] # NULL <=> entries[b] # NULL
  BY <1>2, <1>3
<1>8. ListedAreCached'
  BY <1>7 DEF CacheInv, TypeOK, ListedAreCached, Cached, FlushBlocks
<1>9. CleanIsStored' /\ NoGarbage' /\ ChangedHasData'
  <2>1. ASSUME NEW b \in Address, entries'[b] # NULL
        PROVE  /\ ~entries'[b].changed => entries'[b].data \in {store'[b], NULL}
               /\ entries'[b].data # Garbage
               /\ entries'[b].changed => entries'[b].data # NULL
    <3>1. CASE b \in blocks
      BY <3>1, <1>2, BlockCacheAssumption
    <3>2. CASE b \notin blocks
      BY <2>1, <3>2, <1>3 DEF CacheInv, CleanIsStored, NoGarbage, ChangedHasData,
                              CachedBlocks, Cached
    <3>3. QED BY <3>1, <3>2
  <2>2. QED BY <2>1 DEF CleanIsStored, NoGarbage, ChangedHasData, CachedBlocks, Cached
<1>10. QED BY <1>5, <1>6, <1>8, <1>9 DEF CacheInv

\* The step of a flush that meets an entry nobody set stores blocks, too.
LEMMA FlushWildStep ==
  ASSUME CacheInv, FlushWild
  PROVE  CacheInv' /\ Contents' = Contents /\ reply' = reply
<1>1. PICK blocks \in SUBSET ChangedBlocks :
        store' = [a \in Address |-> IF a \in blocks THEN entries[a].data ELSE store[a]]
  BY DEF FlushWild
<1>2. entries' = entries /\ order' = order /\ reply' = reply /\ halted' = "dangling"
  BY DEF FlushWild
<1>3. \A b \in blocks : /\ b \in Address /\ entries[b] # NULL /\ entries[b].changed
                        /\ entries[b].data \in Data /\ entries[b].data # NULL
  <2>1. ASSUME NEW b \in blocks PROVE b \in Address /\ entries[b] # NULL /\ entries[b].changed
    BY DEF ChangedBlocks, CachedBlocks, Cached
  <2>2. ASSUME NEW b \in blocks PROVE entries[b].data \in Data /\ entries[b].data # NULL
    <3>1. entries[b] \in Info
      BY <2>1 DEF CacheInv, TypeOK
    <3>2. QED
      BY <2>1, <3>1 DEF CacheInv, NoGarbage, ChangedHasData, CachedBlocks, Cached, Info
  <2>3. QED BY <2>1, <2>2
<1>4. TypeOK'
  BY <1>1, <1>2, <1>3 DEF CacheInv, TypeOK
<1>5. Contents' = Contents
  BY <1>1, <1>2, <1>3 DEF Contents, Cached
<1>6. ListedAreCached' /\ NoGarbage' /\ ChangedHasData'
  BY <1>2 DEF CacheInv, ListedAreCached, NoGarbage, ChangedHasData, CachedBlocks, Cached
<1>7. CleanIsStored'
  <2> SUFFICES ASSUME NEW b \in Address, entries[b] # NULL, ~entries[b].changed
               PROVE  entries[b].data \in {store'[b], NULL}
    BY <1>2 DEF CleanIsStored, CachedBlocks, Cached
  <2>1. b \notin blocks
    BY <1>3
  <2>2. store'[b] = store[b]
    BY <2>1, <1>1
  <2>3. QED BY <2>2 DEF CacheInv, CleanIsStored, CachedBlocks, Cached
<1>8. QED BY <1>2, <1>4, <1>5, <1>6, <1>7 DEF CacheInv

\* Where the kernel stops, everything stays as it was.
LEMMA HaltStep ==
  ASSUME CacheInv, NEW a \in Address, StrayHit(a) \/ NothingToEvict(a)
  PROVE  CacheInv' /\ Contents' = Contents /\ reply' = reply
<1>1. UNCHANGED <<store, entries, order, reply>> /\ halted' \in {"panic", "dangling"}
  BY DEF StrayHit, NothingToEvict
<1>2. QED
  BY <1>1 DEF CacheInv, TypeOK, CleanIsStored, ListedAreCached, NoGarbage, ChangedHasData,
              CachedBlocks, Cached, Contents

-----------------------------------------------------------------------------
(* The theorem *)

LEMMA CacheInit == Init => CacheInv /\ Plain!Init
<1> SUFFICES ASSUME Init PROVE CacheInv /\ Plain!Init
  OBVIOUS
<1>1. /\ store \in [Address -> Data] /\ entries = [a \in Address |-> NULL]
      /\ order = <<>> /\ reply = <<"done">> /\ halted = "no"
  BY DEF Init
<1>2. order \in Seq(Address) /\ DOMAIN order = {}
  BY <1>1
<1>3. CachedBlocks = {}
  BY <1>1 DEF CachedBlocks, Cached
<1>4. CacheInv
  BY <1>1, <1>2, <1>3 DEF CacheInv, TypeOK, IsInjective, CleanIsStored, ListedAreCached,
                          NoGarbage, ChangedHasData
<1>5. Contents = store
  BY <1>1 DEF Contents, Cached
<1>6. QED BY <1>1, <1>4, <1>5 DEF Plain!Init

LEMMA CacheStep ==
  ASSUME "read" \notin Faults, CacheInv, [Next]_vars
  PROVE  CacheInv' /\ [Plain!Next]_(Plain!vars)
<1>1. CASE UNCHANGED vars
  BY <1>1 DEF vars, CacheInv, TypeOK, CleanIsStored, ListedAreCached, NoGarbage, ChangedHasData,
              CachedBlocks, Cached, Contents, Plain!vars
<1>2. ASSUME NEW a \in Address, Read(a)
      PROVE  CacheInv' /\ Plain!Next
  BY <1>2, ReadHitStep, ReadMissStep DEF Read
<1>3. ASSUME NEW a \in Address, NEW d \in Data, Write(a, d)
      PROVE  CacheInv' /\ Plain!Next
  BY <1>3, WriteHitStep, WriteMissStep DEF Write
<1>4. ASSUME NEW a \in Address, Fails(a)
      PROVE  CacheInv' /\ [Plain!Next]_(Plain!vars)
  <2>1. CASE StrayHit(a) \/ NothingToEvict(a)
    BY <2>1, HaltStep DEF Plain!vars
  <2>2. CASE MissFails(a)
    BY <2>2, MissFailsStep
  <2>3. CASE MapFails(a)
    <3>1. UNCHANGED <<store, entries, order, halted>> /\ reply' = <<"error">>
      BY <2>3 DEF MapFails
    <3>2. CacheInv' /\ Contents' = Contents
      BY <3>1 DEF CacheInv, TypeOK, CleanIsStored, ListedAreCached, NoGarbage,
                  ChangedHasData, CachedBlocks, Cached, Contents
    <3>3. QED BY <3>1, <3>2 DEF Plain!Next, Plain!Fail
  <2>4. CASE InfoFails(a)
    BY <2>4, InfoFailsStep
  <2>5. CASE EvictFails(a)
    BY <2>5, EvictFailsStep
  <2>6. QED BY <1>4, <2>1, <2>2, <2>3, <2>4, <2>5 DEF Fails
<1>5. CASE Flush
  BY <1>5, FlushStep DEF Flush, Plain!Next, Plain!Flush
<1>6. CASE FlushFails
  BY <1>6, FlushStep DEF FlushFails, Plain!Next, Plain!Fail
<1>7. CASE FlushWild
  BY <1>7, FlushWildStep DEF Plain!vars
<1>8. QED BY <1>1, <1>2, <1>3, <1>4, <1>5, <1>6, <1>7 DEF Next

\* The types, and that what a clean block holds is in the store: what get_block() relies
\* on when it discards a block it need not write.
THEOREM CleanBlocksAreStored ==
  ASSUME "read" \notin Faults
  PROVE  Spec => [](TypeOK /\ CleanIsStored)
<1>1. CacheInv /\ [Next]_vars => CacheInv'
  BY CacheStep
<1>2. CacheInv => TypeOK /\ CleanIsStored
  BY DEF CacheInv
<1>3. QED BY <1>1, <1>2, CacheInit, PTL DEF Spec

\* MemoryBlockStore as a cache does what BlockStore promises: a read returns what was
\* last written, whatever get_block() evicted and flush() wrote since, and an operation
\* that failed half way has changed nothing that can be read.
THEOREM CacheIsBlockStore ==
  ASSUME "read" \notin Faults
  PROVE  Spec => ActsAsBlockStore
<1>1. CacheInv /\ [Next]_vars => CacheInv' /\ [Plain!Next]_(Plain!vars)
  BY CacheStep
<1>2. QED BY <1>1, CacheInit, PTL DEF Spec, ActsAsBlockStore, Plain!Spec
-----------------------------------------------------------------------------
(* The limit.  Nothing here depends on what the store below fails to do.   *)

Listed == {a \in CachedBlocks : entries[a].node = "listed"}

\* A block that has been written to has its data.
ChangedIsData == \A a \in CachedBlocks : entries[a].changed => entries[a].data \in Data

\* The list and the map agree on what is listed.
ListIsListed == ToSet(order) = Listed

\* The cache is within its limit as long as eviction can find every block of it.
ListedIsBounded ==
  /\ IsFiniteSet(CachedBlocks)
  /\ CachedBlocks = Listed => Cardinality(CachedBlocks) <= Limit

LimitInv == TypeOK /\ ChangedIsData /\ ListIsListed /\ ListedIsBounded

\* A block that is pushed to the front is in the list with the others.
LEMMA PushFrontSet ==
  ASSUME NEW list \in Seq(Address), NEW a \in Address
  PROVE  ToSet(<<a>> \o list) = ToSet(list) \cup {a}
<1> DEFINE new == <<a>> \o list
<1>1. DOMAIN list = 1..Len(list) /\ Len(list) \in Nat /\ DOMAIN new = 1..(Len(list) + 1)
  OBVIOUS
<1>2. new[1] = a /\ 1 \in DOMAIN new
  OBVIOUS
<1>3. \A i \in 2..(Len(list) + 1) : new[i] = list[i - 1] /\ i - 1 \in DOMAIN list
  OBVIOUS
<1>4. \A i \in DOMAIN list : new[i + 1] = list[i] /\ i + 1 \in DOMAIN new
  OBVIOUS
<1> HIDE DEF new
<1>5. \A i \in DOMAIN new : i = 1 \/ i \in 2..(Len(list) + 1)
  BY <1>1
<1>6. ToSet(new) = ToSet(list) \cup {a}
  BY <1>2, <1>3, <1>4, <1>5 DEF ToSet
<1>7. QED BY <1>6 DEF new

\* The oldest block leaves the list, and no other does.
LEMMA PopBackSet ==
  ASSUME NEW list \in Seq(Address), IsInjective(list), list # <<>>
  PROVE  ToSet(Front(list)) = ToSet(list) \ {Last(list)} /\ Last(list) \in ToSet(list)
<1> DEFINE n == Len(list)
<1>1. n \in Nat \ {0} /\ DOMAIN list = 1..n
  OBVIOUS
<1>2. Last(list) = list[n] /\ n \in DOMAIN list
  BY <1>1 DEF Last
<1>3. DOMAIN Front(list) = 1..(n - 1) /\ \A i \in 1..(n - 1) : Front(list)[i] = list[i]
  BY <1>1 DEF Front
<1> HIDE DEF n
<1>4. \A i \in 1..n : i # n => i \in 1..(n - 1)
  BY <1>1
<1>5. \A i \in 1..(n - 1) : i \in 1..n /\ i # n
  BY <1>1
<1>6. \A i \in 1..(n - 1) : list[i] # list[n]
  BY <1>1, <1>2, <1>5 DEF IsInjective
<1>7. ToSet(Front(list)) = {list[i] : i \in 1..(n - 1)}
  BY <1>3 DEF ToSet
<1>8. ToSet(list) = {list[i] : i \in 1..n}
  BY <1>1 DEF ToSet
<1>9. QED BY <1>1, <1>2, <1>4, <1>5, <1>6, <1>7, <1>8

\* A block that is taken out of the list is the only one to leave it.
LEMMA TakeOutSet ==
  ASSUME NEW list \in Seq(Address), IsInjective(list), NEW k \in DOMAIN list
  PROVE  ToSet(RemoveAt(list, k)) = ToSet(list) \ {list[k]}
<1> DEFINE n == Len(list)
           new == RemoveAt(list, k)
           at(i) == IF i < k THEN i ELSE i + 1
<1>1. /\ n \in Nat /\ DOMAIN list = 1..n /\ k \in 1..n
      /\ DOMAIN new = 1..(n - 1)
      /\ \A i \in 1..(n - 1) : new[i] = list[at(i)]
  BY TakeOutMoves
<1> HIDE DEF new, n
<1>2. \A i \in 1..(n - 1) : at(i) \in 1..n /\ at(i) # k
  BY <1>1
<1>3. ASSUME NEW j \in 1..n, j # k PROVE \E i \in 1..(n - 1) : at(i) = j
  <2>1. CASE j < k
    <3>1. j \in 1..(n - 1) /\ at(j) = j
      BY <2>1, <1>1
    <3>2. QED BY <3>1
  <2>2. CASE ~(j < k)
    <3>1. j - 1 \in 1..(n - 1) /\ at(j - 1) = j
      BY <2>2, <1>1, <1>3
    <3>2. QED BY <3>1
  <2>3. QED BY <2>1, <2>2
<1> HIDE DEF at
<1>4. \A i \in 1..(n - 1) : list[at(i)] # list[k]
  BY <1>1, <1>2 DEF IsInjective
<1>5. \A x \in ToSet(new) : x \in ToSet(list) \ {list[k]}
  BY <1>1, <1>2, <1>4 DEF ToSet
<1>6. \A x \in ToSet(list) \ {list[k]} : x \in ToSet(new)
  BY <1>1, <1>3 DEF ToSet
<1>7. ToSet(new) = ToSet(list) \ {list[k]}
  BY <1>5, <1>6
<1>8. QED BY <1>7 DEF new

\* The block that is bumped stays in the list, and so do the others.
LEMMA BumpKeepsSet ==
  ASSUME TypeOK, NEW a \in Address, BumpToFront(a)
  PROVE  /\ order' \in Seq(Address) /\ IsInjective(order')
         /\ ToSet(order') = ToSet(order)
<1>1. PICK i \in DOMAIN order : order[i] = a /\ order' = <<a>> \o RemoveAt(order, i)
  BY DEF BumpToFront
<1>2. order \in Seq(Address) /\ IsInjective(order)
  BY DEF TypeOK
<1>3. /\ RemoveAt(order, i) \in Seq(Address) /\ IsInjective(RemoveAt(order, i))
      /\ \A k \in DOMAIN RemoveAt(order, i) : RemoveAt(order, i)[k] # a
  BY <1>1, <1>2, TakeOut
<1>4. order' \in Seq(Address) /\ IsInjective(order')
  BY <1>1, <1>3, PushFront
<1>5. ToSet(order') = ToSet(RemoveAt(order, i)) \cup {a}
  BY <1>1, <1>3, PushFrontSet
<1>6. ToSet(RemoveAt(order, i)) = ToSet(order) \ {a}
  BY <1>1, <1>2, TakeOutSet
<1>7. a \in ToSet(order)
  BY <1>1 DEF ToSet
<1>8. QED BY <1>4, <1>5, <1>6, <1>7

LEMMA ReadHitLimit ==
  ASSUME LimitInv, NEW a \in Address, ReadHit(a)
  PROVE  LimitInv'
<1>1. BumpToFront(a) /\ UNCHANGED <<store, entries, halted>>
  BY DEF ReadHit
<1>2. /\ order' \in Seq(Address) /\ IsInjective(order')
      /\ ToSet(order') = ToSet(order)
  BY <1>1, BumpKeepsSet DEF LimitInv
<1>3. CachedBlocks' = CachedBlocks /\ Listed' = Listed
  BY <1>1 DEF CachedBlocks, Cached, Listed
<1>4. TypeOK' /\ ChangedIsData'
  BY <1>1, <1>2, <1>3 DEF LimitInv, TypeOK, ChangedIsData
<1>5. QED BY <1>2, <1>3, <1>4 DEF LimitInv, ListIsListed, ListedIsBounded

LEMMA WriteHitLimit ==
  ASSUME LimitInv, NEW a \in Address, NEW d \in Data, WriteHit(a, d)
  PROVE  LimitInv'
<1> DEFINE info == BlockInfo(d, TRUE, "listed")
<1>1. BumpToFront(a) /\ entries' = [entries EXCEPT ![a] = info] /\ UNCHANGED <<store, halted>>
  BY DEF WriteHit
<1>2. entries[a] # NULL /\ entries[a].node = "listed"
  BY DEF WriteHit, Ready, Cached
<1>3. info \in Info /\ info # NULL /\ info.data = d /\ info.node = "listed"
  <2>1. info \in Info /\ info.data = d /\ info.node = "listed"
    BY DEF BlockInfo, Info
  <2>2. QED BY <2>1, BlockCacheAssumption
<1> HIDE DEF info
<1>4. /\ order' \in Seq(Address) /\ IsInjective(order')
      /\ ToSet(order') = ToSet(order)
  BY <1>1, BumpKeepsSet DEF LimitInv
<1>5. /\ entries' \in [Address -> Info \cup {NULL}] /\ entries'[a] = info
      /\ \A b \in Address : b # a => entries'[b] = entries[b]
  BY <1>1, <1>3 DEF LimitInv, TypeOK
<1>6. CachedBlocks' = CachedBlocks /\ Listed' = Listed
  BY <1>2, <1>3, <1>5 DEF CachedBlocks, Cached, Listed
<1>7. TypeOK'
  BY <1>1, <1>4, <1>5 DEF LimitInv, TypeOK
<1>8. ChangedIsData'
  BY <1>3, <1>5 DEF LimitInv, ChangedIsData, CachedBlocks, Cached
<1>9. QED BY <1>4, <1>6, <1>7, <1>8 DEF LimitInv, ListIsListed, ListedIsBounded

\* Eviction takes one listed block from the map, from the list and from the count.
LEMMA EvictLimit ==
  ASSUME LimitInv, Full => order # <<>>
  PROVE  /\ Kept \in [Address -> Info \cup {NULL}]
         /\ WrittenBack \in [Address -> Data]
         /\ KeptOrder \in Seq(Address) /\ IsInjective(KeptOrder)
         /\ \A b \in Address : Kept[b] \in {NULL, entries[b]}
         /\ \A b \in Address : Kept[b] = NULL /\ entries[b] # NULL => b \in Listed
         /\ ToSet(KeptOrder) = {b \in Listed : Kept[b] # NULL}
         /\ IsFiniteSet({b \in Address : Kept[b] # NULL})
         /\ CachedBlocks = Listed => Cardinality({b \in Address : Kept[b] # NULL}) < Limit
<1> USE DEF LimitInv
<1>1. /\ entries \in [Address -> Info \cup {NULL}] /\ store \in [Address -> Data]
      /\ order \in Seq(Address) /\ IsInjective(order)
      /\ ToSet(order) = Listed
      /\ IsFiniteSet(CachedBlocks)
      /\ CachedBlocks = Listed => Cardinality(CachedBlocks) <= Limit
      /\ CachedBlocks = {b \in Address : entries[b] # NULL}
      /\ Listed \subseteq CachedBlocks
  BY DEF TypeOK, ListIsListed, ListedIsBounded, CachedBlocks, Cached, Listed
<1>2. Cardinality(CachedBlocks) \in Nat /\ Limit \in Nat
  BY <1>1, FS_CardinalityType, BlockCacheAssumption
<1>3. CASE ~Full
  <2>1. Kept = entries /\ WrittenBack = store /\ KeptOrder = order
    BY <1>3 DEF Kept, WrittenBack, KeptOrder
  <2>2. Cardinality(CachedBlocks) < Limit
    BY <1>2, <1>3 DEF Full
  <2>3. {b \in Address : Kept[b] # NULL} = CachedBlocks /\ {b \in Listed : Kept[b] # NULL} = Listed
    BY <2>1, <1>1
  <2>4. QED BY <2>1, <2>2, <2>3, <1>1
<1>4. CASE Full
  <2>1. /\ Oldest \in Address
        /\ Front(order) \in Seq(Address)
        /\ IsInjective(Front(order))
    BY <1>1, <1>4, PopBack DEF Oldest
  <2>2. ToSet(Front(order)) = Listed \ {Oldest} /\ Oldest \in Listed
    BY <1>1, <1>4, PopBackSet DEF Oldest
  <2>3. KeptOrder = Front(order) /\ Kept = [entries EXCEPT ![Oldest] = NULL]
    BY <1>4 DEF Kept, KeptOrder
  <2>4. /\ Kept \in [Address -> Info \cup {NULL}]
        /\ Kept[Oldest] = NULL
        /\ \A b \in Address : b # Oldest => Kept[b] = entries[b]
    BY <1>1, <2>1, <2>3
  <2>5. Oldest \in CachedBlocks
    BY <1>1, <2>2
  <2>6. WrittenBack \in [Address -> Data]
    BY <1>1, <2>5 DEF WrittenBack, ChangedIsData
  <2>7. {b \in Address : Kept[b] # NULL} = CachedBlocks \ {Oldest}
    BY <1>1, <2>4
  <2>8. IsFiniteSet(CachedBlocks \ {Oldest})
    BY <1>1, FS_RemoveElement
  <2>9. Cardinality(CachedBlocks \ {Oldest}) = Cardinality(CachedBlocks) - 1
    BY <1>1, <2>5, FS_RemoveElement
  <2>10. CachedBlocks = Listed => Cardinality(CachedBlocks \ {Oldest}) < Limit
    BY <1>1, <1>2, <2>9
  <2>11. {b \in Listed : Kept[b] # NULL} = Listed \ {Oldest}
    BY <1>1, <2>4
  <2>12. QED BY <2>1, <2>2, <2>3, <2>4, <2>6, <2>7, <2>8, <2>10, <2>11
<1>5. QED BY <1>3, <1>4

LEMMA MissLimit ==
  ASSUME LimitInv, NEW a \in Address, NEW info \in Info, Miss(a, info),
         info.changed => info.data \in Data
  PROVE  LimitInv'
<1> DEFINE rest == {b \in Address : Kept[b] # NULL}
<1>1. /\ Kept \in [Address -> Info \cup {NULL}]
      /\ WrittenBack \in [Address -> Data]
      /\ KeptOrder \in Seq(Address) /\ IsInjective(KeptOrder)
      /\ \A b \in Address : Kept[b] \in {NULL, entries[b]}
      /\ \A b \in Address : Kept[b] = NULL /\ entries[b] # NULL => b \in Listed
      /\ ToSet(KeptOrder) = {b \in Listed : Kept[b] # NULL}
      /\ IsFiniteSet(rest)
      /\ CachedBlocks = Listed => Cardinality(rest) < Limit
  BY EvictLimit DEF Miss
<1>2. /\ entries[a] = NULL
      /\ entries' = [Kept EXCEPT ![a] = info]
      /\ store' = WrittenBack /\ halted' = halted
      /\ order' = IF info.node = "listed" THEN <<a>> \o KeptOrder ELSE KeptOrder
  BY DEF Miss, Cached
<1>3. Kept[a] = NULL /\ info # NULL
  BY <1>1, <1>2, BlockCacheAssumption
<1>4. /\ entries'[a] = info
      /\ \A b \in Address : b # a => entries'[b] = Kept[b]
      /\ entries' \in [Address -> Info \cup {NULL}]
      /\ store' \in [Address -> Data]
  BY <1>1, <1>2
<1>5. a \notin Listed /\ a \notin ToSet(KeptOrder) /\ a \notin rest
  BY <1>1, <1>2, <1>3 DEF Listed, CachedBlocks, Cached
<1>6. order' \in Seq(Address) /\ IsInjective(order')
  <2>1. \A i \in DOMAIN KeptOrder : KeptOrder[i] # a
    BY <1>5 DEF ToSet
  <2>2. QED BY <1>1, <1>2, <2>1, PushFront
<1>7. ToSet(order') = IF info.node = "listed" THEN ToSet(KeptOrder) \cup {a} ELSE ToSet(KeptOrder)
  BY <1>1, <1>2, PushFrontSet
<1> HIDE DEF rest
<1>8. CachedBlocks' = rest \cup {a}
  BY <1>3, <1>4 DEF CachedBlocks, Cached, rest
<1>9. \A b \in rest : b \in CachedBlocks /\ entries'[b] = entries[b]
  BY <1>1, <1>4, <1>5 DEF rest, CachedBlocks, Cached
<1>10. Listed' = {b \in Listed : Kept[b] # NULL} \cup (IF info.node = "listed" THEN {a} ELSE {})
  <2>1. \A b \in Listed' : (b \in rest /\ b \in Listed) \/ (b = a /\ info.node = "listed")
    BY <1>4, <1>8, <1>9 DEF Listed
  <2>2. \A b \in Listed : Kept[b] # NULL => b \in Listed'
    BY <1>8, <1>9 DEF Listed, rest, CachedBlocks
  <2>3. info.node = "listed" => a \in Listed'
    BY <1>4, <1>8 DEF Listed
  <2>4. \A b \in rest : Kept[b] # NULL
    BY DEF rest
  <2>5. QED BY <2>1, <2>2, <2>3, <2>4
<1>11. ListIsListed'
  BY <1>1, <1>7, <1>10 DEF ListIsListed
<1>12. ListedIsBounded'
  <2>1. IsFiniteSet(rest \cup {a})
    BY <1>1, FS_AddElement
  <2>2. Cardinality(rest \cup {a}) = Cardinality(rest) + 1
    BY <1>1, <1>5, FS_AddElement
  <2>3. ASSUME CachedBlocks' = Listed' PROVE CachedBlocks = Listed
    <3> SUFFICES ASSUME NEW b \in CachedBlocks PROVE b \in Listed
      BY DEF Listed
    <3>1. CASE b \in rest
      BY <3>1, <2>3, <1>5, <1>8, <1>10
    <3>2. CASE b \notin rest
      BY <3>2, <1>1 DEF rest, CachedBlocks, Cached
    <3>3. QED BY <3>1, <3>2
  <2>4. Cardinality(rest) \in Nat /\ Limit \in Nat
    BY <1>1, FS_CardinalityType, BlockCacheAssumption
  <2>5. QED BY <1>1, <1>8, <2>1, <2>2, <2>3, <2>4 DEF ListedIsBounded
<1>13. TypeOK'
  BY <1>2, <1>4, <1>6 DEF LimitInv, TypeOK
<1>14. ChangedIsData'
  BY <1>4, <1>8, <1>9 DEF LimitInv, ChangedIsData
<1>15. QED BY <1>11, <1>12, <1>13, <1>14 DEF LimitInv

\* An entry that nobody set is in the map, not in the list.
LEMMA InfoFailsLimit ==
  ASSUME LimitInv, NEW a \in Address, InfoFails(a)
  PROVE  LimitInv'
<1> DEFINE info == BlockInfo(NULL, FALSE, "wild")
<1>1. info \in Info /\ info # NULL /\ ~info.changed /\ info.node = "wild"
  BY NewInfo
<1>2. /\ entries' = [entries EXCEPT ![a] = info] /\ entries[a] = NULL
      /\ UNCHANGED <<store, order, halted>>
  BY DEF InfoFails, Cached
<1> HIDE DEF info
<1>3. /\ entries' \in [Address -> Info \cup {NULL}]
      /\ entries'[a] = info
      /\ \A b \in Address : b # a => entries'[b] = entries[b]
  BY <1>1, <1>2 DEF LimitInv, TypeOK
<1>4. CachedBlocks' = CachedBlocks \cup {a} /\ Listed' = Listed /\ a \notin Listed
  BY <1>1, <1>2, <1>3 DEF CachedBlocks, Cached, Listed
<1>5. IsFiniteSet(CachedBlocks')
  BY <1>4, FS_AddElement DEF LimitInv, ListedIsBounded
<1>6. ListIsListed' /\ ListedIsBounded'
  BY <1>2, <1>4, <1>5 DEF LimitInv, ListIsListed, ListedIsBounded
<1>7. TypeOK'
  BY <1>2, <1>3 DEF LimitInv, TypeOK
<1>8. ChangedIsData'
  BY <1>1, <1>3, <1>4 DEF LimitInv, ChangedIsData, CachedBlocks, Cached
<1>9. QED BY <1>6, <1>7, <1>8 DEF LimitInv

\* A failed eviction leaves two entries that are not in the list.
LEMMA EvictFailsLimit ==
  ASSUME LimitInv, NEW a \in Address, EvictFails(a)
  PROVE  LimitInv'
<1> DEFINE info == BlockInfo(NULL, FALSE, "none")
           kept == [entries[Oldest] EXCEPT !.node = "freed"]
<1>1. order \in Seq(Address) /\ IsInjective(order) /\ order # <<>>
  BY DEF LimitInv, TypeOK, EvictFails
<1>2. Oldest \in Address /\ Front(order) \in Seq(Address) /\ IsInjective(Front(order))
  BY <1>1, PopBack DEF Oldest
<1>3. ToSet(Front(order)) = Listed \ {Oldest} /\ Oldest \in Listed
  BY <1>1, PopBackSet DEF Oldest, LimitInv, ListIsListed
<1>4. entries[a] = NULL /\ entries[Oldest] # NULL /\ entries[Oldest] \in Info
  BY <1>2, <1>3 DEF EvictFails, Listed, CachedBlocks, Cached, LimitInv, TypeOK
<1>5. info \in Info /\ info # NULL /\ ~info.changed /\ info.node = "none"
  BY NewInfo
<1>6. /\ kept \in Info /\ kept.node = "freed"
      /\ kept.changed = entries[Oldest].changed /\ kept.data = entries[Oldest].data
  BY <1>4 DEF Info
<1>7. kept # NULL
  BY <1>6, BlockCacheAssumption
<1>8. /\ entries' = [entries EXCEPT ![Oldest] = kept, ![a] = info]
      /\ order' = Front(order) /\ UNCHANGED <<store, halted>>
  BY <1>2, <1>4 DEF EvictFails, LimitInv, TypeOK
<1> HIDE DEF info, kept
<1>9. /\ entries' \in [Address -> Info \cup {NULL}]
      /\ entries'[a] = info /\ entries'[Oldest] = kept
      /\ \A b \in Address : b # a /\ b # Oldest => entries'[b] = entries[b]
  BY <1>2, <1>4, <1>5, <1>6, <1>8 DEF LimitInv, TypeOK
<1>10. CachedBlocks' = CachedBlocks \cup {a} /\ Listed' = Listed \ {Oldest} /\ a \notin Listed
  BY <1>2, <1>4, <1>5, <1>6, <1>7, <1>9 DEF CachedBlocks, Cached, Listed
<1>11. IsFiniteSet(CachedBlocks')
  BY <1>10, FS_AddElement DEF LimitInv, ListedIsBounded
<1>12. ListIsListed' /\ ListedIsBounded'
  BY <1>3, <1>8, <1>10, <1>11 DEF ListIsListed, ListedIsBounded
<1>13. TypeOK'
  BY <1>2, <1>8, <1>9 DEF LimitInv, TypeOK
<1>14. ChangedIsData'
  <2> SUFFICES ASSUME NEW b \in Address, entries'[b] # NULL, entries'[b].changed
               PROVE  entries'[b].data \in Data
    BY DEF ChangedIsData, CachedBlocks, Cached
  <2>1. CASE b = a
    BY <2>1, <1>5, <1>9
  <2>2. CASE b = Oldest
    BY <2>2, <1>4, <1>6, <1>9 DEF LimitInv, ChangedIsData, CachedBlocks, Cached
  <2>3. CASE b # a /\ b # Oldest
    BY <2>3, <1>9 DEF LimitInv, ChangedIsData, CachedBlocks, Cached
  <2>4. QED BY <2>1, <2>2, <2>3
<1>15. QED BY <1>12, <1>13, <1>14 DEF LimitInv

\* A flush changes neither the map's blocks nor the list.
LEMMA FlushLimit ==
  ASSUME LimitInv, NEW blocks \in SUBSET ChangedBlocks, FlushBlocks(blocks)
  PROVE  LimitInv'
<1>1. /\ entries \in [Address -> Info \cup {NULL}] /\ store \in [Address -> Data]
      /\ UNCHANGED <<order, halted>>
  BY DEF LimitInv, TypeOK, FlushBlocks
<1>2. ASSUME NEW b \in blocks
      PROVE  /\ b \in Address /\ entries[b] # NULL
             /\ entries[b].data \in Data /\ store'[b] = entries[b].data
             /\ entries'[b] \in Info /\ entries'[b] # NULL
             /\ ~entries'[b].changed /\ entries'[b].node = entries[b].node
  <2>1. b \in Address /\ entries[b] # NULL /\ entries[b].changed
    BY DEF ChangedBlocks, CachedBlocks, Cached
  <2>2. entries[b] \in Info
    BY <1>1, <2>1
  <2>3. entries[b].data \in Data
    BY <2>1 DEF LimitInv, ChangedIsData, CachedBlocks, Cached
  <2>4. entries'[b] = [entries[b] EXCEPT !.changed = FALSE] /\ store'[b] = entries[b].data
    BY <2>1 DEF FlushBlocks
  <2>5. entries'[b] \in Info /\ ~entries'[b].changed /\ entries'[b].node = entries[b].node
    BY <2>2, <2>4 DEF Info
  <2>6. entries'[b] # NULL
    BY <2>5, BlockCacheAssumption
  <2>7. QED BY <2>1, <2>3, <2>4, <2>5, <2>6
<1>3. ASSUME NEW b \in Address, b \notin blocks
      PROVE  entries'[b] = entries[b] /\ store'[b] = store[b]
  BY <1>3 DEF FlushBlocks
<1>4. entries' \in [Address -> Info \cup {NULL}] /\ store' \in [Address -> Data]
  <2>1. entries' = [b \in Address |-> entries'[b]] /\ store' = [b \in Address |-> store'[b]]
    BY DEF FlushBlocks
  <2>2. \A b \in Address : entries'[b] \in Info \cup {NULL} /\ store'[b] \in Data
    BY <1>1, <1>2, <1>3
  <2>3. QED BY <2>1, <2>2
<1>5. TypeOK'
  BY <1>1, <1>4 DEF LimitInv, TypeOK
<1>6. \A b \in Address : /\ entries'[b] # NULL <=> entries[b] # NULL
                         /\ entries[b] # NULL => entries'[b].node = entries[b].node
  BY <1>2, <1>3
<1>7. CachedBlocks' = CachedBlocks /\ Listed' = Listed
  BY <1>6 DEF CachedBlocks, Cached, Listed
<1>8. ChangedIsData'
  BY <1>2, <1>3 DEF LimitInv, ChangedIsData, CachedBlocks, Cached
<1>9. QED BY <1>1, <1>5, <1>7, <1>8 DEF LimitInv, ListIsListed, ListedIsBounded

LEMMA FlushWildLimit ==
  ASSUME LimitInv, FlushWild
  PROVE  LimitInv'
<1>1. PICK blocks \in SUBSET ChangedBlocks :
        store' = [a \in Address |-> IF a \in blocks THEN entries[a].data ELSE store[a]]
  BY DEF FlushWild
<1>2. entries' = entries /\ order' = order /\ halted' = "dangling"
  BY DEF FlushWild
<1>3. \A b \in blocks : entries[b].data \in Data
  BY DEF LimitInv, ChangedIsData, ChangedBlocks
<1>4. TypeOK'
  BY <1>1, <1>2, <1>3 DEF LimitInv, TypeOK
<1>5. CachedBlocks' = CachedBlocks /\ Listed' = Listed
  BY <1>2 DEF CachedBlocks, Cached, Listed
<1>6. QED BY <1>2, <1>4, <1>5 DEF LimitInv, ChangedIsData, ListIsListed, ListedIsBounded

\* What touches neither the map nor the list.
LEMMA SameCacheLimit ==
  ASSUME LimitInv, UNCHANGED <<store, entries, order>>, halted' \in {"no", "panic", "dangling"}
  PROVE  LimitInv'
<1>1. CachedBlocks' = CachedBlocks /\ Listed' = Listed
  BY DEF CachedBlocks, Cached, Listed
<1>2. TypeOK' /\ ChangedIsData'
  BY <1>1 DEF LimitInv, TypeOK, ChangedIsData
<1>3. QED BY <1>1, <1>2 DEF LimitInv, ListIsListed, ListedIsBounded

LEMMA LimitInit == Init => LimitInv
<1> SUFFICES ASSUME Init PROVE LimitInv
  OBVIOUS
<1>1. /\ store \in [Address -> Data] /\ entries = [a \in Address |-> NULL]
      /\ order = <<>> /\ halted = "no"
  BY DEF Init
<1>2. order \in Seq(Address) /\ DOMAIN order = {} /\ ToSet(order) = {}
  BY <1>1 DEF ToSet
<1>3. CachedBlocks = {} /\ Listed = {}
  BY <1>1 DEF CachedBlocks, Cached, Listed
<1>4. TypeOK
  BY <1>1, <1>2 DEF TypeOK, IsInjective
<1>5. ListedIsBounded
  BY <1>3, FS_EmptySet, BlockCacheAssumption DEF ListedIsBounded
<1>6. QED BY <1>2, <1>3, <1>4, <1>5 DEF LimitInv, ChangedIsData, ListIsListed

LEMMA LimitStep ==
  ASSUME LimitInv, [Next]_vars
  PROVE  LimitInv'
<1>1. CASE UNCHANGED vars
  BY <1>1, SameCacheLimit DEF vars, LimitInv, TypeOK
<1>2. ASSUME NEW a \in Address, Read(a) PROVE LimitInv'
  <2>1. CASE ReadHit(a)
    BY <2>1, ReadHitLimit
  <2>2. CASE ReadMiss(a)
    <3>1. store[a] \in Data
      BY DEF LimitInv, TypeOK
    <3>2. BlockInfo(store[a], FALSE, "listed") \in Info
          /\ ~BlockInfo(store[a], FALSE, "listed").changed
      BY <3>1, NewInfo
    <3>3. QED BY <2>2, <3>2, MissLimit DEF ReadMiss
  <2>3. QED BY <1>2, <2>1, <2>2 DEF Read
<1>3. ASSUME NEW a \in Address, NEW d \in Data, Write(a, d) PROVE LimitInv'
  <2>1. CASE WriteHit(a, d)
    BY <2>1, WriteHitLimit
  <2>2. CASE WriteMiss(a, d)
    <3>1. BlockInfo(d, TRUE, "listed") \in Info /\ BlockInfo(d, TRUE, "listed").data = d
      BY NewInfo
    <3>2. QED BY <2>2, <3>1, MissLimit DEF WriteMiss
  <2>3. QED BY <1>3, <2>1, <2>2 DEF Write
<1>4. ASSUME NEW a \in Address, Fails(a) PROVE LimitInv'
  <2>1. CASE StrayHit(a) \/ NothingToEvict(a)
    <3>1. UNCHANGED <<store, entries, order>> /\ halted' \in {"panic", "dangling"}
      BY <2>1 DEF StrayHit, NothingToEvict
    <3>2. QED BY <3>1, SameCacheLimit
  <2>2. CASE MissFails(a)
    <3>1. PICK fault \in {"node", "data", "read"} : Miss(a, LeftBy(fault))
      BY <2>2 DEF MissFails
    <3>2. LeftBy(fault) \in Info /\ ~LeftBy(fault).changed
      BY DEF LeftBy, BlockInfo, Info
    <3>3. QED BY <3>1, <3>2, MissLimit
  <2>3. CASE MapFails(a)
    BY <2>3, SameCacheLimit DEF MapFails, LimitInv, TypeOK
  <2>4. CASE InfoFails(a)
    BY <2>4, InfoFailsLimit
  <2>5. CASE EvictFails(a)
    BY <2>5, EvictFailsLimit
  <2>6. QED BY <1>4, <2>1, <2>2, <2>3, <2>4, <2>5 DEF Fails
<1>5. CASE Flush
  BY <1>5, FlushLimit DEF Flush
<1>6. CASE FlushFails
  BY <1>6, FlushLimit DEF FlushFails
<1>7. CASE FlushWild
  BY <1>7, FlushWildLimit
<1>8. QED BY <1>1, <1>2, <1>3, <1>4, <1>5, <1>6, <1>7 DEF Next

\* block_map never holds more than cached_block_limit blocks, and block_list is exactly its
\* blocks, until an operation fails in the middle and leaves an entry without its node:
\* whatever fails, and however often get_block() evicted before.
THEOREM CacheKeepsItsLimit == Spec => []LimitIsKept
<1>1. Init => LimitInv
  BY LimitInit
<1>2. LimitInv /\ [Next]_vars => LimitInv'
  BY LimitStep
<1>3. LimitInv => LimitIsKept
  <2> SUFFICES ASSUME LimitInv, \A a \in CachedBlocks : entries[a].node = "listed"
               PROVE  Cardinality(CachedBlocks) <= Limit /\ ToSet(order) = CachedBlocks
    BY DEF LimitInv, LimitIsKept
  <2>1. Listed = CachedBlocks
    BY DEF Listed
  <2>2. QED BY <2>1 DEF LimitInv, ListIsListed, ListedIsBounded
<1>4. QED BY <1>1, <1>2, <1>3, PTL DEF Spec

-----------------------------------------------------------------------------
(* What is written *)

\* What may happen to a block that was written to, in one step.
Survives(a) ==
  Cached(a) /\ entries[a].changed /\ (Cached(a)' => ~entries'[a].changed)
    => store'[a] = entries[a].data

\* A miss may push a written block out, to the store.
LEMMA MissKeepsWritten ==
  ASSUME LimitInv, NEW a \in Address, NEW info, Miss(a, info), NEW b \in Address
  PROVE  Survives(b)
<1> SUFFICES ASSUME Cached(b), entries[b].changed, Cached(b)' => ~entries'[b].changed
             PROVE  store'[b] = entries[b].data
  BY DEF Survives
<1>1. /\ entries[a] = NULL /\ b # a
      /\ entries' = [Kept EXCEPT ![a] = info]
      /\ store' = WrittenBack
  BY DEF Miss, Cached
<1>2. /\ entries \in [Address -> Info \cup {NULL}] /\ store \in [Address -> Data]
      /\ order \in Seq(Address) /\ IsInjective(order)
  BY DEF LimitInv, TypeOK
<1>3. CASE ~Full
  BY <1>1, <1>2, <1>3 DEF Kept, Cached
<1>4. CASE Full
  <2>1. Oldest \in Address
    BY <1>2, <1>4, PopBack DEF Miss, Oldest
  <2>2. CASE b = Oldest
    BY <1>1, <1>2, <1>4, <2>2 DEF WrittenBack
  <2>3. CASE b # Oldest
    BY <1>1, <1>2, <1>4, <2>1, <2>3 DEF Kept, Cached
  <2>4. QED BY <2>2, <2>3
<1>5. QED BY <1>3, <1>4

\* The entry that a failed eviction takes from the list keeps what was written.
LEMMA EvictFailsKeepsWritten ==
  ASSUME LimitInv, NEW a \in Address, EvictFails(a), NEW b \in Address
  PROVE  Survives(b)
<1> SUFFICES ASSUME Cached(b), entries[b].changed, Cached(b)' => ~entries'[b].changed
             PROVE  FALSE
  BY DEF Survives
<1> DEFINE info == BlockInfo(NULL, FALSE, "none")
<1>1. order \in Seq(Address) /\ IsInjective(order) /\ order # <<>>
  BY DEF LimitInv, TypeOK, EvictFails
<1>2. Oldest \in Address /\ b # a
  BY <1>1, PopBack DEF Oldest, EvictFails, Cached
<1>3. /\ entries \in [Address -> Info \cup {NULL}] /\ entries[b] \in Info
      /\ entries' = [entries EXCEPT ![Oldest].node = "freed", ![a] = info]
  BY DEF LimitInv, TypeOK, EvictFails, Cached
<1> HIDE DEF info
<1>4. CASE b = Oldest
  <2>1. entries'[b] = [entries[b] EXCEPT !.node = "freed"]
    BY <1>2, <1>3, <1>4
  <2>2. entries'[b] \in Info /\ entries'[b].changed = entries[b].changed
    BY <1>3, <2>1 DEF Info
  <2>3. entries'[b] # NULL
    BY <2>2, BlockCacheAssumption
  <2>4. QED BY <2>2, <2>3 DEF Cached
<1>5. CASE b # Oldest
  BY <1>2, <1>3, <1>5 DEF Cached
<1>6. QED BY <1>4, <1>5

LEMMA StepKeepsWritten ==
  ASSUME LimitInv, [Next]_vars, NEW b \in Address
  PROVE  Survives(b)
<1>1. CASE UNCHANGED <<store, entries>>
  BY <1>1 DEF Survives, Cached
<1>2. ASSUME NEW a \in Address, NEW info, Miss(a, info) PROVE Survives(b)
  BY <1>2, MissKeepsWritten
<1>3. ASSUME NEW a \in Address, NEW d \in Data, Write(a, d) PROVE Survives(b)
  <2>1. CASE WriteHit(a, d)
    <3> DEFINE info == BlockInfo(d, TRUE, "listed")
    <3>1. info \in Info /\ info.changed
      BY DEF BlockInfo, Info
    <3>2. entries' = [entries EXCEPT ![a] = info] /\ entries \in [Address -> Info \cup {NULL}]
      BY <2>1 DEF WriteHit, LimitInv, TypeOK
    <3> HIDE DEF info
    <3>3. entries'[b] = IF b = a THEN info ELSE entries[b]
      BY <3>2
    <3>4. info # NULL
      BY <3>1, BlockCacheAssumption
    <3>5. QED BY <3>1, <3>3, <3>4 DEF Survives, Cached
  <2>2. CASE WriteMiss(a, d)
    BY <2>2, <1>2 DEF WriteMiss
  <2>3. QED BY <1>3, <2>1, <2>2 DEF Write
<1>4. ASSUME NEW a \in Address, Read(a) PROVE Survives(b)
  BY <1>1, <1>2, <1>4 DEF Read, ReadHit, ReadMiss
<1>5. ASSUME NEW a \in Address, Fails(a) PROVE Survives(b)
  <2>1. CASE InfoFails(a)
    BY <2>1 DEF InfoFails, Survives, Cached, LimitInv, TypeOK
  <2>2. CASE EvictFails(a)
    BY <2>2, EvictFailsKeepsWritten
  <2>3. CASE MissFails(a)
    BY <2>3, <1>2 DEF MissFails
  <2>4. QED
    BY <1>1, <1>5, <2>1, <2>2, <2>3 DEF Fails, StrayHit, MapFails, NothingToEvict
<1>6. ASSUME NEW blocks \in SUBSET ChangedBlocks, FlushBlocks(blocks) PROVE Survives(b)
  BY <1>6 DEF FlushBlocks, Survives, Cached
<1>7. CASE FlushWild
  BY <1>7 DEF FlushWild, Survives, Cached
<1>8. CASE UNCHANGED vars
  BY <1>1, <1>8 DEF vars
<1>9. QED BY <1>3, <1>4, <1>5, <1>6, <1>7, <1>8 DEF Next, Flush, FlushFails

\* No step forgets what was written to a block: when get_block() evicts it or flush() marks
\* it as stored, the store below has it, whatever failed in that step or before.
THEOREM CacheDropsNothingWritten == Spec => WrittenIsNotDropped
<1> DEFINE Kind == \A a \in Address :
                     Cached(a) /\ entries[a].changed /\ (Cached(a)' => ~entries'[a].changed)
                       => store'[a] = entries[a].data
<1>1. LimitInv /\ [Next]_vars => LimitInv'
  BY LimitStep
<1>2. LimitInv /\ [Next]_vars => Kind
  BY StepKeepsWritten DEF Survives
<1>3. Spec => [][Kind]_vars
  BY <1>1, <1>2, LimitInit, PTL DEF Spec
<1>4. QED BY <1>3 DEF WrittenIsNotDropped
=============================================================================
