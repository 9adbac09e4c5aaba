------------------------ MODULE BuddyAllocatorProofs ------------------------
(***************************************************************************)
(* No memory is given out twice and none is lost, for an area of any size: *)
(* the blocks that are there are a binary tree, whose leaves are free or   *)
(* used, never two free halves of one block.                               *)
(***************************************************************************)
EXTENDS BuddyAllocator, SequenceTheorems, WellFoundedInduction, TLAPS

-----------------------------------------------------------------------------
(* Numbers *)

\* Any natural numbers have a least one.
LEMMA Least ==
  ASSUME NEW S \in SUBSET Nat, S # {}
  PROVE  \E m \in S : \A k \in S : m <= k
<1> DEFINE R == {p \in Nat \X Nat : p[1] < p[2]}
<1>1. OpToRel(<, Nat) = R
  BY Zenon DEF OpToRel
<1>2. IsWellFoundedOn(R, Nat)
  BY <1>1, NatLessThanWellFounded, Zenon
<1>3. \E m \in S : \A k \in S : <<k, m>> \notin R
  <2> HIDE DEF R
  <2>1. QED BY <1>2, WFMin
<1>4. ASSUME NEW m \in Nat, NEW k \in Nat, <<k, m>> \notin R
      PROVE  m <= k
  <2>1. ~(k < m)
    BY <1>4
  <2>2. QED BY <2>1
<1>5. QED BY <1>3, <1>4

\* Those that are bounded have a greatest one.
LEMMA Greatest ==
  ASSUME NEW n \in Nat, NEW S \in SUBSET (0..n), S # {}
  PROVE  \E m \in S : \A k \in S : k <= m
<1> DEFINE T == {n - k : k \in S}
<1>1. T \in SUBSET Nat /\ T # {}
  <2>1. \A k \in S : n - k \in Nat
    OBVIOUS
  <2>2. QED BY <2>1
<1>2. PICK t \in T : \A k \in T : t <= k
  BY <1>1, Least
<1>3. QED BY <1>2

\* What is left over does not change a quotient.
LEMMA Quotient ==
  ASSUME NEW d \in Nat \ {0}, NEW a \in Nat, NEW r \in 0..(d - 1)
  PROVE  ((a * d) + r) \div d = a
OBVIOUS

\* The quotient and what is left over.
LEMMA Division ==
  ASSUME NEW u \in Nat, NEW d \in Nat \ {0}
  PROVE  /\ u \div d \in Nat
         /\ u % d \in 0..(d - 1)
         /\ u = ((u \div d) * d) + (u % d)
OBVIOUS

-----------------------------------------------------------------------------
(* Blocks *)

\* The blocks of a level have half the size of those above.
LEMMA Sizes ==
  /\ Levels \in Nat \ {0} /\ Level \subseteq Nat
  /\ \A l \in Level : Size[l] \in Nat /\ Size[l] > 0
  /\ \A l \in Level : l # 0 => l - 1 \in Level /\ Size[l - 1] = 2 * Size[l]
  /\ 0 \in Level
<1>1. Level \subseteq Nat /\ 0 \in Level
  BY BuddyAssumption DEF Level
<1>2. ASSUME NEW l \in Level
      PROVE  Size[l] \in Nat /\ Size[l] > 0
  BY BuddyAssumption
<1>3. ASSUME NEW l \in Level, l # 0
      PROVE  l - 1 \in Level /\ Size[l - 1] = 2 * Size[l]
  BY <1>3, BuddyAssumption DEF Level
<1>4. QED BY <1>1, <1>2, <1>3, BuddyAssumption

\* The index of a unit's block in a level is that in a deeper one, divided.
LEMMA CoarserIndex ==
  ASSUME NEW u \in Nat, NEW s \in Nat \ {0}, NEW m \in Nat \ {0}
  PROVE  u \div (m * s) = (u \div s) \div m
<1> DEFINE q == u \div s
           r == u % s
           a == q \div m
           b == q % m
<1>1. q \in Nat /\ r \in 0..(s - 1) /\ u = (q * s) + r
  BY Division
<1>2. a \in Nat /\ b \in 0..(m - 1) /\ q = (a * m) + b
  BY <1>1, Division
<1> HIDE DEF q, r, a, b
<1>3. b * s \in Nat /\ b * s <= (m - 1) * s
  BY <1>2
<1>4. m * s \in Nat \ {0} /\ (b * s) + r \in 0..((m * s) - 1)
  BY <1>1, <1>3
<1>5. u = (a * (m * s)) + ((b * s) + r)
  BY <1>1, <1>2
<1>6. u \div (m * s) = a
  BY <1>2, <1>4, <1>5, Quotient
<1>7. QED BY <1>6 DEF q, a

\* What the index of the block of a unit is.
LEMMA Blocks ==
  ASSUME NEW u \in Unit, NEW l \in Level
  PROVE  /\ u \in Nat /\ u \div Size[l] \in Nat
         /\ BlockAt(u, l) = <<l, u \div Size[l]>>
         /\ BlockAt(u, l) \in Block
<1>1. u \in Nat
  BY Sizes DEF Unit
<1>2. u \div Size[l] \in Nat
  BY <1>1, Sizes, Division
<1>3. QED BY <1>1, <1>2 DEF BlockAt, Block

\* Units that share a block share all the blocks around it.
LEMMA SharedAbove ==
  ASSUME NEW u \in Unit, NEW v \in Unit, NEW k \in Level, NEW l \in Level, k <= l,
         BlockAt(u, l) = BlockAt(v, l)
  PROVE  BlockAt(u, k) = BlockAt(v, k)
<1>1. PICK m \in 1..Size[0] : Size[k] = m * Size[l]
  BY BuddyAssumption
<1>2. m \in Nat \ {0} /\ Size[l] \in Nat \ {0}
  BY Sizes
<1>3. u \in Nat /\ v \in Nat /\ u \div Size[l] = v \div Size[l]
  BY Blocks
<1>4. u \div Size[k] = v \div Size[k]
  BY <1>1, <1>2, <1>3, CoarserIndex
<1>5. QED BY <1>4, Blocks

\* The two halves of a block are buddies.
LEMMA Halves ==
  ASSUME NEW u \in Unit, NEW v \in Unit, NEW l \in Level, l # 0,
         BlockAt(u, l - 1) = BlockAt(v, l - 1)
  PROVE  BlockAt(v, l) = BlockAt(u, l) \/ BlockAt(v, l) = Buddy(BlockAt(u, l))
<1>1. l - 1 \in Level /\ Size[l - 1] = 2 * Size[l] /\ Size[l] \in Nat \ {0}
  BY Sizes
<1> DEFINE p == u \div Size[l]
           q == v \div Size[l]
<1>2. u \in Nat /\ v \in Nat /\ p \in Nat /\ q \in Nat
  BY Blocks
<1>3. u \div Size[l - 1] = v \div Size[l - 1]
  BY <1>1, Blocks
<1>4. u \div Size[l - 1] = p \div 2 /\ v \div Size[l - 1] = q \div 2
  BY <1>1, <1>2, CoarserIndex
<1>5. BlockAt(u, l) = <<l, p>> /\ BlockAt(v, l) = <<l, q>>
  BY Blocks
<1> HIDE DEF p, q
<1>6. p \div 2 = q \div 2
  BY <1>3, <1>4
<1>7. q = p \/ q = IF p % 2 = 1 THEN p - 1 ELSE p + 1
  BY <1>2, <1>6
<1>8. Buddy(BlockAt(u, l)) = <<l, IF p % 2 = 1 THEN p - 1 ELSE p + 1>>
  BY <1>5 DEF Buddy
<1>9. QED BY <1>5, <1>7, <1>8

\* The first unit of a block is in the block.
LEMMA Starts ==
  ASSUME NEW u \in Unit, NEW l \in Level
  PROVE  /\ Start(BlockAt(u, l)) \in Unit
         /\ BlockAt(Start(BlockAt(u, l)), l) = BlockAt(u, l)
         /\ Start(BlockAt(u, l)) % Size[l] = 0
         /\ u % Size[l] = 0 => Start(BlockAt(u, l)) = u
<1> DEFINE q == u \div Size[l]
           a == q * Size[l]
<1>1. Size[l] \in Nat \ {0} /\ u \in Nat /\ q \in Nat
  BY Blocks, Sizes
<1>2. u = a + (u % Size[l]) /\ u % Size[l] \in 0..(Size[l] - 1)
  BY <1>1, Division
<1>3. Start(BlockAt(u, l)) = a /\ a \in Nat
  BY <1>1, Blocks DEF Start
<1>4. a <= u /\ a \in Unit
  <2> HIDE DEF a
  <2>1. a <= u
    BY <1>1, <1>2, <1>3
  <2>2. QED BY <2>1, <1>1, <1>3, Sizes DEF Unit
<1>5. a \div Size[l] = q
  <2>1. a = (q * Size[l]) + 0 /\ 0 \in 0..(Size[l] - 1)
    BY <1>1
  <2>2. QED BY <2>1, <1>1, Quotient
<1>6. BlockAt(a, l) = BlockAt(u, l)
  BY <1>4, <1>5, Blocks
<1>7. a % Size[l] = 0
  <2>1. a = ((a \div Size[l]) * Size[l]) + (a % Size[l]) /\ a % Size[l] \in Nat
    <3> HIDE DEF a, q
    <3>1. a % Size[l] \in 0..(Size[l] - 1) /\ a = ((a \div Size[l]) * Size[l]) + (a % Size[l])
      BY <1>1, <1>3, Division
    <3>2. QED BY <3>1, <1>1
  <2>2. a = a + (a % Size[l])
    BY <2>1, <1>5
  <2> HIDE DEF a
  <2>3. QED BY <2>1, <2>2, <1>3
<1>8. u % Size[l] = 0 => a = u
  <2> HIDE DEF a
  <2>1. QED BY <1>1, <1>2, <1>3
<1>9. QED BY <1>3, <1>4, <1>6, <1>7, <1>8

\* The other half of a block is a block, in the same block of the level above.
LEMMA Buddies ==
  ASSUME NEW u \in Unit, NEW l \in Level, l # 0
  PROVE  \E v \in Unit :
           /\ BlockAt(v, l) = Buddy(BlockAt(u, l))
           /\ BlockAt(v, l) # BlockAt(u, l)
           /\ Buddy(BlockAt(v, l)) = BlockAt(u, l)
           /\ BlockAt(v, l - 1) = BlockAt(u, l - 1)
           /\ v = Start(Buddy(BlockAt(u, l)))
<1> DEFINE s == Size[l]
           p == u \div s
           h == p \div 2
           q == IF p % 2 = 1 THEN p - 1 ELSE p + 1
           v == q * s
<1>1. /\ l - 1 \in Level /\ Size[l - 1] = 2 * s /\ s \in Nat \ {0}
      /\ u \in Nat /\ p \in Nat /\ h \in Nat /\ q \in Nat /\ v \in Nat
  <2>1. /\ l - 1 \in Level /\ Size[l - 1] = 2 * s /\ s \in Nat \ {0}
        /\ u \in Nat /\ p \in Nat
    BY Blocks, Sizes
  <2> HIDE DEF p
  <2>2. h \in Nat /\ q \in Nat
    BY <2>1
  <2> HIDE DEF q
  <2>3. v \in Nat
    BY <2>1, <2>2
  <2>4. QED BY <2>1, <2>2, <2>3
<1>2. /\ BlockAt(u, l) = <<l, p>> /\ Buddy(BlockAt(u, l)) = <<l, q>>
      /\ Start(Buddy(BlockAt(u, l))) = v
  BY Blocks DEF Buddy, Start
<1>3. PICK m \in 1..Size[0] : Size[0] = m * (2 * s)
  BY <1>1, Sizes, BuddyAssumption
<1>4. u \div (2 * s) = h
  BY <1>1, CoarserIndex
<1>5. q \div 2 = h /\ q # p /\ q <= (2 * h) + 1 /\ p = IF q % 2 = 1 THEN q - 1 ELSE q + 1
  <2> HIDE DEF p
  <2>1. QED BY <1>1
<1>6. h + 1 <= m
  <2>1. h * (2 * s) <= u /\ u < m * (2 * s)
    <3>1. u = (h * (2 * s)) + (u % (2 * s)) /\ u % (2 * s) \in Nat
      <4>1. 2 * s \in Nat \ {0}
        BY <1>1
      <4> HIDE DEF h
      <4>2. /\ u % (2 * s) \in 0..((2 * s) - 1)
            /\ u = ((u \div (2 * s)) * (2 * s)) + (u % (2 * s))
        BY <4>1, <1>1, Division
      <4>3. QED BY <4>1, <4>2, <1>4
    <3>2. u < Size[0]
      BY Sizes DEF Unit
    <3> HIDE DEF h
    <3>3. h * (2 * s) \in Nat
      BY <1>1
    <3>4. QED BY <3>1, <3>2, <3>3, <1>1, <1>3
  <2> HIDE DEF h
  <2>2. h >= m => h * (2 * s) >= m * (2 * s)
    <3>1. \A x, y, z \in Nat : x >= y => x * z >= y * z
      OBVIOUS
    <3>2. QED BY <3>1, <1>1
  <2>3. h * (2 * s) \in Nat /\ m * (2 * s) \in Nat
    BY <1>1
  <2>4. QED BY <2>1, <2>2, <2>3, <1>1
<1>7. v \in Unit
  <2> HIDE DEF h, q
  <2>1. v <= ((2 * h) + 1) * s
    <3>1. \A x, y, z \in Nat : x <= y => x * z <= y * z
      OBVIOUS
    <3>2. QED BY <3>1, <1>1, <1>5
  <2>2. ((2 * h) + 1) * s < (h + 1) * (2 * s)
    BY <1>1
  <2>3. (h + 1) * (2 * s) <= m * (2 * s)
    <3>1. \A x, y, z \in Nat : x <= y => x * z <= y * z
      OBVIOUS
    <3>2. QED BY <3>1, <1>1, <1>6
  <2>4. ((2 * h) + 1) * s \in Nat /\ (h + 1) * (2 * s) \in Nat /\ m * (2 * s) \in Nat
    BY <1>1
  <2> HIDE DEF v
  <2>5. v < Size[0]
    BY <2>1, <2>2, <2>3, <2>4, <1>1, <1>3
  <2>6. QED BY <2>5, <1>1, Sizes DEF Unit
<1>8. v \div s = q
  <2>1. v = (q * s) + 0 /\ 0 \in 0..(s - 1)
    BY <1>1
  <2>2. QED BY <2>1, <1>1, Quotient
<1>9. BlockAt(v, l) = <<l, q>>
  BY <1>7, <1>8, Blocks
<1>10. v \div Size[l - 1] = h
  <2>1. v \div (2 * s) = (v \div s) \div 2
    <3> HIDE DEF v
    <3>1. QED BY <1>1, CoarserIndex
  <2>2. QED BY <2>1, <1>1, <1>5, <1>8
<1>11. BlockAt(v, l - 1) = BlockAt(u, l - 1)
  BY <1>1, <1>4, <1>7, <1>10, Blocks
<1>12. Buddy(BlockAt(v, l)) = BlockAt(u, l)
  BY <1>2, <1>5, <1>9 DEF Buddy
<1>13. BlockAt(v, l) # BlockAt(u, l)
  BY <1>2, <1>5, <1>9
<1>14. QED BY <1>2, <1>7, <1>9, <1>11, <1>12, <1>13

-----------------------------------------------------------------------------
(* The inductive invariant *)

Status == {"Invalid", "Split", "Free", "Used"}

\* A block is there exactly when the one around it is split, and the smallest
\* are never split.
IsTree(statuses) ==
  /\ \A u \in Unit : statuses[BlockAt(u, 0)] # "Invalid"
  /\ \A u \in Unit, l \in Level :
       l # 0 => (statuses[BlockAt(u, l)] # "Invalid" <=> statuses[BlockAt(u, l - 1)] = "Split")
  /\ \A u \in Unit : statuses[BlockAt(u, Levels - 1)] # "Split"

\* Two halves that are both free have been joined.
IsMerged(statuses) ==
  \A u \in Unit, l \in Level :
    l # 0 /\ statuses[BlockAt(u, l)] = "Free" => statuses[Buddy(BlockAt(u, l))] # "Free"

\* The addresses of the free blocks of a level.
FreeStarts(statuses, l) ==
  {u \in Unit : u % Size[l] = 0 /\ statuses[BlockAt(u, l)] = "Free"}

\* The list of a level has exactly those, once each.
IsListed(statuses, lists) ==
  \A l \in Level :
    /\ IsInjective(lists[l])
    /\ Range(lists[l]) = FreeStarts(statuses, l)

HeapInv ==
  /\ TypeOK
  /\ IsTree(block_statuses)
  /\ IsMerged(block_statuses)
  /\ IsListed(block_statuses, free_blocks)
  /\ \A b \in held : block_statuses[b] = "Used"

\* Around a block that is there every block is split.
LEMMA SplitAbove ==
  ASSUME NEW statuses \in [Block -> Status], IsTree(statuses), NEW u \in Unit,
         NEW k \in Level, NEW l \in Level, k < l, statuses[BlockAt(u, l)] # "Invalid"
  PROVE  statuses[BlockAt(u, k)] = "Split"
<1> DEFINE S == {j \in 0..(l - 1) : j >= k /\ statuses[BlockAt(u, j)] # "Split"}
<1>1. l \in Nat /\ k \in Nat /\ l - 1 \in Nat /\ S \subseteq 0..(l - 1)
  BY Sizes
<1>2. SUFFICES ASSUME S # {} PROVE FALSE
  BY <1>1
<1>3. PICK j \in S : \A i \in S : i <= j
  BY <1>1, <1>2, Greatest
<1>4. j + 1 \in Level /\ j + 1 # 0 /\ (j + 1) - 1 = j /\ j + 1 <= l
  <2>1. l \in 0..(Levels - 1) /\ Levels \in Nat /\ j \in 0..(l - 1)
    BY <1>3, Sizes DEF Level
  <2>2. QED BY <2>1 DEF Level
<1>5. statuses[BlockAt(u, j + 1)] = "Invalid"
  <2>1. statuses[BlockAt(u, j + 1)] = "Invalid" <=> statuses[BlockAt(u, (j + 1) - 1)] # "Split"
    BY <1>4 DEF IsTree
  <2>2. QED BY <2>1, <1>3, <1>4
<1>6. CASE j + 1 = l
  BY <1>5, <1>6
<1>7. CASE j + 1 # l
  <2>1. j + 1 \in 0..(l - 1) /\ j + 1 >= k /\ j + 1 \notin S
    BY <1>1, <1>3, <1>4, <1>7
  <2>2. QED BY <2>1, <1>5
<1>8. QED BY <1>6, <1>7

-----------------------------------------------------------------------------
(* Lists *)

\* push(): what a list does not have yet is put in front.
LEMMA Put ==
  ASSUME NEW list \in Seq(Unit), IsInjective(list), NEW e \in Unit, e \notin Range(list)
  PROVE  /\ <<e>> \o list \in Seq(Unit)
         /\ IsInjective(<<e>> \o list)
         /\ Range(<<e>> \o list) = Range(list) \cup {e}
<1> DEFINE longer == <<e>> \o list
<1>1. /\ longer \in Seq(Unit) /\ Len(longer) = 1 + Len(list)
      /\ longer[1] = e
      /\ \A i \in 1..Len(list) : longer[i + 1] = list[i]
  OBVIOUS
<1>2. DOMAIN longer = 1..(1 + Len(list)) /\ DOMAIN list = 1..Len(list) /\ Len(list) \in Nat
  BY <1>1
<1> HIDE DEF longer
<1>3. \A i \in DOMAIN longer : i = 1 \/ (i - 1 \in DOMAIN list /\ longer[i] = list[i - 1])
  <2>1. ASSUME NEW i \in DOMAIN longer, i # 1
        PROVE  i - 1 \in 1..Len(list) /\ (i - 1) + 1 = i
    BY <2>1, <1>2
  <2>2. QED BY <2>1, <1>1, <1>2
<1>4. \A i \in DOMAIN list : list[i] # e
  BY DEF Range
<1>5. IsInjective(longer)
  <2>1. ASSUME NEW i \in DOMAIN longer, NEW j \in DOMAIN longer, longer[i] = longer[j]
        PROVE  i = j
    <3>1. CASE i = 1
      BY <2>1, <3>1, <1>1, <1>3, <1>4
    <3>2. CASE j = 1
      BY <2>1, <3>2, <1>1, <1>3, <1>4
    <3>3. CASE i # 1 /\ j # 1
      <4>1. /\ i - 1 \in DOMAIN list /\ j - 1 \in DOMAIN list
            /\ list[i - 1] = list[j - 1]
        BY <2>1, <3>3, <1>3
      <4>2. i - 1 = j - 1
        BY <4>1 DEF IsInjective
      <4>3. QED BY <4>2, <1>2
    <3>4. QED BY <3>1, <3>2, <3>3
  <2>2. QED BY <2>1 DEF IsInjective
<1>6. Range(longer) = Range(list) \cup {e}
  <2>1. ASSUME NEW i \in DOMAIN list PROVE i + 1 \in DOMAIN longer /\ longer[i + 1] = list[i]
    BY <1>1, <1>2
  <2>2. 1 \in DOMAIN longer
    BY <1>2
  <2>3. ASSUME NEW x \in Range(longer) PROVE x \in Range(list) \cup {e}
    <3>1. PICK i \in DOMAIN longer : x = longer[i]
      BY <2>3 DEF Range
    <3>2. QED BY <3>1, <1>1, <1>3 DEF Range
  <2>4. ASSUME NEW x \in Range(list) \cup {e} PROVE x \in Range(longer)
    <3>1. x = e \/ \E i \in DOMAIN list : x = list[i]
      BY <2>4 DEF Range
    <3>2. \E i \in DOMAIN longer : x = longer[i]
      BY <3>1, <2>1, <2>2, <1>1
    <3>3. QED BY <3>2 DEF Range
  <2>5. QED BY <2>3, <2>4
<1>7. QED BY <1>1, <1>5, <1>6 DEF longer

\* A list without what is at a place of it.
IsWithout(shorter, list, i) ==
  /\ shorter \in Seq(Unit) /\ Len(shorter) = Len(list) - 1
  /\ \A j \in 1..(Len(list) - 1) : shorter[j] = IF j < i THEN list[j] ELSE list[j + 1]

\* What RemoveFirst() leaves of a list that has everything once.
LEMMA RemovedFirst ==
  ASSUME NEW list \in Seq(Unit), IsInjective(list), NEW e, NEW i \in 1..Len(list), list[i] = e
  PROVE  IsWithout(RemoveFirst(list, e), list, i)
<1>1. DOMAIN list = 1..Len(list) /\ Len(list) \in Nat
  OBVIOUS
<1>2. i \in 1..Len(list) /\ list[i] = e
  OBVIOUS
<1> DEFINE I == {j \in 1..Len(list) : list[j] = e}
<1>3. I = {i}
  BY <1>1, <1>2 DEF IsInjective
<1>4. RemoveFirst(list, e) = RemoveAt(list, i)
  <2>1. Min(I) = i
    BY <1>2, <1>3 DEF Min
  <2>2. SelectInSeq(list, LAMBDA v : v = e) = i
    BY <2>1, <1>3 DEF SelectInSeq
  <2>3. QED BY <2>2, <1>2 DEF RemoveFirst
<1> DEFINE shorter == RemoveAt(list, i)
<1>5. /\ shorter \in Seq(Unit) /\ Len(shorter) = Len(list) - 1
      /\ \A j \in 1..(Len(list) - 1) : shorter[j] = IF j < i THEN list[j] ELSE list[j + 1]
  <2> DEFINE front == SubSeq(list, 1, i - 1)
             back == SubSeq(list, i + 1, Len(list))
  <2>1. front \in Seq(Unit) /\ Len(front) = i - 1 /\ \A j \in 1..(i - 1) : front[j] = list[j]
    BY <1>1, <1>2
  <2>2. /\ back \in Seq(Unit) /\ Len(back) = Len(list) - i
        /\ \A j \in 1..(Len(list) - i) : back[j] = list[j + i]
    <3>1. /\ back \in Seq(Unit)
          /\ Len(back) = IF i + 1 <= Len(list) THEN Len(list) - (i + 1) + 1 ELSE 0
          /\ \A j \in 1..(Len(list) - (i + 1) + 1) : back[j] = list[(i + 1) + j - 1]
      BY <1>1, <1>2, SubSeqProperties
    <3> HIDE DEF back
    <3>2. \A j \in 1..(Len(list) - i) : (i + 1) + j - 1 = j + i /\ j \in 1..(Len(list) - (i + 1) + 1)
      BY <1>1, <1>2
    <3>3. Len(back) = Len(list) - i
      <4>1. \A n \in Nat : \A k \in 1..n : (IF k + 1 <= n THEN n - (k + 1) + 1 ELSE 0) = n - k
        OBVIOUS
      <4>2. QED BY <4>1, <3>1, <1>1
    <3>4. ASSUME NEW j \in 1..(Len(list) - i) PROVE back[j] = list[j + i]
      BY <3>1, <3>2
    <3>5. QED BY <3>1, <3>3, <3>4
  <2>3. shorter = front \o back
    BY DEF RemoveAt
  <2> HIDE DEF front, back, shorter
  <2>4. shorter \in Seq(Unit) /\ Len(shorter) = Len(list) - 1
    BY <2>1, <2>2, <2>3, <1>1, <1>2
  <2>5. ASSUME NEW j \in 1..(Len(list) - 1)
        PROVE  shorter[j] = IF j < i THEN list[j] ELSE list[j + 1]
    <3>1. shorter[j] = IF j <= Len(front) THEN front[j] ELSE back[j - Len(front)]
      BY <2>1, <2>2, <2>3, <1>1, <1>2
    <3>2. CASE j < i
      BY <3>1, <3>2, <2>1, <1>2
    <3>3. CASE ~(j < i)
      <4>1. j - (i - 1) \in 1..(Len(list) - i) /\ (j - (i - 1)) + i = j + 1 /\ ~(j <= i - 1)
        BY <3>3, <1>1, <1>2
      <4>2. QED BY <4>1, <3>1, <3>3, <2>1, <2>2
    <3>4. QED BY <3>2, <3>3
  <2>6. QED BY <2>4, <2>5
<1>6. QED BY <1>4, <1>5 DEF IsWithout

\* What is in a list once is gone when it is removed.
LEMMA Taken ==
  ASSUME NEW list \in Seq(Unit), IsInjective(list), NEW e, e \in Range(list)
  PROVE  /\ RemoveFirst(list, e) \in Seq(Unit)
         /\ IsInjective(RemoveFirst(list, e))
         /\ Range(RemoveFirst(list, e)) = Range(list) \ {e}
<1> DEFINE shorter == RemoveFirst(list, e)
<1>1. DOMAIN list = 1..Len(list) /\ Len(list) \in Nat
  OBVIOUS
<1>2. PICK i \in 1..Len(list) : list[i] = e
  BY <1>1 DEF Range
<1>5. /\ shorter \in Seq(Unit) /\ Len(shorter) = Len(list) - 1
      /\ \A j \in 1..(Len(list) - 1) : shorter[j] = IF j < i THEN list[j] ELSE list[j + 1]
  BY <1>2, RemovedFirst DEF IsWithout
<1> HIDE DEF shorter
<1>6. DOMAIN shorter = 1..(Len(list) - 1)
  BY <1>5, <1>1, <1>2
\* Where an element of the shorter list was, and where one of the list is.
<1>7. ASSUME NEW j \in DOMAIN shorter
      PROVE  \E k \in DOMAIN list : k # i /\ shorter[j] = list[k] /\ k = IF j < i THEN j ELSE j + 1
  BY <1>1, <1>2, <1>5, <1>6
<1>8. ASSUME NEW k \in DOMAIN list, k # i
      PROVE  \E j \in DOMAIN shorter : shorter[j] = list[k]
  <2>1. CASE k < i
    <3>1. k \in DOMAIN shorter /\ shorter[k] = list[k]
      BY <2>1, <1>1, <1>2, <1>5, <1>6
    <3>2. QED BY <3>1
  <2>2. CASE ~(k < i)
    <3>1. k - 1 \in 1..(Len(list) - 1) /\ ~(k - 1 < i) /\ (k - 1) + 1 = k
      BY <2>2, <1>8, <1>1, <1>2
    <3>2. k - 1 \in DOMAIN shorter /\ shorter[k - 1] = list[k]
      BY <3>1, <1>5, <1>6
    <3>3. QED BY <3>2
  <2>3. QED BY <2>1, <2>2
<1>9. IsInjective(shorter)
  <2>1. ASSUME NEW j \in DOMAIN shorter, NEW k \in DOMAIN shorter, shorter[j] = shorter[k]
        PROVE  j = k
    <3>1. PICK x \in DOMAIN list : shorter[j] = list[x] /\ x = IF j < i THEN j ELSE j + 1
      BY <1>7
    <3>2. PICK y \in DOMAIN list : shorter[k] = list[y] /\ y = IF k < i THEN k ELSE k + 1
      BY <1>7
    <3>3. x = y
      BY <2>1, <3>1, <3>2 DEF IsInjective
    <3>4. QED BY <3>1, <3>2, <3>3, <1>1, <1>2, <1>6
  <2>2. QED BY <2>1 DEF IsInjective
<1>10. Range(shorter) = Range(list) \ {e}
  <2>1. \A k \in DOMAIN list : k # i => list[k] # e
    BY <1>1, <1>2 DEF IsInjective
  <2>2. QED BY <2>1, <1>1, <1>2, <1>7, <1>8 DEF Range
<1>11. QED BY <1>5, <1>9, <1>10 DEF shorter

-----------------------------------------------------------------------------
(* split() and reserve_block(): a free block is carved *)

\* The block of origin at level from is free, and a deeper one of origin is to
\* be used.
CanCarve(statuses, origin, from, target) ==
  /\ origin \in Unit /\ from \in Level /\ target \in Level /\ from <= target
  /\ statuses \in [Block -> Status] /\ IsTree(statuses)
  /\ statuses[BlockAt(origin, from)] = "Free"

\* What becomes of the block of a unit at a level.
LEMMA Carved ==
  ASSUME NEW statuses, NEW origin, NEW from, NEW target,
         CanCarve(statuses, origin, from, target), NEW u \in Unit, NEW l \in Level
  PROVE  CarvedStatuses(statuses, origin, from, target)[BlockAt(u, l)] =
           IF l = target /\ BlockAt(u, l) = BlockAt(origin, l) THEN "Used"
           ELSE IF l \in from..target /\ BlockAt(u, l) = BlockAt(origin, l) THEN "Split"
           ELSE IF l \in (from + 1)..target /\ BlockAt(u, l) = Buddy(BlockAt(origin, l)) THEN "Free"
           ELSE statuses[BlockAt(u, l)]
<1>1. BlockAt(u, l) \in Block /\ BlockAt(u, l)[1] = l
  BY Blocks
<1>2. BlockAt(origin, target)[1] = target
  BY Blocks DEF CanCarve
<1>3. QED BY <1>1, <1>2 DEF CarvedStatuses

\* Where the carved block is not, nothing changes.
LEMMA CarvedElsewhere ==
  ASSUME NEW statuses, NEW origin, NEW from, NEW target,
         CanCarve(statuses, origin, from, target), NEW u \in Unit, NEW l \in Level,
         l < from \/ BlockAt(u, from) # BlockAt(origin, from)
  PROVE  CarvedStatuses(statuses, origin, from, target)[BlockAt(u, l)] = statuses[BlockAt(u, l)]
<1>1. from \in Nat /\ target \in Nat /\ l \in Nat
  BY Sizes DEF CanCarve
<1>2. CASE l < from
  BY <1>1, <1>2, Carved DEF CanCarve
<1>3. CASE l >= from /\ BlockAt(u, from) # BlockAt(origin, from)
  <2>1. BlockAt(u, l) # BlockAt(origin, l)
    BY <1>3, SharedAbove DEF CanCarve
  <2>2. l > from => BlockAt(u, l) # Buddy(BlockAt(origin, l))
    <3>1. SUFFICES ASSUME l > from, BlockAt(u, l) = Buddy(BlockAt(origin, l)) PROVE FALSE
      OBVIOUS
    <3>2. l # 0 /\ l - 1 \in Level /\ from <= l - 1
      BY <3>1, <1>1, Sizes
    <3>3. PICK v \in Unit : BlockAt(v, l) = BlockAt(u, l) /\ BlockAt(v, l - 1) = BlockAt(origin, l - 1)
      BY <3>1, <3>2, Buddies DEF CanCarve
    <3>4. BlockAt(u, l - 1) = BlockAt(origin, l - 1)
      BY <3>2, <3>3, <1>1, SharedAbove
    <3>5. QED BY <3>2, <3>4, <1>3, SharedAbove DEF CanCarve
  <2>3. l \in (from + 1)..target => l > from
    BY <1>1
  <2>4. QED BY <2>1, <2>2, <2>3, Carved
<1>4. QED BY <1>1, <1>2, <1>3

\* Nothing was there below the block that is carved.
LEMMA CarvedBelow ==
  ASSUME NEW statuses, NEW origin, NEW from, NEW target,
         CanCarve(statuses, origin, from, target), NEW u \in Unit, NEW l \in Level,
         l > from, BlockAt(u, from) = BlockAt(origin, from)
  PROVE  statuses[BlockAt(u, l)] = "Invalid"
BY SplitAbove DEF CanCarve

\* What is carved is a tree again.
LEMMA CarveKeepsTree ==
  ASSUME NEW statuses, NEW origin, NEW from, NEW target,
         CanCarve(statuses, origin, from, target)
  PROVE  IsTree(CarvedStatuses(statuses, origin, from, target))
<1> DEFINE new == CarvedStatuses(statuses, origin, from, target)
<1> HIDE DEF new
<1>1. /\ origin \in Unit /\ from \in Level /\ target \in Level /\ from <= target
      /\ from \in Nat /\ target \in Nat /\ Levels \in Nat \ {0} /\ Level = 0..(Levels - 1)
  BY Sizes DEF CanCarve, Level
<1>2. \A u \in Unit, l \in Level :
        l < from \/ BlockAt(u, from) # BlockAt(origin, from) =>
          new[BlockAt(u, l)] = statuses[BlockAt(u, l)]
  BY CarvedElsewhere DEF new
<1>3. \A u \in Unit, l \in Level :
        new[BlockAt(u, l)] =
          IF l = target /\ BlockAt(u, l) = BlockAt(origin, l) THEN "Used"
          ELSE IF l \in from..target /\ BlockAt(u, l) = BlockAt(origin, l) THEN "Split"
          ELSE IF l \in (from + 1)..target /\ BlockAt(u, l) = Buddy(BlockAt(origin, l)) THEN "Free"
          ELSE statuses[BlockAt(u, l)]
  BY Carved DEF new
<1>4. IsTree(statuses) /\ statuses[BlockAt(origin, from)] = "Free"
  BY DEF CanCarve
<1>5. ASSUME NEW u \in Unit PROVE new[BlockAt(u, 0)] # "Invalid"
  BY <1>1, <1>3, <1>4 DEF IsTree
<1>6. ASSUME NEW u \in Unit PROVE new[BlockAt(u, Levels - 1)] # "Split"
  <2>1. Levels - 1 \in Level /\ (Levels - 1 \in from..target => Levels - 1 = target)
    BY <1>1
  <2>2. QED BY <2>1, <1>3, <1>4 DEF IsTree
<1>7. ASSUME NEW u \in Unit, NEW l \in Level, l # 0
      PROVE  new[BlockAt(u, l)] # "Invalid" <=> new[BlockAt(u, l - 1)] = "Split"
  <2>1. l - 1 \in Level /\ l \in Nat /\ l - 1 \in Nat /\ l - 1 < l
    BY <1>7, Sizes
  <2>2. statuses[BlockAt(u, l)] # "Invalid" <=> statuses[BlockAt(u, l - 1)] = "Split"
    BY <1>4, <1>7 DEF IsTree
  <2>3. CASE l < from \/ BlockAt(u, from) # BlockAt(origin, from)
    BY <2>1, <2>2, <2>3, <1>1, <1>2
  <2>4. CASE l = from /\ BlockAt(u, from) = BlockAt(origin, from)
    <3>1. new[BlockAt(u, l - 1)] = statuses[BlockAt(u, l - 1)]
      BY <2>1, <2>4, <1>1, <1>2
    <3>2. new[BlockAt(u, l)] \in {"Used", "Split"}
      BY <2>4, <1>1, <1>3
    <3>3. statuses[BlockAt(u, l)] = "Free"
      BY <2>4, <1>4
    <3>4. QED BY <3>1, <3>2, <3>3, <2>2
  <2>5. CASE l > from /\ BlockAt(u, from) = BlockAt(origin, from)
    <3>1. statuses[BlockAt(u, l)] = "Invalid"
      BY <2>5, CarvedBelow
    <3>2. l - 1 > from => statuses[BlockAt(u, l - 1)] = "Invalid"
      BY <2>1, <2>5, CarvedBelow
    <3>3. CASE l <= target /\ BlockAt(u, l - 1) = BlockAt(origin, l - 1)
      <4>1. new[BlockAt(u, l - 1)] = "Split"
        BY <3>3, <2>1, <2>5, <1>1, <1>3
      <4>2. BlockAt(u, l) = BlockAt(origin, l) \/ BlockAt(u, l) = Buddy(BlockAt(origin, l))
        BY <3>3, <1>1, <1>7, Halves
      <4>3. new[BlockAt(u, l)] \in {"Used", "Split", "Free"}
        BY <4>2, <3>3, <2>1, <2>5, <1>1, <1>3
      <4>4. QED BY <4>1, <4>3
    <3>4. CASE ~(l <= target /\ BlockAt(u, l - 1) = BlockAt(origin, l - 1))
      <4>1. l <= target =>
              BlockAt(u, l) # BlockAt(origin, l) /\ BlockAt(u, l) # Buddy(BlockAt(origin, l))
        <5>1. SUFFICES ASSUME BlockAt(u, l - 1) # BlockAt(origin, l - 1)
                       PROVE  BlockAt(u, l) # BlockAt(origin, l) /\ BlockAt(u, l) # Buddy(BlockAt(origin, l))
          BY <3>4
        <5>2. BlockAt(u, l) # BlockAt(origin, l)
          BY <5>1, <2>1, <1>1, SharedAbove
        <5>3. PICK v \in Unit : BlockAt(v, l) = Buddy(BlockAt(origin, l)) /\ BlockAt(v, l - 1) = BlockAt(origin, l - 1)
          BY <1>1, <1>7, Buddies
        <5>4. BlockAt(u, l) # BlockAt(v, l)
          BY <5>1, <5>3, <2>1, SharedAbove
        <5>5. QED BY <5>2, <5>3, <5>4
      <4>2. new[BlockAt(u, l)] = "Invalid"
        BY <4>1, <3>1, <2>1, <2>5, <1>1, <1>3
      <4>3. l - 1 = from => new[BlockAt(u, l - 1)] # "Split"
        BY <3>4, <2>1, <2>5, <1>1, <1>3
      <4>4. l - 1 > from => new[BlockAt(u, l - 1)] # "Split"
        BY <3>2, <3>4, <2>1, <2>5, <1>1, <1>3
      <4>5. QED BY <4>2, <4>3, <4>4, <2>1, <2>5, <1>1
    <3>5. QED BY <3>3, <3>4
  <2>6. QED BY <2>1, <2>3, <2>4, <2>5, <1>1
<1>8. IsTree(new)
  BY <1>5, <1>6, <1>7 DEF IsTree
<1>9. QED BY <1>8 DEF new

\* split() frees a half only when the other half is carved on.
LEMMA CarveKeepsMerged ==
  ASSUME NEW statuses, NEW origin, NEW from, NEW target,
         CanCarve(statuses, origin, from, target), IsMerged(statuses)
  PROVE  IsMerged(CarvedStatuses(statuses, origin, from, target))
<1> DEFINE new == CarvedStatuses(statuses, origin, from, target)
<1>1. SUFFICES ASSUME NEW u \in Unit, NEW l \in Level, l # 0,
                      new[BlockAt(u, l)] = "Free", new[Buddy(BlockAt(u, l))] = "Free"
               PROVE  FALSE
  BY DEF IsMerged
<1>2. PICK v \in Unit : BlockAt(v, l) = Buddy(BlockAt(u, l)) /\ Buddy(BlockAt(v, l)) = BlockAt(u, l)
  BY <1>1, Buddies
<1>3. /\ new[BlockAt(u, l)] =
           IF l = target /\ BlockAt(u, l) = BlockAt(origin, l) THEN "Used"
           ELSE IF l \in from..target /\ BlockAt(u, l) = BlockAt(origin, l) THEN "Split"
           ELSE IF l \in (from + 1)..target /\ BlockAt(u, l) = Buddy(BlockAt(origin, l)) THEN "Free"
           ELSE statuses[BlockAt(u, l)]
      /\ new[BlockAt(v, l)] =
           IF l = target /\ BlockAt(v, l) = BlockAt(origin, l) THEN "Used"
           ELSE IF l \in from..target /\ BlockAt(v, l) = BlockAt(origin, l) THEN "Split"
           ELSE IF l \in (from + 1)..target /\ BlockAt(v, l) = Buddy(BlockAt(origin, l)) THEN "Free"
           ELSE statuses[BlockAt(v, l)]
  BY Carved
<1> HIDE DEF new
<1>4. l \in (from + 1)..target => l \in from..target
  BY Sizes DEF CanCarve
\* The half of a block that is carved has a buddy that is used or split.
<1>5. ASSUME l \in (from + 1)..target, BlockAt(u, l) = Buddy(BlockAt(origin, l))
      PROVE  FALSE
  <2>1. PICK w \in Unit : BlockAt(w, l) = Buddy(BlockAt(origin, l)) /\ Buddy(BlockAt(w, l)) = BlockAt(origin, l)
    BY <1>1, Buddies DEF CanCarve
  <2>2. BlockAt(v, l) = BlockAt(origin, l)
    BY <2>1, <1>2, <1>5
  <2>3. QED BY <2>2, <1>1, <1>2, <1>3, <1>4, <1>5
<1>6. ASSUME l \in (from + 1)..target, BlockAt(v, l) = Buddy(BlockAt(origin, l))
      PROVE  FALSE
  <2>1. PICK w \in Unit : BlockAt(w, l) = Buddy(BlockAt(origin, l)) /\ Buddy(BlockAt(w, l)) = BlockAt(origin, l)
    BY <1>1, Buddies DEF CanCarve
  <2>2. BlockAt(u, l) = BlockAt(origin, l)
    BY <2>1, <1>2, <1>6
  <2>3. QED BY <2>2, <1>1, <1>2, <1>3, <1>4, <1>6
<1>7. statuses[BlockAt(u, l)] = "Free" /\ statuses[Buddy(BlockAt(u, l))] = "Free"
  BY <1>1, <1>2, <1>3, <1>5, <1>6
<1>8. QED BY <1>1, <1>7 DEF IsMerged

\* Different free blocks of a level start at different addresses.
LEMMA StartsDiffer ==
  ASSUME NEW u \in Unit, NEW v \in Unit, NEW l \in Level, u % Size[l] = 0
  PROVE  BlockAt(u, l) = BlockAt(v, l) <=> u = Start(BlockAt(v, l))
BY Starts

\* split() and reserve_block() take from the lists what they use.
LEMMA CarveKeepsLists ==
  ASSUME NEW statuses, NEW lists, NEW origin, NEW from, NEW target,
         CanCarve(statuses, origin, from, target),
         lists \in [Level -> Seq(Unit)], IsListed(statuses, lists)
  PROVE  /\ CarvedLists(lists, origin, from, target) \in [Level -> Seq(Unit)]
         /\ IsListed(CarvedStatuses(statuses, origin, from, target),
                     CarvedLists(lists, origin, from, target))
<1> DEFINE new == CarvedStatuses(statuses, origin, from, target)
           list(l) == CarvedLists(lists, origin, from, target)[l]
<1>1. /\ origin \in Unit /\ from \in Level /\ target \in Level /\ from <= target
      /\ from \in Nat /\ target \in Nat /\ Level \subseteq Nat
  BY Sizes DEF CanCarve
<1>2. \A l \in Level :
        list(l) = IF l = from THEN RemoveFirst(lists[l], Start(BlockAt(origin, l)))
                  ELSE IF l \in (from + 1)..target THEN <<Start(Buddy(BlockAt(origin, l)))>> \o lists[l]
                  ELSE lists[l]
  BY DEF CarvedLists
<1>3. ASSUME NEW l \in Level
      PROVE  list(l) \in Seq(Unit) /\ IsInjective(list(l)) /\ Range(list(l)) = FreeStarts(new, l)
  <2>1. lists[l] \in Seq(Unit) /\ IsInjective(lists[l]) /\ Range(lists[l]) = FreeStarts(statuses, l)
    BY DEF IsListed
  <2>2. \A u \in Unit :
          new[BlockAt(u, l)] =
            IF l = target /\ BlockAt(u, l) = BlockAt(origin, l) THEN "Used"
            ELSE IF l \in from..target /\ BlockAt(u, l) = BlockAt(origin, l) THEN "Split"
            ELSE IF l \in (from + 1)..target /\ BlockAt(u, l) = Buddy(BlockAt(origin, l)) THEN "Free"
            ELSE statuses[BlockAt(u, l)]
    BY Carved
  <2> HIDE DEF new
  <2>3. CASE l = from
    <3> DEFINE e == Start(BlockAt(origin, l))
    <3>1. e \in Unit /\ e % Size[l] = 0 /\ BlockAt(e, l) = BlockAt(origin, l)
      BY <1>1, Starts
    <3>2. e \in Range(lists[l])
      BY <3>1, <2>1, <2>3 DEF FreeStarts, CanCarve
    <3>3. \A u \in Unit : u % Size[l] = 0 => (BlockAt(u, l) = BlockAt(origin, l) <=> u = e)
      BY <1>1, StartsDiffer
    <3> HIDE DEF e
    <3>4. \A u \in Unit :
            new[BlockAt(u, l)] = "Free" <=>
              BlockAt(u, l) # BlockAt(origin, l) /\ statuses[BlockAt(u, l)] = "Free"
      BY <2>2, <2>3, <1>1
    <3>5. FreeStarts(new, l) = FreeStarts(statuses, l) \ {e}
      BY <3>3, <3>4 DEF FreeStarts
    <3>6. list(l) = RemoveFirst(lists[l], e)
      BY <1>2, <2>3 DEF e
    <3> HIDE DEF list
    <3>7. QED BY <3>2, <3>5, <3>6, <2>1, Taken
  <2>4. CASE l \in (from + 1)..target
    <3>1. l # 0 /\ l # from /\ l > from
      BY <2>4, <1>1
    <3>2. PICK e \in Unit :
            /\ BlockAt(e, l) = Buddy(BlockAt(origin, l))
            /\ BlockAt(e, l) # BlockAt(origin, l)
            /\ BlockAt(e, l - 1) = BlockAt(origin, l - 1)
            /\ e = Start(Buddy(BlockAt(origin, l)))
      BY <3>1, <1>1, Buddies
    <3>3. e % Size[l] = 0
      BY <3>2, Starts
    <3>4. \A u \in Unit : u % Size[l] = 0 => (BlockAt(u, l) = BlockAt(e, l) <=> u = e)
      BY <3>2, <3>3, Starts
    <3>5. statuses[BlockAt(e, l)] = "Invalid" /\ statuses[BlockAt(origin, l)] = "Invalid"
      <4>1. l - 1 \in Level /\ from <= l - 1
        BY <3>1, <1>1, Sizes
      <4>2. BlockAt(e, from) = BlockAt(origin, from)
        BY <4>1, <3>2, <1>1, SharedAbove
      <4>3. QED BY <4>2, <3>1, <1>1, CarvedBelow
    <3>6. e \notin Range(lists[l])
      BY <3>5, <2>1 DEF FreeStarts
    <3>7. \A u \in Unit :
            new[BlockAt(u, l)] = "Free" <=>
              BlockAt(u, l) = BlockAt(e, l) \/ statuses[BlockAt(u, l)] = "Free"
      BY <2>2, <2>4, <3>2, <3>5
    <3>8. FreeStarts(new, l) = FreeStarts(statuses, l) \cup {e}
      BY <3>3, <3>4, <3>7 DEF FreeStarts
    <3>9. list(l) = <<e>> \o lists[l]
      BY <3>1, <3>2, <1>2, <2>4
    <3> HIDE DEF list
    <3>10. QED BY <3>6, <3>8, <3>9, <2>1, Put
  <2>5. CASE l # from /\ l \notin (from + 1)..target
    <3>1. l \notin from..target /\ l # target
      BY <2>5, <1>1
    <3>2. \A u \in Unit : new[BlockAt(u, l)] = statuses[BlockAt(u, l)]
      BY <3>1, <2>2, <2>5
    <3>3. FreeStarts(new, l) = FreeStarts(statuses, l)
      BY <3>2 DEF FreeStarts
    <3>4. list(l) = lists[l]
      BY <1>2, <2>5
    <3>5. QED BY <3>3, <3>4, <2>1
  <2>6. QED BY <2>3, <2>4, <2>5
<1>4. CarvedLists(lists, origin, from, target) \in [Level -> Seq(Unit)]
  <2>1. CarvedLists(lists, origin, from, target) = [l \in Level |-> list(l)]
    BY DEF CarvedLists
  <2> HIDE DEF list
  <2>2. QED BY <2>1, <1>3
<1>5. QED BY <1>3, <1>4 DEF IsListed

\* What was used still is, and so is the block that was carved.
LEMMA CarveUses ==
  ASSUME NEW statuses, NEW origin, NEW from, NEW target,
         CanCarve(statuses, origin, from, target)
  PROVE  /\ CarvedStatuses(statuses, origin, from, target) \in [Block -> Status]
         /\ BlockAt(origin, target) \in Block
         /\ CarvedStatuses(statuses, origin, from, target)[BlockAt(origin, target)] = "Used"
         /\ \A b \in Block : statuses[b] = "Used" =>
              CarvedStatuses(statuses, origin, from, target)[b] = "Used"
<1> DEFINE new == CarvedStatuses(statuses, origin, from, target)
<1>1. new \in [Block -> Status]
  BY DEF CarvedStatuses, CanCarve, Status
<1>2. BlockAt(origin, target) \in Block /\ new[BlockAt(origin, target)] = "Used"
  BY Blocks DEF CarvedStatuses, CanCarve
<1>3. ASSUME NEW b \in Block, statuses[b] = "Used" PROVE new[b] = "Used"
  <2>1. PICK u \in Unit, l \in Level : b = BlockAt(u, l)
    BY DEF Block
  <2>2. CASE l < from \/ BlockAt(u, from) # BlockAt(origin, from)
    BY <2>1, <2>2, <1>3, CarvedElsewhere
  <2>3. CASE l = from /\ BlockAt(u, from) = BlockAt(origin, from)
    BY <2>1, <2>3, <1>3 DEF CanCarve
  <2>4. CASE l > from /\ BlockAt(u, from) = BlockAt(origin, from)
    BY <2>1, <2>4, <1>3, CarvedBelow
  <2>5. l \in Nat /\ from \in Nat
    BY Sizes DEF CanCarve
  <2>6. QED BY <2>2, <2>3, <2>4, <2>5
<1>4. QED BY <1>1, <1>2, <1>3

-----------------------------------------------------------------------------
(* free() and merge(): a used block is joined with the free halves around it *)

\* The block of u at a level is used; its buddies are free up to below level top.
CanMerge(statuses, u, level, top) ==
  /\ u \in Unit /\ level \in Level /\ top \in Level /\ top <= level
  /\ statuses \in [Block -> Status] /\ IsTree(statuses) /\ IsMerged(statuses)
  /\ statuses[BlockAt(u, level)] = "Used"
  /\ \A l \in (top + 1)..level : statuses[Buddy(BlockAt(u, l))] = "Free"

\* What becomes of the block of a unit at a level.
LEMMA Merged ==
  ASSUME NEW statuses, NEW freed, NEW level, NEW top, CanMerge(statuses, freed, level, top),
         NEW u \in Unit, NEW l \in Level
  PROVE  MergedStatuses(statuses, freed, level, top)[BlockAt(u, l)] =
           IF l = top /\ BlockAt(u, l) = BlockAt(freed, l) THEN "Free"
           ELSE IF /\ l \in (top + 1)..level
                   /\ BlockAt(u, l) = BlockAt(freed, l) \/ BlockAt(u, l) = Buddy(BlockAt(freed, l))
           THEN "Invalid"
           ELSE statuses[BlockAt(u, l)]
<1>1. BlockAt(u, l) \in Block /\ BlockAt(u, l)[1] = l
  BY Blocks
<1>2. BlockAt(freed, top)[1] = top
  BY Blocks DEF CanMerge
<1>3. QED BY <1>1, <1>2 DEF MergedStatuses

\* Where the block that is joined is not, nothing changes.
LEMMA MergedElsewhere ==
  ASSUME NEW statuses, NEW freed, NEW level, NEW top, CanMerge(statuses, freed, level, top),
         NEW u \in Unit, NEW l \in Level,
         l < top \/ BlockAt(u, top) # BlockAt(freed, top)
  PROVE  MergedStatuses(statuses, freed, level, top)[BlockAt(u, l)] = statuses[BlockAt(u, l)]
<1>1. top \in Nat /\ level \in Nat /\ l \in Nat /\ freed \in Unit /\ top \in Level
  BY Sizes DEF CanMerge
<1>2. CASE l < top
  BY <1>1, <1>2, Merged
<1>3. CASE l >= top /\ BlockAt(u, top) # BlockAt(freed, top)
  <2>1. BlockAt(u, l) # BlockAt(freed, l)
    BY <1>1, <1>3, SharedAbove
  <2>2. l > top => BlockAt(u, l) # Buddy(BlockAt(freed, l))
    <3>1. SUFFICES ASSUME l > top, BlockAt(u, l) = Buddy(BlockAt(freed, l)) PROVE FALSE
      OBVIOUS
    <3>2. l # 0 /\ l - 1 \in Level /\ top <= l - 1
      BY <3>1, <1>1, Sizes
    <3>3. PICK v \in Unit : BlockAt(v, l) = BlockAt(u, l) /\ BlockAt(v, l - 1) = BlockAt(freed, l - 1)
      BY <3>1, <3>2, <1>1, Buddies
    <3>4. BlockAt(u, l - 1) = BlockAt(freed, l - 1)
      BY <3>2, <3>3, <1>1, SharedAbove
    <3>5. QED BY <3>2, <3>4, <1>1, <1>3, SharedAbove
  <2>3. l \in (top + 1)..level => l > top
    BY <1>1
  <2>4. QED BY <2>1, <2>2, <2>3, Merged
<1>4. QED BY <1>1, <1>2, <1>3

\* The freed block is split all the way down to where it is used.
LEMMA FreedPath ==
  ASSUME NEW statuses, NEW freed, NEW level, NEW top, CanMerge(statuses, freed, level, top),
         NEW l \in Level
  PROVE  statuses[BlockAt(freed, l)] =
           IF l < level THEN "Split" ELSE IF l = level THEN "Used" ELSE "Invalid"
<1>1. l \in Nat /\ level \in Nat
  BY Sizes DEF CanMerge
<1>2. l < level => statuses[BlockAt(freed, l)] = "Split"
  BY SplitAbove DEF CanMerge
<1>3. level < l => statuses[BlockAt(freed, l)] = "Invalid"
  BY SplitAbove DEF CanMerge
<1>4. QED BY <1>1, <1>2, <1>3 DEF CanMerge

\* In the block that is joined, there is nothing but the halves of it that hold
\* the freed one, and their buddies.
LEMMA MergedHalves ==
  ASSUME NEW statuses, NEW freed, NEW level, NEW top, CanMerge(statuses, freed, level, top),
         NEW u \in Unit, NEW l \in Level, l > top, BlockAt(u, top) = BlockAt(freed, top),
         statuses[BlockAt(u, l)] # "Invalid"
  PROVE  /\ l \in (top + 1)..level
         /\ BlockAt(u, l) = BlockAt(freed, l) \/ BlockAt(u, l) = Buddy(BlockAt(freed, l))
<1>1. /\ top \in Nat /\ level \in Nat /\ l \in Nat /\ freed \in Unit /\ top \in Level
      /\ level \in Level /\ IsTree(statuses) /\ statuses \in [Block -> Status]
      /\ l \in 0..(Levels - 1) /\ Levels \in Nat
  BY Sizes DEF CanMerge, Level
\* The deepest block that the two share.
<1> DEFINE S == {j \in 0..l : BlockAt(u, j) = BlockAt(freed, j)}
<1>2. top \in S /\ S \subseteq 0..l
  BY <1>1
<1>3. PICK j \in S : \A i \in S : i <= j
  BY <1>1, <1>2, Greatest
<1>4. j \in Level /\ j \in Nat /\ j >= top /\ j <= l /\ BlockAt(u, j) = BlockAt(freed, j)
  BY <1>1, <1>2, <1>3 DEF Level
<1>5. CASE j = l
  <2>1. l <= level
    BY <1>1, <1>4, <1>5, FreedPath
  <2>2. QED BY <2>1, <1>1, <1>4, <1>5
<1>6. CASE j # l
  <2>1. statuses[BlockAt(u, j)] = "Split"
    BY <1>1, <1>4, <1>6, SplitAbove
  <2>2. j < level
    BY <2>1, <1>1, <1>4, FreedPath
  <2>3. /\ j + 1 \in Level /\ j + 1 # 0 /\ (j + 1) - 1 = j /\ j + 1 <= l
        /\ j + 1 \in (top + 1)..level /\ j + 1 \in 0..l
    BY <2>2, <1>1, <1>4, <1>6 DEF Level
  <2>4. BlockAt(u, j + 1) # BlockAt(freed, j + 1)
    <3>1. j + 1 \notin S
      BY <1>3, <1>4
    <3>2. QED BY <3>1, <2>3
  <2>5. BlockAt(u, j + 1) = Buddy(BlockAt(freed, j + 1))
    BY <2>3, <2>4, <1>1, <1>4, Halves
  <2>6. statuses[BlockAt(u, j + 1)] = "Free"
    BY <2>3, <2>5 DEF CanMerge
  <2>7. j + 1 = l
    BY <2>3, <2>6, <1>1, <1>4, SplitAbove
  <2>8. QED BY <2>3, <2>5, <2>7
<1>7. QED BY <1>5, <1>6

\* merge() leaves one block where it found two halves.
LEMMA MergeKeepsTree ==
  ASSUME NEW statuses, NEW freed, NEW level, NEW top, CanMerge(statuses, freed, level, top)
  PROVE  IsTree(MergedStatuses(statuses, freed, level, top))
<1> DEFINE new == MergedStatuses(statuses, freed, level, top)
<1>1. /\ freed \in Unit /\ level \in Level /\ top \in Level /\ top <= level
      /\ top \in Nat /\ level \in Nat /\ Levels \in Nat \ {0} /\ Level = 0..(Levels - 1)
      /\ IsTree(statuses)
  BY Sizes DEF CanMerge, Level
<1>2. \A u \in Unit, l \in Level :
        l < top \/ BlockAt(u, top) # BlockAt(freed, top) =>
          new[BlockAt(u, l)] = statuses[BlockAt(u, l)]
  BY MergedElsewhere
\* The block that is joined is free, and nothing is in it.
<1>3. ASSUME NEW u \in Unit, BlockAt(u, top) = BlockAt(freed, top)
      PROVE  new[BlockAt(u, top)] = "Free"
  BY <1>1, <1>3, Merged
<1>4. ASSUME NEW u \in Unit, NEW l \in Level, l > top, BlockAt(u, top) = BlockAt(freed, top)
      PROVE  new[BlockAt(u, l)] = "Invalid"
  <2>1. l # top
    BY <1>1, <1>4
  <2>2. QED BY <2>1, <1>4, Merged, MergedHalves
<1> HIDE DEF new
<1>5. ASSUME NEW u \in Unit PROVE new[BlockAt(u, 0)] # "Invalid"
  <2>1. 0 \in Level /\ (top = 0 \/ 0 < top)
    BY <1>1
  <2>2. QED BY <2>1, <1>1, <1>2, <1>3 DEF IsTree
<1>6. ASSUME NEW u \in Unit PROVE new[BlockAt(u, Levels - 1)] # "Split"
  <2>1. Levels - 1 \in Level /\ (top = Levels - 1 \/ Levels - 1 > top)
    BY <1>1
  <2>2. QED BY <2>1, <1>1, <1>2, <1>3, <1>4 DEF IsTree
<1>7. ASSUME NEW u \in Unit, NEW l \in Level, l # 0
      PROVE  new[BlockAt(u, l)] # "Invalid" <=> new[BlockAt(u, l - 1)] = "Split"
  <2>1. l - 1 \in Level /\ l \in Nat /\ l - 1 \in Nat /\ l - 1 < l
    BY <1>7, Sizes
  <2>2. statuses[BlockAt(u, l)] # "Invalid" <=> statuses[BlockAt(u, l - 1)] = "Split"
    BY <1>1, <1>7 DEF IsTree
  <2>3. CASE l < top \/ BlockAt(u, top) # BlockAt(freed, top)
    BY <2>1, <2>2, <2>3, <1>1, <1>2
  <2>4. CASE l = top /\ BlockAt(u, top) = BlockAt(freed, top)
    <3>1. new[BlockAt(u, l - 1)] = statuses[BlockAt(u, l - 1)]
      BY <2>1, <2>4, <1>1, <1>2
    <3>2. statuses[BlockAt(u, l)] # "Invalid"
      BY <2>4, <1>1, FreedPath
    <3>3. QED BY <3>1, <3>2, <2>2, <2>4, <1>3
  <2>5. CASE l > top /\ BlockAt(u, top) = BlockAt(freed, top)
    <3>1. new[BlockAt(u, l)] = "Invalid"
      BY <2>5, <1>4
    <3>2. new[BlockAt(u, l - 1)] # "Split"
      BY <2>1, <2>5, <1>1, <1>3, <1>4
    <3>3. QED BY <3>1, <3>2
  <2>6. QED BY <2>1, <2>3, <2>4, <2>5, <1>1
<1>8. IsTree(new)
  BY <1>5, <1>6, <1>7 DEF IsTree
<1>9. QED BY <1>8 DEF new

\* free() goes on until the buddy is not free.
LEMMA MergeKeepsMerged ==
  ASSUME NEW statuses, NEW freed, NEW level, NEW top, CanMerge(statuses, freed, level, top),
         top # 0 => statuses[Buddy(BlockAt(freed, top))] # "Free"
  PROVE  IsMerged(MergedStatuses(statuses, freed, level, top))
<1> DEFINE new == MergedStatuses(statuses, freed, level, top)
<1>1. SUFFICES ASSUME NEW u \in Unit, NEW l \in Level, l # 0,
                      new[BlockAt(u, l)] = "Free", new[Buddy(BlockAt(u, l))] = "Free"
               PROVE  FALSE
  BY DEF IsMerged
<1>2. PICK v \in Unit :
        /\ BlockAt(v, l) = Buddy(BlockAt(u, l)) /\ Buddy(BlockAt(v, l)) = BlockAt(u, l)
        /\ BlockAt(v, l) # BlockAt(u, l)
  BY <1>1, Buddies
<1>3. \A w \in Unit :
        new[BlockAt(w, l)] = "Free" =>
          \/ l = top /\ BlockAt(w, l) = BlockAt(freed, l)
          \/ statuses[BlockAt(w, l)] = "Free"
  BY Merged
<1> HIDE DEF new
<1>4. ASSUME l = top, BlockAt(u, l) = BlockAt(freed, l) PROVE FALSE
  BY <1>1, <1>2, <1>3, <1>4 DEF CanMerge
<1>5. ASSUME l = top, BlockAt(v, l) = BlockAt(freed, l) PROVE FALSE
  BY <1>1, <1>2, <1>3, <1>5 DEF CanMerge
<1>6. statuses[BlockAt(u, l)] = "Free" /\ statuses[Buddy(BlockAt(u, l))] = "Free"
  BY <1>1, <1>2, <1>3, <1>4, <1>5
<1>7. QED BY <1>1, <1>6 DEF IsMerged, CanMerge

\* free() and merge() keep the lists: the halves leave, the block comes.
LEMMA MergeKeepsLists ==
  ASSUME NEW statuses, NEW lists, NEW freed, NEW level, NEW top,
         CanMerge(statuses, freed, level, top), freed = Start(BlockAt(freed, level)),
         lists \in [Level -> Seq(Unit)], IsListed(statuses, lists)
  PROVE  /\ MergedLists(lists, freed, level, top) \in [Level -> Seq(Unit)]
         /\ IsListed(MergedStatuses(statuses, freed, level, top),
                     MergedLists(lists, freed, level, top))
<1> DEFINE new == MergedStatuses(statuses, freed, level, top)
           list(l) == MergedLists(lists, freed, level, top)[l]
<1>1. /\ freed \in Unit /\ level \in Level /\ top \in Level /\ top <= level
      /\ top \in Nat /\ level \in Nat /\ Level \subseteq Nat
  BY Sizes DEF CanMerge
<1>2. \A l \in Level :
        list(l) = IF l = top THEN <<Start(BlockAt(freed, l))>> \o lists[l]
                  ELSE IF l \in (top + 1)..level THEN RemoveFirst(lists[l], Start(Buddy(BlockAt(freed, l))))
                  ELSE lists[l]
  BY DEF MergedLists
<1>3. ASSUME NEW l \in Level
      PROVE  list(l) \in Seq(Unit) /\ IsInjective(list(l)) /\ Range(list(l)) = FreeStarts(new, l)
  <2>1. lists[l] \in Seq(Unit) /\ IsInjective(lists[l]) /\ Range(lists[l]) = FreeStarts(statuses, l)
    BY DEF IsListed
  <2>2. \A u \in Unit :
          new[BlockAt(u, l)] =
            IF l = top /\ BlockAt(u, l) = BlockAt(freed, l) THEN "Free"
            ELSE IF /\ l \in (top + 1)..level
                    /\ BlockAt(u, l) = BlockAt(freed, l) \/ BlockAt(u, l) = Buddy(BlockAt(freed, l))
            THEN "Invalid"
            ELSE statuses[BlockAt(u, l)]
    BY Merged
  <2>3. statuses[BlockAt(freed, l)] # "Free"
    BY FreedPath
  <2> HIDE DEF new
  <2>4. CASE l = top
    <3> DEFINE e == Start(BlockAt(freed, l))
    <3>1. e \in Unit /\ e % Size[l] = 0 /\ BlockAt(e, l) = BlockAt(freed, l)
      BY <1>1, Starts
    <3>2. e \notin Range(lists[l])
      BY <3>1, <2>1, <2>3 DEF FreeStarts
    <3>3. \A u \in Unit : u % Size[l] = 0 => (BlockAt(u, l) = BlockAt(freed, l) <=> u = e)
      BY <1>1, StartsDiffer
    <3>4. \A u \in Unit :
            new[BlockAt(u, l)] = "Free" <=>
              BlockAt(u, l) = BlockAt(freed, l) \/ statuses[BlockAt(u, l)] = "Free"
      BY <2>2, <2>4, <1>1
    <3>5. list(l) = <<e>> \o lists[l]
      BY <1>2, <2>4
    <3> HIDE DEF e, list
    <3>6. FreeStarts(new, l) = FreeStarts(statuses, l) \cup {e}
      BY <3>1, <3>3, <3>4 DEF FreeStarts
    <3>7. QED BY <3>1, <3>2, <3>5, <3>6, <2>1, Put
  <2>5. CASE l \in (top + 1)..level
    <3>1. l # 0 /\ l # top
      BY <2>5, <1>1
    <3>2. PICK e \in Unit :
            /\ BlockAt(e, l) = Buddy(BlockAt(freed, l))
            /\ e = Start(Buddy(BlockAt(freed, l)))
      BY <3>1, <1>1, Buddies
    <3>3. e % Size[l] = 0 /\ \A u \in Unit : u % Size[l] = 0 => (BlockAt(u, l) = BlockAt(e, l) <=> u = e)
      BY <3>2, Starts
    <3>4. e \in Range(lists[l])
      BY <3>2, <3>3, <2>1, <2>5 DEF FreeStarts, CanMerge
    <3>5. \A u \in Unit :
            new[BlockAt(u, l)] = "Free" <=>
              BlockAt(u, l) # BlockAt(e, l) /\ statuses[BlockAt(u, l)] = "Free"
      BY <2>2, <2>3, <2>5, <3>1, <3>2
    <3>6. FreeStarts(new, l) = FreeStarts(statuses, l) \ {e}
      BY <3>3, <3>5 DEF FreeStarts
    <3>7. list(l) = RemoveFirst(lists[l], e)
      BY <3>1, <3>2, <1>2, <2>5
    <3> HIDE DEF list
    <3>8. QED BY <3>4, <3>6, <3>7, <2>1, Taken
  <2>6. CASE l # top /\ l \notin (top + 1)..level
    <3>1. FreeStarts(new, l) = FreeStarts(statuses, l)
      BY <2>2, <2>6 DEF FreeStarts
    <3>2. list(l) = lists[l]
      BY <1>2, <2>6
    <3>3. QED BY <3>1, <3>2, <2>1
  <2>7. QED BY <2>4, <2>5, <2>6
<1>4. MergedLists(lists, freed, level, top) \in [Level -> Seq(Unit)]
  <2>1. MergedLists(lists, freed, level, top) = [l \in Level |-> list(l)]
    BY DEF MergedLists
  <2> HIDE DEF list
  <2>2. QED BY <2>1, <1>3
<1>5. QED BY <1>3, <1>4 DEF IsListed

\* The other used blocks stay.
LEMMA MergeUses ==
  ASSUME NEW statuses, NEW freed, NEW level, NEW top, CanMerge(statuses, freed, level, top)
  PROVE  /\ MergedStatuses(statuses, freed, level, top) \in [Block -> Status]
         /\ \A b \in Block : statuses[b] = "Used" /\ b # BlockAt(freed, level) =>
              MergedStatuses(statuses, freed, level, top)[b] = "Used"
<1> DEFINE new == MergedStatuses(statuses, freed, level, top)
<1>1. new \in [Block -> Status]
  BY DEF MergedStatuses, CanMerge, Status
<1>2. ASSUME NEW b \in Block, statuses[b] = "Used", b # BlockAt(freed, level)
      PROVE  new[b] = "Used"
  <2>1. PICK u \in Unit, l \in Level : b = BlockAt(u, l)
    BY DEF Block
  <2>2. BlockAt(u, l) # BlockAt(freed, l)
    BY <2>1, <1>2, FreedPath
  <2>3. l \in (top + 1)..level => BlockAt(u, l) # Buddy(BlockAt(freed, l))
    BY <2>1, <1>2 DEF CanMerge
  <2>4. QED BY <2>1, <2>2, <2>3, <1>2, Merged
<1>3. QED BY <1>1, <1>2

-----------------------------------------------------------------------------
(* The invariant *)

\* init(): one free block.
LEMMA HeapStarts == Init => HeapInv
<1> SUFFICES ASSUME Init PROVE HeapInv
  OBVIOUS
<1>1. \A u \in Unit, l \in Level :
        block_statuses[BlockAt(u, l)] = IF l = 0 THEN "Free" ELSE "Invalid"
  <2>1. \A u \in Unit, l \in Level : BlockAt(u, l) \in Block /\ BlockAt(u, l)[1] = l
    BY Blocks
  <2>2. QED BY <2>1 DEF Init
<1>2. Levels \in Nat \ {0} /\ Level = 0..(Levels - 1) /\ Size[0] \in Nat /\ Size[0] > 0
  BY Sizes DEF Level
<1>3. TypeOK
  <2>1. 0 \in Unit
    BY <1>2 DEF Unit
  <2>2. free_blocks \in [Level -> Seq(Unit)]
    BY <2>1 DEF Init
  <2>3. QED BY <2>2 DEF Init, TypeOK
<1>4. IsTree(block_statuses)
  <2>1. ASSUME NEW l \in Level, l # 0 PROVE l - 1 \in Level
    BY <2>1, Sizes
  <2>2. 0 \in Level /\ Levels - 1 \in Level
    BY <1>2
  <2>3. QED BY <2>1, <2>2, <1>1 DEF IsTree
<1>5. IsMerged(block_statuses)
  BY <1>1 DEF IsMerged
<1>6. ASSUME NEW l \in Level
      PROVE  IsInjective(free_blocks[l]) /\ Range(free_blocks[l]) = FreeStarts(block_statuses, l)
  <2>1. CASE l = 0
    <3>1. free_blocks[l] = <<0>>
      BY <2>1 DEF Init
    <3>2. IsInjective(<<0>>) /\ Range(<<0>>) = {0}
      BY DEF IsInjective, Range
    <3>3. \A u \in Unit : u % Size[0] = 0 <=> u = 0
      BY <1>2 DEF Unit
    <3>4. 0 \in Unit
      BY <1>2 DEF Unit
    <3>5. FreeStarts(block_statuses, l) = {0}
      BY <3>3, <3>4, <2>1, <1>1 DEF FreeStarts
    <3>6. QED BY <3>1, <3>2, <3>5
  <2>2. CASE l # 0
    <3>1. free_blocks[l] = <<>>
      BY <2>2 DEF Init
    <3>2. IsInjective(<<>>) /\ Range(<<>>) = {}
      BY DEF IsInjective, Range
    <3>3. FreeStarts(block_statuses, l) = {}
      BY <2>2, <1>1 DEF FreeStarts
    <3>4. QED BY <3>1, <3>2, <3>3
  <2>3. QED BY <2>1, <2>2
<1>7. QED BY <1>3, <1>4, <1>5, <1>6 DEF HeapInv, IsListed, Init

\* A request is for the smallest blocks that it fits in.
LEMMA LevelForRequest ==
  ASSUME NEW n \in 1..Size[0]
  PROVE  /\ LevelFor(n) \in Level /\ Size[LevelFor(n)] >= n
         /\ \A k \in Level : k > LevelFor(n) => Size[k] < n
<1> DEFINE S == {l \in 0..(Levels - 1) : Size[l] >= n}
<1>1. /\ Levels \in Nat /\ Levels - 1 \in Nat /\ Level = 0..(Levels - 1)
      /\ 0 \in Level /\ Size[0] \in Nat /\ n \in Nat /\ n <= Size[0]
  BY Sizes DEF Level
<1>2. 0 \in S /\ S \in SUBSET (0..(Levels - 1))
  BY <1>1
<1>3. PICK l \in S : \A k \in S : k <= l
  BY <1>1, <1>2, Greatest
<1>4. \A k \in Level : k > l => Size[k] < n
  <2>1. ASSUME NEW k \in Level, k > l PROVE Size[k] < n
    <3>1. k \notin S /\ Size[k] \in Nat
      BY <2>1, <1>1, <1>3, Sizes
    <3>2. QED BY <3>1, <1>1
  <2>2. QED BY <2>1
<1>5. \E j \in Level : Size[j] >= n /\ \A k \in Level : k > j => Size[k] < n
  BY <1>1, <1>3, <1>4
<1>6. QED BY <1>5 DEF LevelFor

\* A free block is carved: alloc() and reserve().
LEMMA CarveKeepsHeap ==
  ASSUME HeapInv, NEW origin \in Unit, NEW from \in Level, NEW target \in Level, from <= target,
         block_statuses[BlockAt(origin, from)] = "Free",
         Carve(origin, from, target),
         held' = held \/ held' = held \cup {BlockAt(origin, target)}
  PROVE  HeapInv'
<1>1. CanCarve(block_statuses, origin, from, target)
  BY DEF CanCarve, HeapInv, TypeOK, Status
<1>2. /\ IsTree(block_statuses') /\ IsMerged(block_statuses')
      /\ block_statuses' \in [Block -> Status]
      /\ BlockAt(origin, target) \in Block /\ block_statuses'[BlockAt(origin, target)] = "Used"
      /\ \A b \in Block : block_statuses[b] = "Used" => block_statuses'[b] = "Used"
  BY <1>1, CarveKeepsTree, CarveKeepsMerged, CarveUses DEF Carve, HeapInv
<1>3. IsListed(block_statuses', free_blocks') /\ free_blocks' \in [Level -> Seq(Unit)]
  BY <1>1, CarveKeepsLists DEF Carve, HeapInv, TypeOK
<1>4. TypeOK'
  BY <1>2, <1>3 DEF TypeOK, HeapInv, Status
<1>5. \A b \in held' : block_statuses'[b] = "Used"
  BY <1>2 DEF HeapInv, TypeOK
<1>6. QED BY <1>2, <1>3, <1>4, <1>5 DEF HeapInv

\* alloc() carves a block that a list has.
LEMMA AllocKeepsHeap ==
  ASSUME HeapInv, NEW n \in 1..Size[0], Alloc(n)
  PROVE  HeapInv'
<1> DEFINE target == LevelFor(n)
<1>1. target \in Level
  BY LevelForRequest
<1>2. PICK from \in Level :
        /\ Source(from, target)
        /\ Carve(Head(free_blocks[from]), from, target)
        /\ held' = held \cup {BlockAt(Head(free_blocks[from]), target)}
  BY DEF Alloc
<1> DEFINE origin == Head(free_blocks[from])
<1>3. from <= target /\ free_blocks[from] # <<>>
  BY <1>2 DEF Source
<1>4. origin \in FreeStarts(block_statuses, from)
  <2>1. free_blocks[from] \in Seq(Unit)
    BY DEF HeapInv, TypeOK
  <2>2. origin \in Range(free_blocks[from])
    BY <2>1, <1>3 DEF Range
  <2>3. QED BY <2>2 DEF HeapInv, IsListed
<1>5. origin \in Unit /\ block_statuses[BlockAt(origin, from)] = "Free"
  BY <1>4 DEF FreeStarts
<1> HIDE DEF target, origin
<1>6. QED BY <1>1, <1>2, <1>3, <1>5, CarveKeepsHeap DEF target, origin

\* The first reserve() carves the area's first block.
LEMMA ReserveKeepsHeap ==
  ASSUME HeapInv, NEW n \in 1..Size[0], Reserve(n)
  PROVE  HeapInv'
<1>1. PICK target \in Level : Carve(0, 0, target) /\ held' = held
  BY DEF Reserve
<1>2. block_statuses[BlockAt(0, 0)] = "Free"
  BY DEF Reserve
<1>3. 0 \in Level /\ 0 <= target /\ 0 \in Unit
  BY Sizes DEF Unit
<1>4. QED BY <1>1, <1>2, <1>3, CarveKeepsHeap

\* free() finds the block that its caller holds.
LEMMA FreedIsHeld ==
  ASSUME HeapInv, NEW b \in held, NEW level \in Level, FreedLevel(Start(b), level)
  PROVE  /\ Start(b) \in Unit
         /\ BlockAt(Start(b), level) = b
         /\ Start(b) = Start(BlockAt(Start(b), level))
<1>1. PICK v \in Unit, l \in Level : b = BlockAt(v, l)
  BY DEF HeapInv, TypeOK, Block
<1>2. Start(b) \in Unit /\ BlockAt(Start(b), l) = b
  BY <1>1, Starts
<1>3. /\ block_statuses[BlockAt(Start(b), l)] = "Used"
      /\ block_statuses \in [Block -> Status] /\ IsTree(block_statuses)
  BY <1>2 DEF HeapInv, TypeOK, Status
<1>4. l \in Nat /\ level \in Nat
  BY Sizes
<1>5. ~(l > level)
  BY <1>3 DEF FreedLevel
<1>6. ~(l < level)
  <2>1. SUFFICES ASSUME l < level PROVE FALSE
    OBVIOUS
  <2>2. block_statuses[BlockAt(Start(b), level)] = "Used"
    BY <2>1, <1>4 DEF FreedLevel
  <2>3. QED BY <2>1, <2>2, <1>2, <1>3, SplitAbove
<1>7. l = level
  BY <1>4, <1>5, <1>6
<1>8. QED BY <1>2, <1>7

\* free() of a block that is held.
LEMMA FreeKeepsHeap ==
  ASSUME HeapInv, NEW u \in FreeableAddresses, Free(u)
  PROVE  HeapInv'
<1>1. PICK b \in held : u = Start(b)
  BY DEF FreeableAddresses
<1>2. PICK level \in Level, top \in Level :
        /\ FreedLevel(u, level)
        /\ MergedLevel(u, level, top)
        /\ block_statuses' = MergedStatuses(block_statuses, u, level, top)
        /\ free_blocks' = MergedLists(free_blocks, u, level, top)
        /\ held' = held \ {BlockAt(u, level)}
  BY DEF Free
<1>3. u \in Unit /\ BlockAt(u, level) = b /\ u = Start(BlockAt(u, level))
  BY <1>1, <1>2, FreedIsHeld
<1>4. CanMerge(block_statuses, u, level, top)
  BY <1>2, <1>3 DEF CanMerge, MergedLevel, HeapInv, TypeOK, Status
<1>5. /\ IsTree(block_statuses') /\ IsMerged(block_statuses')
      /\ block_statuses' \in [Block -> Status]
      /\ \A c \in Block : block_statuses[c] = "Used" /\ c # BlockAt(u, level) =>
           block_statuses'[c] = "Used"
  <2>1. top # 0 => block_statuses[Buddy(BlockAt(u, top))] # "Free"
    BY <1>2 DEF MergedLevel
  <2>2. QED BY <2>1, <1>2, <1>4, MergeKeepsTree, MergeKeepsMerged, MergeUses
<1>6. IsListed(block_statuses', free_blocks') /\ free_blocks' \in [Level -> Seq(Unit)]
  BY <1>2, <1>3, <1>4, MergeKeepsLists DEF HeapInv, TypeOK
<1>7. TypeOK'
  BY <1>2, <1>5, <1>6 DEF TypeOK, HeapInv, Status
<1>8. \A c \in held' : block_statuses'[c] = "Used"
  BY <1>2, <1>5 DEF HeapInv, TypeOK
<1>9. QED BY <1>5, <1>6, <1>7, <1>8 DEF HeapInv

\* The tree, the lists and the blocks that are held always agree.
LEMMA HeapIsKept == Spec => []HeapInv
<1>1. Init => HeapInv
  BY HeapStarts
<1>2. HeapInv /\ [Next]_vars => HeapInv'
  <2> SUFFICES ASSUME HeapInv, [Next]_vars PROVE HeapInv'
    OBVIOUS
  <2>1. ASSUME NEW n \in 1..Size[0], Alloc(n) PROVE HeapInv'
    BY <2>1, AllocKeepsHeap
  <2>2. ASSUME NEW n \in 1..Size[0], Reserve(n) PROVE HeapInv'
    BY <2>2, ReserveKeepsHeap
  <2>3. ASSUME NEW u \in FreeableAddresses, Free(u) PROVE HeapInv'
    BY <2>3, FreeKeepsHeap
  <2>4. CASE UNCHANGED vars
    BY <2>4 DEF vars, HeapInv, TypeOK
  <2>5. QED BY <2>1, <2>2, <2>3, <2>4 DEF Next
<1>3. QED BY <1>1, <1>2, PTL DEF Spec

-----------------------------------------------------------------------------
(* What it means for callers *)

\* No unit of memory is given to two callers: blocks that are held do not
\* overlap, in an area of any size (BuddyAllocator.alloc and free).
THEOREM MemoryIsGivenOnce == Spec => []HeldAreDisjoint
<1>1. HeapInv => HeldAreDisjoint
  <2> SUFFICES ASSUME HeapInv, NEW b \in held, NEW c \in held, b # c,
                      NEW u \in Units(b) \cap Units(c)
               PROVE  FALSE
    BY DEF HeldAreDisjoint
  <2> DEFINE k == b[1]
             l == c[1]
  <2>1. k \in Level /\ l \in Level
    <3>1. ASSUME NEW d \in Block PROVE d[1] \in Level
      <4>1. PICK v \in Unit, m \in Level : d = BlockAt(v, m)
        BY <3>1 DEF Block
      <4>2. QED BY <4>1, Blocks
    <3>2. QED BY <3>1 DEF HeapInv, TypeOK
  <2>2. u \in Unit /\ BlockAt(u, k) = b /\ BlockAt(u, l) = c
    BY DEF Units
  <2> HIDE DEF k, l
  <2>3. /\ block_statuses[BlockAt(u, k)] = "Used" /\ block_statuses[BlockAt(u, l)] = "Used"
        /\ IsTree(block_statuses) /\ block_statuses \in [Block -> Status]
    BY <2>2 DEF HeapInv, TypeOK, Status
  <2>4. ~(k < l)
    BY <2>1, <2>2, <2>3, SplitAbove
  <2>5. ~(l < k)
    BY <2>1, <2>2, <2>3, SplitAbove
  <2>6. k = l
    BY <2>1, <2>4, <2>5, Sizes
  <2>7. QED BY <2>2, <2>6
<1>2. QED BY <1>1, HeapIsKept, PTL

\* The free lists and the statuses always agree, in an area of any size.
THEOREM ListsAgree == Spec => []ListsMatchStatuses
<1>1. HeapInv => ListsMatchStatuses
  <2> SUFFICES ASSUME HeapInv, NEW l \in Level
               PROVE  /\ IsInjective(free_blocks[l])
                      /\ {BlockAt(free_blocks[l][i], l) : i \in DOMAIN free_blocks[l]} =
                           {b \in Block : b[1] = l /\ block_statuses[b] = "Free"}
                      /\ \A i \in DOMAIN free_blocks[l] : free_blocks[l][i] % Size[l] = 0
    BY DEF ListsMatchStatuses, HeapInv
  <2>1. /\ IsInjective(free_blocks[l])
        /\ Range(free_blocks[l]) = FreeStarts(block_statuses, l)
    BY DEF HeapInv, IsListed
  <2>2. ASSUME NEW i \in DOMAIN free_blocks[l]
        PROVE  /\ free_blocks[l][i] % Size[l] = 0
               /\ BlockAt(free_blocks[l][i], l) \in
                    {b \in Block : b[1] = l /\ block_statuses[b] = "Free"}
    <3>1. free_blocks[l][i] \in FreeStarts(block_statuses, l)
      BY <2>1 DEF Range
    <3>2. QED BY <3>1, Blocks DEF FreeStarts
  <2>3. ASSUME NEW b \in Block, b[1] = l, block_statuses[b] = "Free"
        PROVE  \E i \in DOMAIN free_blocks[l] : b = BlockAt(free_blocks[l][i], l)
    <3>1. PICK u \in Unit, m \in Level : b = BlockAt(u, m)
      BY DEF Block
    <3>2. m = l
      BY <3>1, <2>3, Blocks
    <3>3. Start(b) \in FreeStarts(block_statuses, l) /\ BlockAt(Start(b), l) = b
      BY <3>1, <3>2, <2>3, Starts DEF FreeStarts
    <3>4. PICK i \in DOMAIN free_blocks[l] : free_blocks[l][i] = Start(b)
      BY <3>3, <2>1 DEF Range
    <3>5. QED BY <3>3, <3>4
  <2>4. QED BY <2>1, <2>2, <2>3
<1>2. QED BY <1>1, HeapIsKept, PTL

\* A request fails only if every block that would satisfy it holds something
\* that is used: freed memory is always joined, in an area of any size.
THEOREM NothingIsLost == Spec => []FreeSpaceIsFound
<1>1. HeapInv => FreeSpaceIsFound
  <2> SUFFICES ASSUME HeapInv, NEW b \in Block,
                      \A u \in Units(b), l \in Level : block_statuses[BlockAt(u, l)] # "Used"
               PROVE  \E l \in Level : l <= b[1] /\ free_blocks[l] # <<>>
    BY DEF FreeSpaceIsFound
  <2>1. PICK v \in Unit, m \in Level : b = BlockAt(v, m)
    BY DEF Block
  <2>2. /\ m \in Nat /\ Levels \in Nat /\ Levels - 1 \in Nat /\ Level = 0..(Levels - 1)
        /\ m \in 0..(Levels - 1) /\ b[1] = m /\ v \in Units(b)
        /\ IsTree(block_statuses) /\ IsMerged(block_statuses)
        /\ block_statuses \in [Block -> Status]
    BY <2>1, Sizes, Blocks DEF Units, HeapInv, TypeOK, Status, Level
  \* If a block is split, the deepest split one in it has two free halves.
  <2>3. block_statuses[BlockAt(v, m)] # "Split"
    <3> DEFINE S == {l \in 0..(Levels - 1) :
                       l >= m /\ \E u \in Units(b) : block_statuses[BlockAt(u, l)] = "Split"}
    <3>1. SUFFICES ASSUME block_statuses[BlockAt(v, m)] = "Split" PROVE FALSE
      OBVIOUS
    <3>2. m \in S /\ S \in SUBSET (0..(Levels - 1))
      BY <3>1, <2>2
    <3>3. PICK l \in S : \A k \in S : k <= l
      BY <3>2, <2>2, Greatest
    <3>4. PICK u \in Units(b) : block_statuses[BlockAt(u, l)] = "Split"
      BY <3>3
    <3>5. u \in Unit /\ BlockAt(u, m) = BlockAt(v, m) /\ l # Levels - 1
      BY <3>4, <2>1, <2>2 DEF Units, IsTree
    <3>6. l \in Level /\ l + 1 \in Level /\ l + 1 # 0 /\ (l + 1) - 1 = l /\ l + 1 \notin S /\ m <= l /\ l + 1 >= m
      BY <3>3, <3>5, <2>2
    \* A half in the block is free: it is there, not split, and not used.
    <3>7. ASSUME NEW w \in Unit, BlockAt(w, l) = BlockAt(u, l)
          PROVE  block_statuses[BlockAt(w, l + 1)] = "Free"
      <4>1. w \in Units(b)
        BY <3>5, <3>6, <3>7, <2>1, <2>2, SharedAbove DEF Units
      <4>2. block_statuses[BlockAt(w, l + 1)] # "Split"
        BY <4>1, <3>6, <2>2
      <4>3. block_statuses[BlockAt(w, l + 1)] # "Invalid"
        <5>1. block_statuses[BlockAt(w, l + 1)] # "Invalid" <=>
                block_statuses[BlockAt(w, (l + 1) - 1)] = "Split"
          BY <3>6, <2>2 DEF IsTree
        <5>2. QED BY <5>1, <3>4, <3>6, <3>7
      <4>4. block_statuses[BlockAt(w, l + 1)] \in Status
        BY <3>6, <2>2, Blocks
      <4>5. QED BY <4>1, <4>2, <4>3, <4>4, <3>6 DEF Status
    <3>8. PICK w \in Unit :
            BlockAt(w, l + 1) = Buddy(BlockAt(u, l + 1)) /\ BlockAt(w, (l + 1) - 1) = BlockAt(u, (l + 1) - 1)
      BY <3>5, <3>6, Buddies
    <3>9. block_statuses[BlockAt(u, l + 1)] = "Free" /\ block_statuses[Buddy(BlockAt(u, l + 1))] = "Free"
      BY <3>5, <3>6, <3>7, <3>8
    <3>10. QED BY <3>5, <3>6, <3>9, <2>2 DEF IsMerged
  \* The first block around it that is not split is free.
  <2>4. PICK k \in Level : k <= m /\ block_statuses[BlockAt(v, k)] = "Free"
    <3> DEFINE S == {l \in Nat : l <= m /\ block_statuses[BlockAt(v, l)] # "Split"}
    <3>1. m \in S /\ S \in SUBSET Nat
      BY <2>2, <2>3
    <3>2. PICK k \in S : \A l \in S : k <= l
      BY <3>1, Least
    <3>3. k \in Nat /\ k \in Level /\ k <= m /\ block_statuses[BlockAt(v, k)] # "Split"
      BY <3>2, <2>2
    <3>4. block_statuses[BlockAt(v, k)] # "Invalid"
      <4>1. CASE k = 0
        BY <4>1, <2>2 DEF IsTree
      <4>2. CASE k # 0
        <5>1. k - 1 \in Nat /\ k - 1 <= m /\ k - 1 \notin S
          BY <4>2, <3>2, <3>3, <2>2
        <5>2. block_statuses[BlockAt(v, k - 1)] = "Split"
          BY <5>1
        <5>3. QED BY <5>2, <4>2, <3>3, <2>2 DEF IsTree
      <4>3. QED BY <4>1, <4>2
    <3>5. block_statuses[BlockAt(v, k)] # "Used"
      BY <3>3, <2>2
    <3>6. block_statuses[BlockAt(v, k)] \in Status
      BY <3>3, <2>2, Blocks
    <3>7. QED BY <3>3, <3>4, <3>5, <3>6 DEF Status
  <2>5. Start(BlockAt(v, k)) \in FreeStarts(block_statuses, k)
    BY <2>4, Starts DEF FreeStarts
  <2>6. Range(free_blocks[k]) # {}
    BY <2>5 DEF HeapInv, IsListed
  <2>7. free_blocks[k] # <<>>
    BY <2>6 DEF Range
  <2>8. QED BY <2>2, <2>4, <2>7
<1>2. QED BY <1>1, HeapIsKept, PTL

=============================================================================
