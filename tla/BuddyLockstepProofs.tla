------------------------ MODULE BuddyLockstepProofs -------------------------
(***************************************************************************)
(* The kernel's allocator and the prototype agree, for an area of any size *)
(* and any requests: each call of one does to the linked lists in the      *)
(* blocks what the other does to sequences, and the loops of alloc() and   *)
(* free() come to the same level.                                          *)
(***************************************************************************)
EXTENDS BuddyLockstep, BuddyAllocatorProofs, FiniteSetTheorems

-----------------------------------------------------------------------------
(* Powers of two and their logarithms *)

\* What holds of the first number, and with a number of the next one up to n.
LEMMA UpToAll ==
  ASSUME NEW n \in Nat, NEW S, 0 \in S, \A i \in 0..(n - 1) : i \in S => i + 1 \in S
  PROVE  0..n \subseteq S
<1> DEFINE Missing == {i \in 0..n : i \notin S}
<1> SUFFICES ASSUME Missing # {} PROVE FALSE
  OBVIOUS
<1>1. Missing \in SUBSET Nat
  OBVIOUS
<1>2. PICK m \in Missing : \A k \in Missing : m <= k
  <2> HIDE DEF Missing
  <2>1. QED BY <1>1, Least
<1>3. m \in 1..n
  BY <1>2
<1>4. m - 1 \in 0..(n - 1) /\ m - 1 \notin Missing /\ (m - 1) + 1 = m
  BY <1>2, <1>3
<1>5. QED BY <1>2, <1>3, <1>4

\* A set with one more element has twice as many subsets.
LEMMA PowerOfTwo ==
  ASSUME NEW n \in Nat
  PROVE  2 ^ n \in Nat /\ 2 ^ (n + 1) = 2 * 2 ^ n
<1>1. \A m \in Nat : IsFiniteSet(1..m) /\ Cardinality(1..m) = m
  <2>1. ASSUME NEW m \in Nat PROVE IsFiniteSet(1..m) /\ Cardinality(1..m) = m
    <3>1. IsFiniteSet(1..m) /\ Cardinality(1..m) = IF 1 > m THEN 0 ELSE m - 1 + 1
      BY FS_Interval
    <3>2. QED BY <3>1
  <2>2. QED BY <2>1
<1>2. \A m \in Nat : IsFiniteSet(SUBSET (1..m)) /\ Cardinality(SUBSET (1..m)) = 2 ^ m
  <2>1. ASSUME NEW m \in Nat
        PROVE  IsFiniteSet(SUBSET (1..m)) /\ Cardinality(SUBSET (1..m)) = 2 ^ m
    <3>1. IsFiniteSet(1..m) /\ Cardinality(1..m) = m
      BY <1>1
    <3>2. /\ IsFiniteSet(SUBSET (1..m))
          /\ Cardinality(SUBSET (1..m)) = 2 ^ Cardinality(1..m)
      BY <3>1, FS_SUBSET
    <3>3. QED BY <3>1, <3>2
  <2>2. QED BY <2>1
<1> DEFINE A == SUBSET (1..n)
           B == {T \cup {n + 1} : T \in A}
           f == [T \in A |-> T \cup {n + 1}]
<1>3. IsFiniteSet(A) /\ Cardinality(A) = 2 ^ n /\ 2 ^ n \in Nat
  BY <1>2, FS_CardinalityType
<1>4. n + 1 \notin 1..n /\ 1..(n + 1) = (1..n) \cup {n + 1}
  OBVIOUS
<1>5. f \in Bijection(A, B)
  <2>1. f \in [A -> B]
    OBVIOUS
  <2>2. ASSUME NEW S \in A, NEW T \in A, f[S] = f[T] PROVE S = T
    <3>1. S \cup {n + 1} = T \cup {n + 1}
      BY <2>2
    <3>2. QED BY <3>1, <1>4
  <2>3. \A t \in B : \E s \in A : f[s] = t
    OBVIOUS
  <2> HIDE DEF A, B, f
  <2>4. QED BY <2>1, <2>2, <2>3 DEF Bijection, Injection, Surjection, IsInjective
<1>6. SUBSET (1..(n + 1)) = A \cup B
  <2>1. ASSUME NEW S \in SUBSET (1..(n + 1)) PROVE S \in A \cup B
    <3>1. CASE n + 1 \in S
      <4>1. S \ {n + 1} \in A /\ S = (S \ {n + 1}) \cup {n + 1}
        BY <1>4, <3>1
      <4>2. QED BY <4>1
    <3>2. CASE n + 1 \notin S
      BY <1>4, <3>2
    <3>3. QED BY <3>1, <3>2
  <2>2. ASSUME NEW S \in A \cup B PROVE S \in SUBSET (1..(n + 1))
    BY <1>4
  <2>3. QED BY <2>1, <2>2
<1>7. A \cap B = {}
  BY <1>4
<1> HIDE DEF A, B, f
<1>8. IsFiniteSet(B) /\ Cardinality(B) = 2 ^ n
  BY <1>3, <1>5, FS_Bijection DEF ExistsBijection
<1>9. Cardinality(A \cup B) = Cardinality(A) + Cardinality(B) - Cardinality({})
  BY <1>3, <1>7, <1>8, FS_Union
<1>10. Cardinality({}) = 0
  BY FS_EmptySet
<1>11. Cardinality(SUBSET (1..(n + 1))) = 2 ^ (n + 1)
  BY <1>2
<1>12. QED
  <2> DEFINE p == 2 ^ n
             q == 2 ^ (n + 1)
  <2>1. q = Cardinality(A \cup B)
    BY <1>6, <1>11
  <2>2. p \in Nat /\ Cardinality(A) = p /\ Cardinality(B) = p
    BY <1>3, <1>8
  <2>3. q = p + p - 0
    BY <2>1, <2>2, <1>9, <1>10
  <2> HIDE DEF p, q
  <2>4. q = 2 * p
    BY <2>2, <2>3
  <2>5. QED BY <2>2, <2>4 DEF p, q

\* A power of two is positive, and bigger for a bigger exponent.
LEMMA PowersGrow ==
  ASSUME NEW a \in Nat, NEW b \in Nat, a <= b
  PROVE  2 ^ a \in Nat /\ 2 ^ b \in Nat /\ 2 ^ a > 0 /\ 2 ^ a <= 2 ^ b /\ b < 2 ^ b
<1>1. \A m \in Nat : 2 ^ m \in Nat /\ 2 ^ (m + 1) = 2 * 2 ^ m
  BY PowerOfTwo
<1>2. 2 ^ 0 = 1
  OBVIOUS
<1>3. \A m \in Nat : m < 2 ^ m
  <2> SUFFICES ASSUME NEW m \in Nat PROVE m < 2 ^ m
    OBVIOUS
  <2> DEFINE S == {k \in 0..m : k < 2 ^ k}
  <2>1. 0 \in S
    BY <1>2
  <2>2. ASSUME NEW i \in 0..(m - 1), i \in S PROVE i + 1 \in S
    <3>1. i \in Nat /\ i + 1 \in 0..m /\ i < 2 ^ i
      BY <2>2
    <3> DEFINE p == 2 ^ i
               q == 2 ^ (i + 1)
    <3>2. p \in Nat /\ q = 2 * p /\ i < p
      BY <1>1, <3>1
    <3> HIDE DEF p, q
    <3>3. i + 1 < q
      BY <3>1, <3>2
    <3>4. QED BY <3>1, <3>3 DEF q
  <2> HIDE DEF S
  <2>3. 0..m \subseteq S
    BY <2>1, <2>2, UpToAll
  <2>4. m \in S
    BY <2>3
  <2>5. QED BY <2>4 DEF S
<1>4. 2 ^ a <= 2 ^ b
  <2> DEFINE S == {k \in 0..(b - a) : 2 ^ a <= 2 ^ (a + k)}
  <2>1. 0 \in S
    BY <1>1
  <2>2. ASSUME NEW i \in 0..(b - a - 1), i \in S PROVE i + 1 \in S
    <3>1. a + i \in Nat /\ i + 1 \in 0..(b - a) /\ 2 ^ a <= 2 ^ (a + i) /\ a + (i + 1) = (a + i) + 1
      BY <2>2
    <3> DEFINE p == 2 ^ (a + i)
               q == 2 ^ ((a + i) + 1)
               r == 2 ^ a
    <3>2. p \in Nat /\ q = 2 * p /\ r \in Nat /\ r <= p
      BY <1>1, <3>1
    <3> HIDE DEF p, q, r
    <3>3. r <= q
      BY <3>2
    <3>4. QED BY <3>1, <3>3 DEF q, r
  <2>3. b - a \in Nat /\ (b - a) - 1 = b - a - 1 /\ a + (b - a) = b
    OBVIOUS
  <2> HIDE DEF S
  <2>4. 0..(b - a) \subseteq S
    BY <2>1, <2>2, <2>3, UpToAll
  <2>5. b - a \in S
    BY <2>3, <2>4
  <2>6. QED BY <2>3, <2>5 DEF S
<1>5. QED
  <2>1. a < 2 ^ a /\ 2 ^ a \in Nat
    BY <1>1, <1>3
  <2>2. 2 ^ a > 0
    BY <2>1
  <2>3. QED BY <1>1, <1>3, <1>4, <2>2

\* What log2() finds.
LEMMA Logarithm ==
  ASSUME NEW k \in Nat, NEW n \in Nat, 2 ^ k <= n, n < 2 ^ (k + 1)
  PROVE  Prototype!log2(n) = k
<1>1. \A j \in Nat : 2 ^ j \in Nat /\ 2 ^ j > 0 /\ j < 2 ^ j /\ 2 ^ (j + 1) = 2 * 2 ^ j
  <2>1. ASSUME NEW j \in Nat
        PROVE  2 ^ j \in Nat /\ 2 ^ j > 0 /\ j < 2 ^ j /\ 2 ^ (j + 1) = 2 * 2 ^ j
    <3>1. j <= j
      OBVIOUS
    <3>2. QED BY <3>1, PowerOfTwo, PowersGrow
  <2>2. QED BY <2>1
<1>2. ASSUME NEW p \in Nat, p > 0, p <= n, n < 2 * p
      PROVE  n \div p = 1
  <2>1. n = (1 * p) + (n - p) /\ n - p \in 0..(p - 1) /\ p \in Nat \ {0} /\ 1 \in Nat
    BY <1>2
  <2>2. ((1 * p) + (n - p)) \div p = 1
    BY <2>1, Quotient
  <2>3. QED BY <2>1, <2>2
<1>3. ASSUME NEW p \in Nat, p > 0, n \div p = 1
      PROVE  p <= n /\ n < 2 * p
  <2>1. n % p \in 0..(p - 1) /\ n = ((n \div p) * p) + (n % p)
    BY <1>3, Division
  <2>2. n = p + (n % p)
    BY <2>1, <1>3
  <2> DEFINE r == n % p
  <2>3. r \in 0..(p - 1) /\ n = p + r
    BY <2>1, <2>2
  <2> HIDE DEF r
  <2>4. QED BY <2>3
<1>4. k \in 0..n
  BY <1>1
<1>5. n \div 2 ^ k = 1
  BY <1>1, <1>2
<1>6. ASSUME NEW j \in 0..n, n \div 2 ^ j = 1
      PROVE  j = k
  <2>1. j \in Nat /\ 2 ^ j <= n /\ n < 2 ^ (j + 1)
    BY <1>1, <1>3, <1>6
  <2>2. ~(j < k)
    <3> SUFFICES ASSUME j < k PROVE FALSE
      OBVIOUS
    <3>1. j + 1 \in Nat /\ j + 1 <= k
      BY <2>1
    <3>2. 2 ^ (j + 1) <= 2 ^ k /\ 2 ^ (j + 1) \in Nat /\ 2 ^ k \in Nat
      BY <3>1, PowersGrow
    <3>3. QED BY <2>1, <3>2
  <2>3. ~(k < j)
    <3> SUFFICES ASSUME k < j PROVE FALSE
      OBVIOUS
    <3>1. k + 1 \in Nat /\ k + 1 <= j
      BY <2>1
    <3>2. 2 ^ (k + 1) <= 2 ^ j /\ 2 ^ (k + 1) \in Nat /\ 2 ^ j \in Nat
      BY <3>1, <2>1, PowersGrow
    <3>3. QED BY <2>1, <3>2
  <2>4. QED BY <2>1, <2>2, <2>3
<1>7. QED BY <1>4, <1>5, <1>6 DEF Prototype!log2

\* The blocks of a level are all of the area.
LEMMA Widths ==
  ASSUME NEW l \in Level
  PROVE  /\ l \in Nat /\ 2 ^ l \in Nat /\ 2 ^ l > 0
         /\ 2 ^ l * Size[l] = Size[0]
<1>1. l \in Nat /\ l <= Levels - 1 /\ Levels \in Nat
  BY Sizes DEF Level
<1>2. \A j \in Nat : 2 ^ j \in Nat /\ 2 ^ (j + 1) = 2 * 2 ^ j
  BY PowerOfTwo
<1> DEFINE S == {k \in 0..l : 2 ^ k * Size[k] = Size[0]}
<1>3. 0 \in S
  <2>1. 2 ^ 0 = 1
    OBVIOUS
  <2>2. Size[0] \in Nat
    BY Sizes
  <2>3. 1 * Size[0] = Size[0]
    BY <2>2
  <2>4. QED BY <2>1, <2>3, <1>1
<1>4. ASSUME NEW i \in 0..(l - 1), i \in S PROVE i + 1 \in S
  <2>1. i + 1 \in Level /\ i + 1 # 0 /\ (i + 1) - 1 = i /\ i \in Nat /\ i + 1 \in 0..l
    BY <1>1 DEF Level
  <2>2. Size[i] = 2 * Size[i + 1] /\ Size[i + 1] \in Nat
    <3>1. Size[(i + 1) - 1] = 2 * Size[i + 1] /\ Size[i + 1] \in Nat
      BY <2>1, Sizes
    <3>2. QED BY <2>1, <3>1
  <2> DEFINE p == 2 ^ i
             q == 2 ^ (i + 1)
             s == Size[i + 1]
  <2>3. p \in Nat /\ q = 2 * p /\ s \in Nat /\ p * (2 * s) = Size[0]
    BY <1>2, <1>4, <2>1, <2>2
  <2> HIDE DEF p, q, s
  <2>4. q * s = p * (2 * s)
    BY <2>3
  <2>5. q * s = Size[0]
    BY <2>3, <2>4
  <2>6. QED BY <2>1, <2>5 DEF q, s
<1> HIDE DEF S
<1>5. 0..l \subseteq S
  BY <1>1, <1>3, <1>4, UpToAll
<1>6. l \in S
  BY <1>1, <1>5
<1>7. 2 ^ l > 0
  <2>1. l <= l
    BY <1>1
  <2>2. QED BY <2>1, <1>1, PowersGrow
<1>8. QED BY <1>1, <1>2, <1>6, <1>7 DEF S

\* The smallest blocks, and what is in them.
LEMMA Minimum ==
  /\ size \in Nat /\ size = 4 * Size[0] /\ start \in Nat
  /\ size \div Size[0] = 4 /\ size \div 4 = Size[0]
  /\ Prototype!min_size = 4
<1>1. Size[0] \in Nat \ {0} /\ start \in Nat /\ Prototype!min_size = 4
  BY Sizes, LockstepAssumption DEF Prototype!min_size
<1>2. size = 4 * Size[0]
  BY LockstepAssumption, <1>1
<1> DEFINE s == Size[0]
<1>3. /\ s \in Nat \ {0} /\ size = (4 * s) + 0 /\ size = (s * 4) + 0
      /\ 0 \in 0..(s - 1) /\ 0 \in 0..3 /\ size \in Nat
  BY <1>1, <1>2
<1> HIDE DEF s
<1>4. size \div s = 4
  BY <1>3, Quotient
<1>5. size \div 4 = s
  <2>1. ((s * 4) + 0) \div 4 = s
    <3>1. 4 \in Nat \ {0} /\ s \in Nat /\ 0 \in 0..(4 - 1)
      BY <1>3
    <3>2. QED BY <3>1, Quotient
  <2>2. QED BY <2>1, <1>3
<1>6. QED BY <1>1, <1>2, <1>3, <1>4, <1>5 DEF s

\* The levels are the same, and the blocks of a level have the same size.
LEMMA SameLevels ==
  /\ Prototype!level_count = Levels /\ Prototype!PLevel = Level
  /\ \A l \in Level : Prototype!level_to_block_size(l) = 4 * Size[l]
<1>1. Levels - 1 \in Level /\ Levels - 1 \in Nat /\ Levels \in Nat
  BY Sizes DEF Level
<1>2. 2 ^ (Levels - 1) = Size[0]
  <2>1. 2 ^ (Levels - 1) * Size[Levels - 1] = Size[0] /\ 2 ^ (Levels - 1) \in Nat
    BY <1>1, Widths
  <2>2. Size[Levels - 1] = 1
    BY BuddyAssumption
  <2> DEFINE p == 2 ^ (Levels - 1)
  <2>3. p * 1 = Size[0] /\ p \in Nat
    BY <2>1, <2>2
  <2> HIDE DEF p
  <2>4. p = Size[0]
    BY <2>3
  <2>5. QED BY <2>4 DEF p
<1>3. Prototype!log2(Size[0]) = Levels - 1
  <2>1. Size[0] \in Nat /\ Size[0] > 0
    BY Sizes
  <2>2. 2 ^ ((Levels - 1) + 1) = 2 * 2 ^ (Levels - 1)
    BY <1>1, PowerOfTwo
  <2>3. 2 ^ (Levels - 1) <= Size[0] /\ Size[0] < 2 ^ ((Levels - 1) + 1)
    BY <1>2, <2>1, <2>2
  <2>4. QED BY <1>1, <2>1, <2>3, Logarithm
<1>4. Prototype!level_count = Levels
  BY <1>1, <1>3, Minimum DEF Prototype!level_count
<1>5. Prototype!PLevel = Level
  BY <1>4 DEF Prototype!PLevel, Level
<1>6. ASSUME NEW l \in Level
      PROVE  Prototype!level_to_block_size(l) = 4 * Size[l]
  <2> DEFINE p == 2 ^ l
             s == Size[l]
  <2>1. p \in Nat \ {0} /\ s \in Nat /\ p * s = Size[0]
    BY Sizes, Widths
  <2> HIDE DEF p, s
  <2>2. 4 * Size[0] = ((4 * s) * p) + 0 /\ 0 \in 0..(p - 1) /\ 4 * s \in Nat
    <3>1. 4 * (p * s) = ((4 * s) * p) + 0
      BY <2>1
    <3>2. QED BY <2>1, <3>1
  <2>3. (4 * Size[0]) \div p = 4 * s
    <3> DEFINE q == 4 * s
    <3>1. q \in Nat /\ 4 * Size[0] = (q * p) + 0
      BY <2>2
    <3> HIDE DEF q
    <3>2. ((q * p) + 0) \div p = q
      BY <2>1, <2>2, <3>1, Quotient
    <3>3. QED BY <3>1, <3>2 DEF q
  <2>4. QED BY <2>3, Minimum DEF Prototype!level_to_block_size, p, s
<1>7. QED BY <1>4, <1>5, <1>6

-----------------------------------------------------------------------------
(* Blocks, their addresses and their statuses *)

\* The address of a unit, and the place of a block among the statuses.
Ptr(u) == start + Bytes(u)
IdOf(b) == Prototype!unique_id(b[1], b[2])
Ids == 0..(2 ^ Levels - 2)

\* A block has an index that there is at its level.
LEMMA BlockIndices ==
  ASSUME NEW b \in Block
  PROVE  /\ b[1] \in Level /\ b[2] \in Nat /\ b[2] < 2 ^ b[1] /\ b = <<b[1], b[2]>>
         /\ Start(b) \in Unit /\ BlockAt(Start(b), b[1]) = b /\ b[2] * Size[b[1]] = Start(b)
<1>1. PICK u \in Unit, l \in Level : b = BlockAt(u, l)
  BY DEF Block
<1>2. b = <<l, u \div Size[l]>> /\ u \in Nat /\ u \div Size[l] \in Nat
  BY <1>1, Blocks
<1>3. u \div Size[l] < 2 ^ l
  <2> DEFINE s == Size[l]
             p == 2 ^ l
             q == u \div s
  <2>1. s \in Nat \ {0} /\ p \in Nat /\ p * s = Size[0] /\ u < Size[0] /\ u \in Nat
    BY Sizes, Widths, <1>2 DEF Unit
  <2>2. q \in Nat /\ q * s <= u
    <3> HIDE DEF s, p
    <3>1. q \in Nat /\ u % s \in 0..(s - 1) /\ u = (q * s) + (u % s)
      BY <2>1, Division
    <3> DEFINE r == u % s
    <3>2. r \in Nat /\ u = (q * s) + r
      BY <3>1, <2>1
    <3> HIDE DEF q, r
    <3>3. q * s \in Nat
      BY <3>1, <2>1
    <3>4. QED BY <3>1, <3>2, <3>3
  <2> HIDE DEF s, p, q
  <2>3. q >= p => q * s >= p * s
    <3>1. \A x, y, z \in Nat : x >= y => x * z >= y * z
      OBVIOUS
    <3>2. QED BY <3>1, <2>1, <2>2
  <2>4. q * s \in Nat /\ p * s \in Nat
    BY <2>1, <2>2
  <2>5. q < p
    BY <2>1, <2>2, <2>3, <2>4
  <2>6. QED BY <2>5 DEF s, p, q
<1>4. Start(b) \in Unit /\ BlockAt(Start(b), l) = b
  BY <1>1, Starts
<1>5. QED BY <1>2, <1>3, <1>4 DEF Start

\* Units have addresses of their own, and indices and addresses are of the same
\* blocks in both.
LEMMA Pointers ==
  /\ \A u \in Unit : u \in Nat /\ Ptr(u) = start + (4 * u) /\ Ptr(u) \in Prototype!Address
  /\ \A u, v \in Unit : Ptr(u) = Ptr(v) => u = v
  /\ \A a \in Prototype!Address : \E u \in Unit : a = Ptr(u)
<1>1. Size[0] \in Nat \ {0} /\ Levels - 1 \in Level /\ Size[Levels - 1] = 1 /\ start \in Nat
  BY Sizes, BuddyAssumption, Minimum DEF Level
<1>2. ASSUME NEW u \in Unit
      PROVE  u \in Nat /\ Ptr(u) = start + (4 * u)
  BY <1>1, Minimum DEF Unit, Ptr, Bytes
<1>3. Prototype!Address = {Prototype!get_pointer(Levels - 1, i) : i \in 0..(Size[0] - 1)}
  BY SameLevels, Minimum DEF Prototype!Address
<1>4. \A i \in 0..(Size[0] - 1) : Prototype!get_pointer(Levels - 1, i) = start + (4 * i)
  <2>1. Prototype!level_to_block_size(Levels - 1) = 4
    BY <1>1, SameLevels
  <2>2. QED BY <2>1, <1>1 DEF Prototype!get_pointer
<1>5. \A u \in Unit : Ptr(u) \in Prototype!Address
  BY <1>2, <1>3, <1>4 DEF Unit
<1>6. \A a \in Prototype!Address : \E u \in Unit : a = Ptr(u)
  BY <1>2, <1>3, <1>4 DEF Unit
<1>7. ASSUME NEW u \in Unit, NEW v \in Unit, Ptr(u) = Ptr(v) PROVE u = v
  BY <1>1, <1>2, <1>7
<1>8. QED BY <1>2, <1>5, <1>6, <1>7

\* get_index() of an address is the index of the block that its unit lies in.
LEMMA SameIndices ==
  ASSUME NEW u \in Unit, NEW l \in Level
  PROVE  Prototype!get_index(l, Ptr(u)) = u \div Size[l]
<1>1. u \in Nat /\ Ptr(u) = start + (4 * u) /\ start \in Nat
  BY Pointers, Minimum
<1>2. Prototype!level_to_block_size(l) = 4 * Size[l]
  BY SameLevels
<1> DEFINE s == Size[l]
<1>3. s \in Nat \ {0} /\ (start + (4 * u)) - start = 4 * u
  BY Sizes, <1>1
<1> HIDE DEF s
<1>4. (4 * u) \div (4 * s) = u \div s
  <2> DEFINE q == u \div s
             r == u % s
  <2>1. q \in Nat /\ r \in 0..(s - 1) /\ u = (q * s) + r
    BY <1>1, <1>3, Division
  <2> HIDE DEF q, r
  <2> DEFINE t == 4 * s
             e == 4 * r
  <2>2. 4 * u = (q * t) + e /\ t \in Nat \ {0} /\ e \in 0..(t - 1)
    BY <2>1, <1>3
  <2> HIDE DEF t, e
  <2>3. ((q * t) + e) \div t = q
    BY <2>1, <2>2, Quotient
  <2>4. QED BY <2>2, <2>3 DEF t, q
<1>5. QED BY <1>1, <1>2, <1>3, <1>4 DEF s, Prototype!get_index

\* get_pointer() of a block is the address where the block starts.
LEMMA SamePointers ==
  ASSUME NEW b \in Block
  PROVE  Prototype!get_pointer(b[1], b[2]) = Ptr(Start(b))
<1>1. b[1] \in Level /\ b[2] \in Nat /\ Start(b) \in Unit /\ b[2] * Size[b[1]] = Start(b)
  BY BlockIndices
<1>2. Prototype!level_to_block_size(b[1]) = 4 * Size[b[1]] /\ Size[b[1]] \in Nat
  BY <1>1, SameLevels, Sizes
<1>3. Ptr(Start(b)) = start + (4 * Start(b)) /\ start \in Nat
  BY <1>1, Pointers, Minimum
<1> DEFINE s == Size[b[1]]
           i == b[2]
           t == Start(b)
<1>4. i \in Nat /\ s \in Nat /\ i * s = t
  BY <1>1, <1>2
<1> HIDE DEF s, i, t
<1>5. i * (4 * s) = 4 * t
  <2>1. i * (4 * s) = 4 * (i * s)
    BY <1>4
  <2>2. QED BY <2>1, <1>4
<1>6. i * (4 * s) + start = start + (4 * t)
  BY <1>3, <1>4, <1>5
<1>7. QED BY <1>2, <1>3, <1>6 DEF Prototype!get_pointer, s, i, t

\* Every block has a place of its own among the statuses.
LEMMA OwnIds ==
  /\ \A b \in Block : IdOf(b) \in Ids
  /\ \A b, c \in Block : IdOf(b) = IdOf(c) => b = c
<1>1. ASSUME NEW b \in Block
      PROVE  /\ b[1] \in Nat /\ b[2] \in Nat /\ b[2] < 2 ^ b[1] /\ b[1] + 1 \in Nat
             /\ IdOf(b) = 2 ^ b[1] + b[2] - 1
             /\ 2 ^ b[1] \in Nat /\ 2 ^ b[1] > 0 /\ 2 ^ (b[1] + 1) = 2 * 2 ^ b[1]
             /\ b[1] + 1 <= Levels /\ Levels \in Nat /\ b = <<b[1], b[2]>>
  <2>1. b[1] \in Level /\ b[2] \in Nat /\ b[2] < 2 ^ b[1] /\ b = <<b[1], b[2]>>
    BY BlockIndices
  <2>2. b[1] \in Nat /\ b[1] <= b[1] /\ b[1] + 1 <= Levels /\ Levels \in Nat /\ b[1] + 1 \in Nat
    BY <2>1, Sizes DEF Level
  <2>3. 2 ^ b[1] \in Nat /\ 2 ^ b[1] > 0 /\ 2 ^ (b[1] + 1) = 2 * 2 ^ b[1]
    BY <2>2, PowersGrow, PowerOfTwo
  <2>4. QED BY <2>1, <2>2, <2>3 DEF IdOf, Prototype!unique_id
<1>2. ASSUME NEW b \in Block
      PROVE  IdOf(b) \in Ids
  <2>1. 2 ^ (b[1] + 1) <= 2 ^ Levels /\ 2 ^ Levels \in Nat
    BY <1>1, PowersGrow
  <2> DEFINE p == 2 ^ b[1]
             q == 2 ^ (b[1] + 1)
             i == b[2]
             t == 2 ^ Levels
  <2>2. p \in Nat /\ p > 0 /\ q = 2 * p /\ i \in Nat /\ i < p /\ q <= t /\ t \in Nat /\ IdOf(b) = p + i - 1
    BY <1>1, <2>1
  <2> HIDE DEF p, q, i, t
  <2>3. p + i - 1 \in 0..(t - 2)
    BY <2>2
  <2>4. QED BY <2>2, <2>3 DEF t, Ids
<1>3. ASSUME NEW b \in Block, NEW c \in Block, b[1] < c[1]
      PROVE  IdOf(b) < IdOf(c)
  <2>1. b[1] + 1 <= c[1]
    BY <1>1, <1>3
  <2>2. 2 ^ (b[1] + 1) <= 2 ^ c[1]
    BY <1>1, <2>1, PowersGrow
  <2> DEFINE p == 2 ^ b[1]
             q == 2 ^ (b[1] + 1)
             i == b[2]
             t == 2 ^ c[1]
             j == c[2]
  <2>3. /\ p \in Nat /\ q = 2 * p /\ i \in Nat /\ i < p /\ q <= t /\ t \in Nat /\ j \in Nat
        /\ IdOf(b) = p + i - 1 /\ IdOf(c) = t + j - 1
    BY <1>1, <2>2
  <2> HIDE DEF p, q, i, t, j
  <2>4. p + i - 1 < t + j - 1
    BY <2>3
  <2>5. QED BY <2>3, <2>4
<1>4. ASSUME NEW b \in Block, NEW c \in Block, IdOf(b) = IdOf(c)
      PROVE  b = c
  <2>1. IdOf(b) \in Int /\ IdOf(c) \in Int
    <3>1. IdOf(b) \in Ids /\ IdOf(c) \in Ids
      BY <1>2
    <3>2. QED BY <3>1 DEF Ids
  <2>2. ~(b[1] < c[1]) /\ ~(c[1] < b[1])
    BY <1>3, <1>4, <2>1
  <2>3. b[1] = c[1]
    <3>1. \A x, y \in Nat : ~(x < y) /\ ~(y < x) => x = y
      OBVIOUS
    <3>2. QED BY <1>1, <2>2, <3>1
  <2> DEFINE p == 2 ^ b[1]
             i == b[2]
             j == c[2]
  <2>4. p \in Nat /\ i \in Nat /\ j \in Nat /\ p + i - 1 = p + j - 1
    BY <1>1, <1>4, <2>3
  <2> HIDE DEF p, i, j
  <2>5. i = j
    BY <2>4
  <2>6. QED BY <1>1, <2>3, <2>5 DEF i, j
<1>5. QED BY <1>2, <1>4

-----------------------------------------------------------------------------
(* The linked lists *)

\* What a pointer of a free block, and one in memory that is anything, can be.
Optional == Prototype!Address \cup {Nil}
Pointer == Optional \cup {Uninitialized}

\* The pointer to what is at a place of a list.
At(list, i) == IF i \in 1..Len(list) THEN Ptr(list[i]) ELSE Nil

\* The blocks of a list point to the ones before and after them.
Chain(first, prev, next, list) ==
  /\ first = At(list, 1)
  /\ \A i \in 1..Len(list) :
       next[Ptr(list[i])] = At(list, i + 1) /\ prev[Ptr(list[i])] = At(list, i - 1)

\* A block was put in front of a list, whose first may not know it.
LooseChain(first, prev, next, list, u, known) ==
  /\ first = Ptr(u) /\ next[Ptr(u)] = At(list, 1) /\ prev[Ptr(u)] = Nil
  /\ \A i \in 1..Len(list) :
       /\ next[Ptr(list[i])] = At(list, i + 1)
       /\ prev[Ptr(list[i])] = IF i = 1 THEN known ELSE At(list, i - 1)

\* A list does not have a unit.
NoneIs(list, u) == \A i \in 1..Len(list) : list[i] # u

\* What is at the places of a list, and past its ends.
LEMMA Places ==
  ASSUME NEW list \in Seq(Unit)
  PROVE  /\ Len(list) \in Nat
         /\ \A i \in 1..Len(list) : /\ list[i] \in Unit /\ At(list, i) = Ptr(list[i])
                                    /\ Ptr(list[i]) \in Prototype!Address
                                    /\ Ptr(list[i]) # Nil /\ Ptr(list[i]) # Uninitialized
         /\ \A i \in Int : i \notin 1..Len(list) => At(list, i) = Nil
         /\ \A i \in Int : At(list, i) \in Optional
<1>1. Len(list) \in Nat /\ \A i \in 1..Len(list) : list[i] \in Unit
  OBVIOUS
<1>2. \A u \in Unit : /\ Ptr(u) \in Prototype!Address
                      /\ Ptr(u) # Nil /\ Ptr(u) # Uninitialized
  BY Pointers, LockstepAssumption
<1>3. QED BY <1>1, <1>2 DEF At, Optional

\* set_prev_pointer() or set_next_pointer() was called.
IsSet(g, f, a, v) == g = Prototype!SetPointer(f, a, v)

\* It sets one pointer, or none.
LEMMA SetPointers ==
  ASSUME NEW f \in [Prototype!Address -> Pointer], NEW a \in Optional, NEW v \in Pointer,
         NEW g, IsSet(g, f, a, v)
  PROVE  /\ g \in [Prototype!Address -> Pointer]
         /\ g = [x \in Prototype!Address |-> IF x = a THEN v ELSE f[x]]
<1>1. Nil \notin Prototype!Address
  BY LockstepAssumption
<1>2. QED BY <1>1 DEF IsSet, Prototype!SetPointer, Optional

\* A list depends on the pointers in its own blocks only.
LEMMA ChainIsKept ==
  ASSUME NEW first, NEW prev, NEW next, NEW prev2, NEW next2, NEW list \in Seq(Unit),
         Chain(first, prev, next, list),
         \A i \in 1..Len(list) : /\ prev2[Ptr(list[i])] = prev[Ptr(list[i])]
                                 /\ next2[Ptr(list[i])] = next[Ptr(list[i])]
  PROVE  Chain(first, prev2, next2, list)
BY DEF Chain

\* What remove_block() does to the list it removes from.
LEMMA ChainGetsShorter ==
  ASSUME NEW first, NEW list \in Seq(Unit), IsInjective(list),
         NEW prev \in [Prototype!Address -> Pointer], NEW next \in [Prototype!Address -> Pointer],
         Chain(first, prev, next, list),
         NEW j \in 1..Len(list), NEW shorter, IsWithout(shorter, list, j),
         NEW before, before = At(list, j - 1), NEW after, after = At(list, j + 1)
  PROVE  Chain(IF before = Nil THEN after ELSE first, Prototype!SetPointer(prev, after, before),
               Prototype!SetPointer(next, before, after), shorter)
<1> DEFINE n == Len(list)
           prev2 == Prototype!SetPointer(prev, after, before)
           next2 == Prototype!SetPointer(next, before, after)
<1>1. n \in Nat /\ j \in 1..n /\ j \in Nat
  BY Places
<1>2. /\ \A i \in 1..n : /\ list[i] \in Unit /\ At(list, i) = Ptr(list[i])
                         /\ Ptr(list[i]) \in Prototype!Address /\ Ptr(list[i]) # Nil
      /\ \A i \in Int : i \notin 1..n => At(list, i) = Nil
      /\ \A i \in Int : At(list, i) \in Optional
  BY Places
<1>3. before \in Optional /\ after \in Optional
  BY <1>1, <1>2
<1>4. /\ \A x \in Prototype!Address : prev2[x] = IF x = after THEN before ELSE prev[x]
      /\ \A x \in Prototype!Address : next2[x] = IF x = before THEN after ELSE next[x]
  <2>1. before \in Pointer /\ after \in Pointer
    BY <1>3 DEF Pointer
  <2>2. IsSet(prev2, prev, after, before) /\ IsSet(next2, next, before, after)
    BY DEF IsSet
  <2> HIDE DEF prev2, next2
  <2>4. /\ prev2 = [x \in Prototype!Address |-> IF x = after THEN before ELSE prev[x]]
        /\ next2 = [x \in Prototype!Address |-> IF x = before THEN after ELSE next[x]]
    BY <1>3, <2>1, <2>2, SetPointers
  <2>3. QED BY <2>4
<1>5. \A i, k \in 1..n : Ptr(list[i]) = Ptr(list[k]) => i = k
  <2>1. ASSUME NEW i \in 1..n, NEW k \in 1..n, Ptr(list[i]) = Ptr(list[k]) PROVE i = k
    <3>1. list[i] = list[k]
      BY <1>2, <2>1, Pointers
    <3>2. DOMAIN list = 1..n
      OBVIOUS
    <3>3. QED BY <3>1, <3>2 DEF IsInjective
  <2>2. QED BY <2>1
<1>6. \A i \in 1..n : /\ Ptr(list[i]) = after <=> i = j + 1
                      /\ Ptr(list[i]) = before <=> i = j - 1
  BY <1>1, <1>2, <1>5
<1>7. /\ first = At(list, 1)
      /\ \A i \in 1..n : next[Ptr(list[i])] = At(list, i + 1) /\ prev[Ptr(list[i])] = At(list, i - 1)
  BY DEF Chain
<1>8. /\ shorter \in Seq(Unit) /\ Len(shorter) = n - 1
      /\ \A i \in 1..(n - 1) : shorter[i] = IF i < j THEN list[i] ELSE list[i + 1]
  BY DEF IsWithout
<1>9. \A i \in Int : At(shorter, i) = IF i < j THEN At(list, i) ELSE At(list, i + 1)
  <2>1. ASSUME NEW i \in Int
        PROVE  At(shorter, i) = IF i < j THEN At(list, i) ELSE At(list, i + 1)
    <3>1. CASE i \in 1..(n - 1)
      <4>1. i \in 1..n /\ i + 1 \in 1..n /\ i \in 1..Len(shorter)
        BY <1>1, <1>8, <3>1
      <4>2. At(shorter, i) = Ptr(shorter[i])
        BY <4>1 DEF At
      <4>3. QED BY <1>2, <1>8, <3>1, <4>1, <4>2
    <3>2. CASE i \notin 1..(n - 1)
      <4>1. At(shorter, i) = Nil
        BY <1>8, <3>2 DEF At
      <4>2. i < j => i \notin 1..n
        BY <1>1, <3>2
      <4>3. ~(i < j) => i + 1 \notin 1..n
        BY <1>1, <3>2
      <4>4. QED BY <1>2, <4>1, <4>2, <4>3
    <3>3. QED BY <3>1, <3>2
  <2>2. QED BY <2>1
<1> HIDE DEF n, prev2, next2
<1>10. (IF before = Nil THEN after ELSE first) = At(shorter, 1)
  <2>1. CASE j = 1
    <3>1. before = Nil /\ after = At(list, 2)
      BY <1>1, <1>2, <2>1 DEF n
    <3>2. QED BY <1>9, <2>1, <3>1
  <2>2. CASE j # 1
    <3>1. j - 1 \in 1..n /\ 1 < j
      BY <1>1, <2>2
    <3>2. before # Nil
      BY <1>2, <3>1
    <3>3. QED BY <1>7, <1>9, <3>1, <3>2
  <2>3. QED BY <2>1, <2>2
<1>11. ASSUME NEW i \in 1..(n - 1)
       PROVE  next2[Ptr(shorter[i])] = At(shorter, i + 1) /\ prev2[Ptr(shorter[i])] = At(shorter, i - 1)
  <2>0. i \in 1..n /\ i + 1 \in 1..n /\ i \in Int /\ i - 1 \in Int
    BY <1>1
  <2>1. CASE i < j
    <3>1. shorter[i] = list[i] /\ Ptr(list[i]) \in Prototype!Address
      BY <1>2, <1>8, <2>0, <2>1
    <3>2. Ptr(list[i]) # after
      BY <1>1, <1>6, <2>0, <2>1
    <3>3. prev2[Ptr(list[i])] = At(list, i - 1)
      BY <1>4, <1>7, <2>0, <3>1, <3>2
    <3>4. At(shorter, i - 1) = At(list, i - 1)
      BY <1>1, <1>9, <2>0, <2>1
    <3>5. CASE i = j - 1
      <4>1. next2[Ptr(list[i])] = after
        BY <1>4, <1>6, <2>0, <3>1, <3>5
      <4>2. At(shorter, i + 1) = after
        <5>1. i + 1 = j /\ i + 1 \in Int /\ ~(i + 1 < j) /\ (i + 1) + 1 = j + 1
          BY <1>1, <3>5
        <5>2. At(shorter, i + 1) = At(list, j + 1)
          BY <1>9, <5>1
        <5>3. QED BY <5>2
      <4>3. QED BY <3>1, <3>3, <3>4, <4>1, <4>2
    <3>6. CASE i # j - 1
      <4>1. next2[Ptr(list[i])] = At(list, i + 1)
        BY <1>4, <1>6, <1>7, <2>0, <3>1, <3>6
      <4>2. i + 1 \in Int /\ i + 1 < j
        BY <1>1, <2>1, <3>6
      <4>3. At(shorter, i + 1) = At(list, i + 1)
        BY <1>9, <4>2
      <4>4. QED BY <3>1, <3>3, <3>4, <4>1, <4>3
    <3>7. QED BY <3>5, <3>6
  <2>2. CASE ~(i < j)
    <3>1. shorter[i] = list[i + 1] /\ Ptr(list[i + 1]) \in Prototype!Address
      BY <1>2, <1>8, <2>0, <2>2
    <3>2. Ptr(list[i + 1]) # before
      <4>1. i + 1 # j - 1
        BY <1>1, <2>2
      <4>2. QED BY <1>6, <2>0, <4>1
    <3>3. next2[Ptr(list[i + 1])] = At(list, (i + 1) + 1)
      BY <1>4, <1>7, <2>0, <3>1, <3>2
    <3>4. At(shorter, i + 1) = At(list, (i + 1) + 1)
      <4>1. i + 1 \in Int /\ ~(i + 1 < j)
        BY <1>1, <2>2
      <4>2. QED BY <1>9, <4>1
    <3>5. CASE i = j
      <4>1. prev2[Ptr(list[i + 1])] = before
        BY <1>4, <1>6, <2>0, <3>1, <3>5
      <4>2. i - 1 < j /\ i - 1 = j - 1
        BY <1>1, <3>5
      <4>3. At(shorter, i - 1) = before
        BY <1>9, <2>0, <4>2
      <4>4. QED BY <3>1, <3>3, <3>4, <4>1, <4>3
    <3>6. CASE i # j
      <4>1. i + 1 # j + 1 /\ (i + 1) - 1 = i /\ ~(i - 1 < j) /\ (i - 1) + 1 = i
        BY <1>1, <2>2, <3>6
      <4>2. prev2[Ptr(list[i + 1])] = At(list, (i + 1) - 1)
        BY <1>4, <1>6, <1>7, <2>0, <3>1, <4>1
      <4>3. At(shorter, i - 1) = At(list, (i - 1) + 1)
        BY <1>9, <2>0, <4>1
      <4>4. QED BY <3>1, <3>3, <3>4, <4>1, <4>2, <4>3
    <3>7. QED BY <3>5, <3>6
  <2>3. QED BY <2>1, <2>2
<1>12. QED BY <1>8, <1>10, <1>11 DEF Chain, prev2, next2

-----------------------------------------------------------------------------
(* remove_block() and what is put in front of a list *)

\* The statuses and exceptions of the prototype.
PStatus == {"invalid", "split", "free", "used"}
Exception ==
  {"nothing", "ValueError", "WrongBlockStatus", "TypeError", "OutOfMemory", "InvalidPointer"}

\* What a Buddy object can be.
Object ==
  [free_lists : [Level -> Pointer],
   prev : [Prototype!Address -> Pointer],
   next : [Prototype!Address -> Pointer],
   block_statuses : [Ids -> PStatus],
   raised : Exception]

\* Its lists are these.
Linked(b, lists) == \A l \in Level : Chain(b.free_lists[l], b.prev, b.next, lists[l])

\* Its lists are these, but for a block that was put in front of one of them.
Loosely(b, lists, l, u, known) ==
  /\ LooseChain(b.free_lists[l], b.prev, b.next, lists[l], u, known)
  /\ \A k \in Level : k # l => Chain(b.free_lists[k], b.prev, b.next, lists[k])

\* No unit is in two places.
Apart(lists) ==
  \A k, l \in Level : \A i \in 1..Len(lists[k]), j \in 1..Len(lists[l]) :
    lists[k][i] = lists[l][j] => k = l /\ i = j

\* One function that is another at all but one argument.
IsUpdate(g, f, x, v) == g = [f EXCEPT ![x] = v]
\* A unit is at a place of a list.
IsPlace(u, list, i) == i \in 1..Len(list) /\ list[i] = u
\* remove_block() was called for the block of a level at a unit.
IsRemoved(c, b, l, u) == c = Prototype!remove_block(b, l, Ptr(u))

\* What is in some lists without something.
IsFewer(fewer, lists, u) ==
  \A k \in Level : \A i \in 1..Len(fewer[k]) :
    /\ fewer[k][i] # u
    /\ \E m \in 1..Len(lists[k]) : fewer[k][i] = lists[k][m]

\* No list has a unit twice when none is in two places.
LEMMA ApartIsInjective ==
  ASSUME NEW lists \in [Level -> Seq(Unit)], Apart(lists), NEW l \in Level
  PROVE  lists[l] \in Seq(Unit) /\ IsInjective(lists[l])
<1>1. lists[l] \in Seq(Unit) /\ DOMAIN lists[l] = 1..Len(lists[l])
  OBVIOUS
<1>2. QED BY <1>1 DEF Apart, IsInjective

\* Taking a unit out leaves none twice.
LEMMA WithoutIsApart ==
  ASSUME NEW lists \in [Level -> Seq(Unit)], Apart(lists), NEW l \in Level,
         NEW u, NEW j, IsPlace(u, lists[l], j),
         NEW shorter, IsWithout(shorter, lists[l], j),
         NEW fewer, IsUpdate(fewer, lists, l, shorter)
  PROVE  /\ fewer \in [Level -> Seq(Unit)]
         /\ Apart(fewer)
         /\ IsFewer(fewer, lists, u)
<1> DEFINE new == [lists EXCEPT ![l] = shorter]
           n == Len(lists[l])
<1>1. n \in Nat /\ lists[l] \in Seq(Unit) /\ j \in 1..n /\ lists[l][j] = u
  BY DEF IsPlace
<1>2. /\ shorter \in Seq(Unit) /\ Len(shorter) = n - 1
      /\ \A i \in 1..(n - 1) : shorter[i] = IF i < j THEN lists[l][i] ELSE lists[l][i + 1]
  BY DEF IsWithout
<1>3. /\ new \in [Level -> Seq(Unit)] /\ new[l] = shorter
      /\ \A k \in Level : k # l => new[k] = lists[k]
  BY <1>2
<1> DEFINE place(k, i) == IF k = l /\ ~(i < j) THEN i + 1 ELSE i
<1>4. ASSUME NEW k \in Level, NEW i \in 1..Len(new[k])
      PROVE  /\ place(k, i) \in 1..Len(lists[k]) /\ new[k][i] = lists[k][place(k, i)]
             /\ k = l => place(k, i) # j
  <2>1. CASE k = l
    <3>1. i \in 1..(n - 1)
      BY <1>2, <1>3, <2>1
    <3>2. i \in 1..n /\ i + 1 \in 1..n /\ (i < j => i # j) /\ (~(i < j) => i + 1 # j)
      BY <1>1, <3>1
    <3>3. QED BY <1>2, <1>3, <2>1, <3>1, <3>2
  <2>2. CASE k # l
    BY <1>3, <2>2
  <2>3. QED BY <2>1, <2>2
<1>5. ASSUME NEW k \in Level, NEW i \in 1..Len(new[k]), NEW m \in 1..Len(new[k]),
             place(k, i) = place(k, m)
      PROVE  i = m
  <2>1. i \in Int /\ m \in Int
    OBVIOUS
  <2>2. QED BY <2>1, <1>1, <1>5
<1> HIDE DEF new, n, place
<1>6. Apart(new)
  <2> SUFFICES ASSUME NEW k1 \in Level, NEW k2 \in Level, NEW i \in 1..Len(new[k1]),
                      NEW m \in 1..Len(new[k2]), new[k1][i] = new[k2][m]
               PROVE  k1 = k2 /\ i = m
    BY DEF Apart
  <2>1. lists[k1][place(k1, i)] = lists[k2][place(k2, m)]
    BY <1>4
  <2>2. k1 = k2 /\ place(k1, i) = place(k2, m)
    <3>1. place(k1, i) \in 1..Len(lists[k1]) /\ place(k2, m) \in 1..Len(lists[k2])
      BY <1>4
    <3>2. QED BY <2>1, <3>1 DEF Apart
  <2>3. QED BY <1>5, <2>2
<1>7. ASSUME NEW k \in Level, NEW i \in 1..Len(new[k])
      PROVE  new[k][i] # u /\ \E m \in 1..Len(lists[k]) : new[k][i] = lists[k][m]
  <2>1. place(k, i) \in 1..Len(lists[k]) /\ new[k][i] = lists[k][place(k, i)] /\ (k = l => place(k, i) # j)
    BY <1>4
  <2>2. lists[k][place(k, i)] # lists[l][j]
    BY <1>1, <2>1 DEF Apart, n
  <2>3. QED BY <1>1, <2>1, <2>2
<1>8. fewer = new
  BY DEF IsUpdate, new
<1>10. IsFewer(fewer, lists, u)
  BY <1>7, <1>8 DEF IsFewer
<1>9. QED BY <1>3, <1>6, <1>8, <1>10

\* remove_block() of a block that is in a list takes it out of the list.
LEMMA Removal ==
  ASSUME NEW b \in Object, NEW lists \in [Level -> Seq(Unit)], Apart(lists), Linked(b, lists),
         NEW l \in Level, NEW u, NEW j, IsPlace(u, lists[l], j),
         NEW shorter, IsWithout(shorter, lists[l], j),
         NEW fewer, IsUpdate(fewer, lists, l, shorter), NEW c, IsRemoved(c, b, l, u)
  PROVE  /\ c \in Object /\ c.raised = b.raised /\ c.block_statuses = b.block_statuses
         /\ Linked(c, fewer)
<1> DEFINE list == lists[l]
           ptr == Ptr(list[j])
<1>1. PICK before : before = At(list, j - 1)
  OBVIOUS
<1>2. PICK after : after = At(list, j + 1)
  OBVIOUS
<1>3. list \in Seq(Unit) /\ IsInjective(list) /\ j \in 1..Len(list) /\ j \in Int /\ list[j] = u
  BY ApartIsInjective DEF IsPlace
<1>4. Chain(b.free_lists[l], b.prev, b.next, list)
  BY DEF Linked
<1>5. b.prev[ptr] = before /\ b.next[ptr] = after
  BY <1>1, <1>2, <1>3, <1>4 DEF Chain
<1>6. /\ before \in Optional /\ after \in Optional
      /\ before \in Pointer /\ after \in Pointer
      /\ Uninitialized \notin {before, after}
  <2>1. before \in Optional /\ after \in Optional
    <3>1. \A i \in Int : At(list, i) \in Optional
      BY <1>3, Places
    <3>2. QED BY <1>1, <1>2, <1>3, <3>1
  <2>2. Uninitialized \notin Optional
    BY LockstepAssumption DEF Optional
  <2>3. QED BY <2>1, <2>2 DEF Pointer
<1> DEFINE prev2 == Prototype!SetPointer(b.prev, after, before)
           next2 == Prototype!SetPointer(b.next, before, after)
           first == IF before = Nil THEN after ELSE b.free_lists[l]
<1>7. c = [b EXCEPT !.free_lists[l] = first, !.next = next2, !.prev = prev2]
  <2>1. c = [b EXCEPT !.free_lists[l] = IF before = Nil THEN after ELSE @,
                      !.next = Prototype!SetPointer(@, before, after),
                      !.prev = Prototype!SetPointer(@, after, before)]
    BY <1>3, <1>5, <1>6 DEF IsRemoved, Prototype!remove_block
  <2>2. QED BY <2>1
<1>8. /\ b.free_lists \in [Level -> Pointer]
      /\ b.prev \in [Prototype!Address -> Pointer] /\ b.next \in [Prototype!Address -> Pointer]
      /\ b.block_statuses \in [Ids -> PStatus] /\ b.raised \in Exception
  BY DEF Object
<1>9. /\ prev2 \in [Prototype!Address -> Pointer]
      /\ prev2 = [x \in Prototype!Address |-> IF x = after THEN before ELSE b.prev[x]]
      /\ next2 \in [Prototype!Address -> Pointer]
      /\ next2 = [x \in Prototype!Address |-> IF x = before THEN after ELSE b.next[x]]
  <2>1. PICK p \in [Prototype!Address -> Pointer] : p = b.prev
    BY <1>8
  <2>2. PICK n \in [Prototype!Address -> Pointer] : n = b.next
    BY <1>8
  <2>3. IsSet(prev2, p, after, before) /\ IsSet(next2, n, before, after)
    BY <2>1, <2>2 DEF IsSet
  <2> HIDE DEF prev2, next2
  <2>4. /\ prev2 \in [Prototype!Address -> Pointer]
        /\ prev2 = [x \in Prototype!Address |-> IF x = after THEN before ELSE p[x]]
    BY <1>6, <2>3, SetPointers
  <2>5. /\ next2 \in [Prototype!Address -> Pointer]
        /\ next2 = [x \in Prototype!Address |-> IF x = before THEN after ELSE n[x]]
    BY <1>6, <2>3, SetPointers
  <2>6. QED BY <2>1, <2>2, <2>4, <2>5
<1>10. first \in Pointer
  BY <1>6, <1>8
<1>11. Chain(first, prev2, next2, shorter)
  <2> HIDE DEF list
  <2>1. QED BY <1>1, <1>2, <1>3, <1>4, <1>8, ChainGetsShorter DEF list
<1> HIDE DEF prev2, next2, first, list
<1>12. /\ c \in Object /\ c.raised = b.raised /\ c.block_statuses = b.block_statuses
       /\ c.free_lists = [b.free_lists EXCEPT ![l] = first] /\ c.prev = prev2 /\ c.next = next2
  <2>1. PICK lists2 : lists2 = [b.free_lists EXCEPT ![l] = first]
    OBVIOUS
  <2>2. lists2 \in [Level -> Pointer]
    BY <1>8, <1>10, <2>1
  <2>3. c = [b EXCEPT !.free_lists = lists2, !.next = next2, !.prev = prev2]
    BY <1>7, <2>1
  <2>4. prev2 \in [Prototype!Address -> Pointer] /\ next2 \in [Prototype!Address -> Pointer]
    BY <1>9
  <2>5. QED BY <2>1, <2>2, <2>3, <2>4 DEF Object
<1>13. ASSUME NEW k \in Level, k # l
       PROVE  Chain(b.free_lists[k], prev2, next2, lists[k])
  <2>1. Chain(b.free_lists[k], b.prev, b.next, lists[k]) /\ lists[k] \in Seq(Unit)
    BY DEF Linked
  <2>2. ASSUME NEW i \in 1..Len(lists[k])
        PROVE  /\ prev2[Ptr(lists[k][i])] = b.prev[Ptr(lists[k][i])]
               /\ next2[Ptr(lists[k][i])] = b.next[Ptr(lists[k][i])]
    <3>1. Ptr(lists[k][i]) \in Prototype!Address /\ Ptr(lists[k][i]) # Nil /\ lists[k][i] \in Unit
      BY <2>1, Places
    <3>2. ASSUME NEW m \in Int PROVE Ptr(lists[k][i]) # At(list, m)
      <4>1. CASE m \in 1..Len(list)
        <5>1. At(list, m) = Ptr(list[m]) /\ list[m] \in Unit
          BY <4>1, <1>3, Places
        <5>2. lists[k][i] # list[m]
          BY <1>13, <4>1 DEF Apart, list
        <5>3. QED BY <3>1, <5>1, <5>2, Pointers
      <4>2. CASE m \notin 1..Len(list)
        BY <3>1, <4>2 DEF At
      <4>3. QED BY <4>1, <4>2
    <3>3. Ptr(lists[k][i]) # before /\ Ptr(lists[k][i]) # after
      <4>1. j - 1 \in Int /\ j + 1 \in Int
        BY <1>3
      <4>2. QED BY <1>1, <1>2, <3>2, <4>1 DEF list
    <3>4. QED BY <1>9, <3>1, <3>3
  <2>3. QED BY <2>1, <2>2, ChainIsKept
<1>14. ASSUME NEW k \in Level
       PROVE  Chain(c.free_lists[k], c.prev, c.next, [lists EXCEPT ![l] = shorter][k])
  <2>1. CASE k = l
    <3>1. c.free_lists[k] = first /\ [lists EXCEPT ![l] = shorter][k] = shorter
      BY <1>8, <1>12, <2>1
    <3>2. QED BY <1>11, <1>12, <3>1
  <2>2. CASE k # l
    <3>1. c.free_lists[k] = b.free_lists[k] /\ [lists EXCEPT ![l] = shorter][k] = lists[k]
      BY <1>8, <1>12, <2>2
    <3>2. QED BY <1>12, <1>13, <2>2, <3>1
  <2>3. QED BY <2>1, <2>2
<1>15. QED BY <1>12, <1>14 DEF Linked, IsUpdate

\* No list has a unit.
NoneIn(lists, u) == \A k \in Level : NoneIs(lists[k], u)

\* The blocks in the lists have other pointers than one that is in none.
LEMMA Different ==
  ASSUME NEW lists \in [Level -> Seq(Unit)], NEW u \in Unit, NoneIn(lists, u),
         NEW k \in Level, NEW i \in 1..Len(lists[k])
  PROVE  lists[k][i] \in Unit /\ Ptr(lists[k][i]) \in Prototype!Address /\ Ptr(lists[k][i]) # Ptr(u)
<1>1. lists[k] \in Seq(Unit)
  OBVIOUS
<1>2. lists[k][i] \in Unit /\ Ptr(lists[k][i]) \in Prototype!Address /\ lists[k][i] # u
  BY <1>1, Places DEF NoneIn, NoneIs
<1>3. QED BY <1>2, Pointers

\* Two places that have the same pointer are the same.
LEMMA SamePlace ==
  ASSUME NEW lists \in [Level -> Seq(Unit)], Apart(lists),
         NEW k \in Level, NEW i \in 1..Len(lists[k]), NEW l \in Level, NEW j \in 1..Len(lists[l]),
         Ptr(lists[k][i]) = Ptr(lists[l][j])
  PROVE  k = l /\ i = j
<1>1. lists[k] \in Seq(Unit) /\ lists[l] \in Seq(Unit)
  OBVIOUS
<1>2. lists[k][i] \in Unit /\ lists[l][j] \in Unit
  BY <1>1, Places
<1>3. lists[k][i] = lists[l][j]
  BY <1>2, Pointers
<1>4. QED BY <1>3 DEF Apart

\* remove_block() of the block that was put in front.
LEMMA LooseRemoval ==
  ASSUME NEW b \in Object, NEW lists \in [Level -> Seq(Unit)], Apart(lists),
         NEW l \in Level, NEW u \in Unit, NEW known, Loosely(b, lists, l, u, known),
         NoneIn(lists, u), NEW c, IsRemoved(c, b, l, u)
  PROVE  /\ c \in Object /\ c.raised = b.raised /\ c.block_statuses = b.block_statuses
         /\ Linked(c, lists)
<1>1. PICK after : after = At(lists[l], 1)
  OBVIOUS
<1>2. /\ b.free_lists \in [Level -> Pointer]
      /\ b.prev \in [Prototype!Address -> Pointer] /\ b.next \in [Prototype!Address -> Pointer]
      /\ b.block_statuses \in [Ids -> PStatus] /\ b.raised \in Exception
  BY DEF Object
<1>3. b.prev[Ptr(u)] = Nil /\ b.next[Ptr(u)] = after
  BY <1>1 DEF Loosely, LooseChain
<1>4. after \in Optional
  <2>1. lists[l] \in Seq(Unit) /\ 1 \in Int
    OBVIOUS
  <2>2. QED BY <1>1, <2>1, Places
<1>5. /\ after \in Pointer /\ Nil \in Pointer /\ Nil \in Optional
      /\ Uninitialized \notin {Nil, after} /\ Nil \notin Prototype!Address
  BY <1>4, LockstepAssumption DEF Optional, Pointer
<1>6. PICK prev2 : prev2 = [x \in Prototype!Address |-> IF x = after THEN Nil ELSE b.prev[x]]
  OBVIOUS
<1>7. prev2 \in [Prototype!Address -> Pointer]
  BY <1>2, <1>5, <1>6
<1>8. Prototype!SetPointer(b.prev, after, Nil) = prev2
  <2>1. PICK p \in [Prototype!Address -> Pointer] : p = b.prev
    BY <1>2
  <2>2. Nil \in Pointer
    BY <1>5
  <2>3. Prototype!SetPointer(p, after, Nil) = [x \in Prototype!Address |-> IF x = after THEN Nil ELSE p[x]]
    <3>1. PICK g : g = Prototype!SetPointer(p, after, Nil)
      OBVIOUS
    <3>2. IsSet(g, p, after, Nil)
      BY <3>1 DEF IsSet
    <3>3. g = [x \in Prototype!Address |-> IF x = after THEN Nil ELSE p[x]]
      BY <1>4, <2>2, <3>2, SetPointers
    <3>4. QED BY <3>1, <3>3
  <2>4. QED BY <1>6, <2>1, <2>3
<1>9. Prototype!SetPointer(b.next, Nil, after) = b.next
  BY DEF Prototype!SetPointer
<1>10. c = [b EXCEPT !.free_lists[l] = after, !.next = b.next, !.prev = prev2]
  <2>1. c = [b EXCEPT !.free_lists[l] = after,
                      !.next = Prototype!SetPointer(@, Nil, after),
                      !.prev = Prototype!SetPointer(@, after, Nil)]
    BY <1>3, <1>5 DEF IsRemoved, Prototype!remove_block
  <2>2. QED BY <1>8, <1>9, <2>1
<1>11. /\ c \in Object /\ c.raised = b.raised /\ c.block_statuses = b.block_statuses
       /\ c.free_lists = [b.free_lists EXCEPT ![l] = after] /\ c.prev = prev2 /\ c.next = b.next
  <2>1. PICK lists2 : lists2 = [b.free_lists EXCEPT ![l] = after]
    OBVIOUS
  <2>2. lists2 \in [Level -> Pointer]
    BY <1>2, <1>5, <2>1
  <2>3. c = [b EXCEPT !.free_lists = lists2, !.next = b.next, !.prev = prev2]
    BY <1>10, <2>1
  <2>4. QED BY <1>7, <2>1, <2>2, <2>3 DEF Object
<1>12. ASSUME NEW k \in Level, NEW i \in 1..Len(lists[k])
       PROVE  /\ Ptr(lists[k][i]) \in Prototype!Address
              /\ Ptr(lists[k][i]) = after <=> k = l /\ i = 1
  <2>1. lists[k] \in Seq(Unit) /\ lists[l] \in Seq(Unit)
    OBVIOUS
  <2>2. Ptr(lists[k][i]) \in Prototype!Address
    BY <2>1, Places
  <2>3. CASE 1 \in 1..Len(lists[l])
    <3>1. after = Ptr(lists[l][1])
      BY <1>1, <2>3 DEF At
    <3>2. QED BY <2>2, <2>3, <3>1, SamePlace
  <2>4. CASE 1 \notin 1..Len(lists[l])
    <3>1. after = Nil
      BY <1>1, <2>4 DEF At
    <3>2. ~(k = l /\ i = 1)
      BY <2>4
    <3>3. QED BY <1>5, <2>2, <3>1, <3>2
  <2>5. QED BY <2>3, <2>4
<1>13. ASSUME NEW k \in Level
       PROVE  Chain(c.free_lists[k], c.prev, c.next, lists[k])
  <2>1. CASE k = l
    <3>1. c.free_lists[k] = At(lists[k], 1)
      BY <1>1, <1>2, <1>11, <2>1
    <3>2. ASSUME NEW i \in 1..Len(lists[k])
          PROVE  /\ c.next[Ptr(lists[k][i])] = At(lists[k], i + 1)
                 /\ c.prev[Ptr(lists[k][i])] = At(lists[k], i - 1)
      <4>1. /\ b.next[Ptr(lists[k][i])] = At(lists[k], i + 1)
            /\ b.prev[Ptr(lists[k][i])] = IF i = 1 THEN known ELSE At(lists[k], i - 1)
        BY <2>1 DEF Loosely, LooseChain
      <4>2. i = 1 => At(lists[k], i - 1) = Nil
        BY DEF At
      <4>3. c.prev[Ptr(lists[k][i])] = IF i = 1 THEN Nil ELSE b.prev[Ptr(lists[k][i])]
        BY <1>6, <1>11, <1>12, <2>1
      <4>4. QED BY <1>11, <4>1, <4>2, <4>3
    <3>3. QED BY <3>1, <3>2 DEF Chain
  <2>2. CASE k # l
    <3>1. Chain(b.free_lists[k], b.prev, b.next, lists[k]) /\ lists[k] \in Seq(Unit)
      BY <2>2 DEF Loosely
    <3>2. \A i \in 1..Len(lists[k]) : /\ c.prev[Ptr(lists[k][i])] = b.prev[Ptr(lists[k][i])]
                                      /\ c.next[Ptr(lists[k][i])] = b.next[Ptr(lists[k][i])]
      BY <1>6, <1>11, <1>12, <2>2
    <3>3. Chain(b.free_lists[k], c.prev, c.next, lists[k])
      <4>1. PICK first, p, n, p2, n2 : /\ first = b.free_lists[k] /\ p = b.prev /\ n = b.next
                                       /\ p2 = c.prev /\ n2 = c.next
        OBVIOUS
      <4>2. Chain(first, p2, n2, lists[k])
        BY <3>1, <3>2, <4>1, ChainIsKept
      <4>3. QED BY <4>1, <4>2
    <3>4. c.free_lists[k] = b.free_lists[k]
      BY <1>2, <1>11, <2>2
    <3>5. QED BY <3>3, <3>4
  <2>3. QED BY <2>1, <2>2
<1>14. QED BY <1>11, <1>13 DEF Linked

\* A block that is in no list is put in front of one.
LEMMA Insertion ==
  ASSUME NEW b \in Object, NEW lists \in [Level -> Seq(Unit)], Apart(lists), Linked(b, lists),
         NEW l \in Level, NEW u \in Unit, NoneIn(lists, u), NEW known, NEW c,
         c.free_lists = [b.free_lists EXCEPT ![l] = Ptr(u)],
         c.next = [b.next EXCEPT ![Ptr(u)] = b.free_lists[l]],
         c.prev[Ptr(u)] = Nil,
         \A x \in Prototype!Address :
           x # Ptr(u) => c.prev[x] = IF x = b.free_lists[l] THEN known ELSE b.prev[x]
  PROVE  Loosely(c, lists, l, u, known)
<1>1. /\ b.free_lists \in [Level -> Pointer] /\ b.next \in [Prototype!Address -> Pointer]
      /\ Ptr(u) \in Prototype!Address /\ Nil \notin Prototype!Address
  BY Pointers, LockstepAssumption DEF Object
<1>2. \A k \in Level : Chain(b.free_lists[k], b.prev, b.next, lists[k])
  BY DEF Linked
<1>3. b.free_lists[l] = At(lists[l], 1)
  BY <1>2 DEF Chain
<1>4. ASSUME NEW k \in Level, NEW i \in 1..Len(lists[k])
      PROVE  /\ c.next[Ptr(lists[k][i])] = b.next[Ptr(lists[k][i])]
             /\ c.prev[Ptr(lists[k][i])] = IF k = l /\ i = 1 THEN known ELSE b.prev[Ptr(lists[k][i])]
  <2>1. Ptr(lists[k][i]) \in Prototype!Address /\ Ptr(lists[k][i]) # Ptr(u)
    BY Different
  <2>2. Ptr(lists[k][i]) = b.free_lists[l] <=> k = l /\ i = 1
    <3>1. CASE 1 \in 1..Len(lists[l])
      <4>1. b.free_lists[l] = Ptr(lists[l][1])
        BY <1>3, <3>1 DEF At
      <4>2. QED BY <3>1, <4>1, SamePlace
    <3>2. CASE 1 \notin 1..Len(lists[l])
      <4>1. b.free_lists[l] = Nil
        BY <1>3, <3>2 DEF At
      <4>2. ~(k = l /\ i = 1)
        BY <3>2
      <4>3. QED BY <1>1, <2>1, <4>1, <4>2
    <3>3. QED BY <3>1, <3>2
  <2>3. QED BY <1>1, <2>1, <2>2
<1>5. ASSUME NEW k \in Level, k # l
      PROVE  Chain(c.free_lists[k], c.prev, c.next, lists[k])
  <2>1. Chain(b.free_lists[k], b.prev, b.next, lists[k]) /\ lists[k] \in Seq(Unit)
    BY <1>2
  <2>2. \A i \in 1..Len(lists[k]) : /\ c.prev[Ptr(lists[k][i])] = b.prev[Ptr(lists[k][i])]
                                    /\ c.next[Ptr(lists[k][i])] = b.next[Ptr(lists[k][i])]
    BY <1>4, <1>5
  <2>3. Chain(b.free_lists[k], c.prev, c.next, lists[k])
    <3>1. PICK first, p, n, p2, n2 : /\ first = b.free_lists[k] /\ p = b.prev /\ n = b.next
                                     /\ p2 = c.prev /\ n2 = c.next
      OBVIOUS
    <3>2. Chain(first, p, n, lists[k])
      BY <2>1, <3>1
    <3>3. \A i \in 1..Len(lists[k]) : /\ p2[Ptr(lists[k][i])] = p[Ptr(lists[k][i])]
                                      /\ n2[Ptr(lists[k][i])] = n[Ptr(lists[k][i])]
      BY <2>2, <3>1
    <3>4. Chain(first, p2, n2, lists[k])
      <4>1. PICK list : list = lists[k]
        OBVIOUS
      <4>2. QED BY <2>1, <3>2, <3>3, <4>1, ChainIsKept
    <3>5. QED BY <3>1, <3>4
  <2>4. c.free_lists[k] = b.free_lists[k]
    BY <1>1, <1>5
  <2>5. QED BY <2>3, <2>4
<1>6. LooseChain(c.free_lists[l], c.prev, c.next, lists[l], u, known)
  <2>1. c.free_lists[l] = Ptr(u) /\ c.next[Ptr(u)] = At(lists[l], 1)
    BY <1>1, <1>3
  <2>2. \A i \in 1..Len(lists[l]) : /\ b.next[Ptr(lists[l][i])] = At(lists[l], i + 1)
                                    /\ b.prev[Ptr(lists[l][i])] = At(lists[l], i - 1)
    BY <1>2 DEF Chain
  <2>3. QED BY <1>4, <2>1, <2>2 DEF LooseChain
<1>7. QED BY <1>5, <1>6 DEF Loosely

\* What is put in front of a list.
LEMMA InFront ==
  ASSUME NEW list \in Seq(Unit), NEW u \in Unit
  PROVE  /\ <<u>> \o list \in Seq(Unit) /\ Len(<<u>> \o list) = Len(list) + 1
         /\ (<<u>> \o list)[1] = u
         /\ \A i \in 1..Len(list) : (<<u>> \o list)[i + 1] = list[i]
         /\ \A i \in 2..(Len(list) + 1) : (<<u>> \o list)[i] = list[i - 1]
         /\ \A i \in Int : At(<<u>> \o list, i) = IF i = 1 THEN Ptr(u) ELSE At(list, i - 1)
<1> DEFINE longer == <<u>> \o list
           n == Len(list)
<1>1. n \in Nat /\ longer \in Seq(Unit) /\ Len(longer) = n + 1 /\ longer[1] = u
  OBVIOUS
<1>2. \A i \in 1..n : longer[i + 1] = list[i]
  OBVIOUS
<1>3. \A i \in 2..(n + 1) : longer[i] = list[i - 1]
  <2>1. ASSUME NEW i \in 2..(n + 1) PROVE longer[i] = list[i - 1]
    <3>1. i - 1 \in 1..n /\ (i - 1) + 1 = i
      BY <1>1
    <3> HIDE DEF longer, n
    <3>2. longer[(i - 1) + 1] = list[i - 1]
      BY <1>2, <3>1
    <3>3. QED BY <3>1, <3>2
  <2>2. QED BY <2>1
<1> HIDE DEF longer, n
<1>4. ASSUME NEW i \in Int
      PROVE  At(longer, i) = IF i = 1 THEN Ptr(u) ELSE At(list, i - 1)
  <2>1. CASE i = 1
    BY <1>1, <2>1 DEF At
  <2>2. CASE i \in 2..(n + 1)
    <3>1. i - 1 \in 1..n /\ i \in 1..(n + 1) /\ i # 1
      BY <1>1, <2>2
    <3>2. QED BY <1>1, <1>3, <2>2, <3>1 DEF At, n
  <2>3. CASE i # 1 /\ i \notin 2..(n + 1)
    <3>1. i - 1 \notin 1..n /\ i \notin 1..(n + 1)
      BY <1>1, <2>3
    <3>2. QED BY <1>1, <2>3, <3>1 DEF At, n
  <2>4. QED BY <2>1, <2>2, <2>3
<1>5. QED BY <1>1, <1>2, <1>3, <1>4 DEF longer, n

\* When the first knows the block after all, or there was none, the list has one
\* block more.
LEMMA LooseEnds ==
  ASSUME NEW b, NEW lists \in [Level -> Seq(Unit)], NEW l \in Level, NEW u \in Unit, NEW known,
         Loosely(b, lists, l, u, known), known = Ptr(u) \/ lists[l] = <<>>,
         NEW more, IsUpdate(more, lists, l, <<u>> \o lists[l])
  PROVE  Linked(b, more)
<1> DEFINE list == lists[l]
           longer == <<u>> \o list
<1>1. list \in Seq(Unit) /\ Len(list) \in Nat
  OBVIOUS
<1>2. /\ longer \in Seq(Unit) /\ Len(longer) = Len(list) + 1 /\ longer[1] = u
      /\ \A i \in 2..(Len(list) + 1) : longer[i] = list[i - 1]
      /\ \A i \in Int : At(longer, i) = IF i = 1 THEN Ptr(u) ELSE At(list, i - 1)
  <2> HIDE DEF list
  <2>1. QED BY <1>1, InFront
<1>3. LooseChain(b.free_lists[l], b.prev, b.next, list, u, known)
  BY DEF Loosely
<1>4. list = <<>> => Len(list) = 0
  OBVIOUS
<1> HIDE DEF longer, list
<1>5. Chain(b.free_lists[l], b.prev, b.next, longer)
  <2>1. b.free_lists[l] = At(longer, 1)
    BY <1>2, <1>3 DEF LooseChain
  <2>2. ASSUME NEW i \in 1..Len(longer)
        PROVE  b.next[Ptr(longer[i])] = At(longer, i + 1) /\ b.prev[Ptr(longer[i])] = At(longer, i - 1)
    <3>1. CASE i = 1
      <4>1. At(longer, 2) = At(list, 1)
        BY <1>2
      <4>2. At(longer, 0) = Nil
        BY DEF At
      <4>3. QED BY <1>2, <1>3, <3>1, <4>1, <4>2 DEF LooseChain
    <3>2. CASE i # 1
      <4>1. /\ i \in 2..(Len(list) + 1) /\ i - 1 \in 1..Len(list) /\ i + 1 \in Int /\ i - 1 \in Int
            /\ i + 1 # 1 /\ (i + 1) - 1 = (i - 1) + 1
        BY <1>1, <1>2, <3>2
      <4>2. longer[i] = list[i - 1] /\ At(longer, i + 1) = At(list, (i - 1) + 1)
        BY <1>2, <4>1
      <4>3. /\ b.next[Ptr(list[i - 1])] = At(list, (i - 1) + 1)
            /\ b.prev[Ptr(list[i - 1])] = IF i - 1 = 1 THEN known ELSE At(list, (i - 1) - 1)
        BY <1>3, <4>1 DEF LooseChain
      <4>4. CASE i - 1 = 1
        <5>1. known = Ptr(u)
          <6>1. list # <<>>
            BY <1>4, <4>1
          <6>2. QED BY <6>1 DEF list
        <5>2. At(longer, i - 1) = Ptr(u)
          BY <1>2, <4>1, <4>4
        <5>3. QED BY <4>2, <4>3, <4>4, <5>1, <5>2
      <4>5. CASE i - 1 # 1
        <5>1. At(longer, i - 1) = At(list, (i - 1) - 1)
          BY <1>2, <4>1, <4>5
        <5>2. QED BY <4>2, <4>3, <4>5, <5>1
      <4>6. QED BY <4>4, <4>5
    <3>3. QED BY <3>1, <3>2
  <2>3. QED BY <2>1, <2>2 DEF Chain
<1>6. ASSUME NEW k \in Level
      PROVE  Chain(b.free_lists[k], b.prev, b.next, [lists EXCEPT ![l] = longer][k])
  <2>1. CASE k = l
    BY <1>5, <2>1
  <2>2. CASE k # l
    <3>1. Chain(b.free_lists[k], b.prev, b.next, lists[k])
      BY <2>2 DEF Loosely
    <3>2. QED BY <2>2, <3>1
  <2>3. QED BY <2>1, <2>2
<1>7. QED BY <1>6 DEF Linked, IsUpdate, longer, list

\* No unit is in two places when one that was in no list is put in front of one.
LEMMA InFrontIsApart ==
  ASSUME NEW lists \in [Level -> Seq(Unit)], Apart(lists), NEW l \in Level,
         NEW u \in Unit, NoneIn(lists, u),
         NEW more, IsUpdate(more, lists, l, <<u>> \o lists[l])
  PROVE  /\ more \in [Level -> Seq(Unit)]
         /\ Apart(more)
         /\ \A v : v # u /\ NoneIn(lists, v) => NoneIn(more, v)
<1> DEFINE list == lists[l]
           longer == <<u>> \o list
           new == [lists EXCEPT ![l] = longer]
<1>1. list \in Seq(Unit) /\ Len(list) \in Nat
  OBVIOUS
<1>2. /\ longer \in Seq(Unit) /\ Len(longer) = Len(list) + 1 /\ longer[1] = u
      /\ \A i \in 2..(Len(list) + 1) : longer[i] = list[i - 1]
  <2> HIDE DEF list
  <2>1. QED BY <1>1, InFront
<1> HIDE DEF longer
<1>3. /\ new \in [Level -> Seq(Unit)] /\ new[l] = longer
      /\ \A k \in Level : k # l => new[k] = lists[k]
  BY <1>2
<1> HIDE DEF new
<1> DEFINE IsNew(k, i) == k = l /\ i = 1
           place(k, i) == IF k = l THEN i - 1 ELSE i
<1>4. ASSUME NEW k \in Level, NEW i \in 1..Len(new[k])
      PROVE  IF IsNew(k, i) THEN new[k][i] = u
             ELSE place(k, i) \in 1..Len(lists[k]) /\ new[k][i] = lists[k][place(k, i)]
  <2>1. CASE k = l
    <3>1. i \in 1..(Len(list) + 1) /\ (i # 1 => i \in 2..(Len(list) + 1) /\ i - 1 \in 1..Len(list))
      BY <1>1, <1>2, <1>3, <2>1
    <3>2. QED BY <1>2, <1>3, <2>1, <3>1
  <2>2. CASE k # l
    BY <1>3, <2>2
  <2>3. QED BY <2>1, <2>2
<1>5. ASSUME NEW k \in Level, NEW i \in Int, NEW j \in Int, place(k, i) = place(k, j)
      PROVE  i = j
  BY <1>5
<1>6. ASSUME NEW k \in Level, NEW i \in 1..Len(new[k]), NEW v, NoneIn(lists, v), ~IsNew(k, i)
      PROVE  new[k][i] # v
  <2>1. place(k, i) \in 1..Len(lists[k]) /\ new[k][i] = lists[k][place(k, i)]
    BY <1>4, <1>6
  <2> HIDE DEF place
  <2>2. QED BY <2>1, <1>6 DEF NoneIn, NoneIs
<1>7. Apart(new)
  <2> SUFFICES ASSUME NEW k \in Level, NEW m \in Level, NEW i \in 1..Len(new[k]),
                      NEW j \in 1..Len(new[m]), new[k][i] = new[m][j]
               PROVE  k = m /\ i = j
    BY DEF Apart
  <2>0. new[k][i] = new[m][j]
    OBVIOUS
  <2>1. IsNew(k, i) <=> IsNew(m, j)
    <3>1. IsNew(k, i) => new[k][i] = u
      BY <1>4
    <3>2. IsNew(m, j) => new[m][j] = u
      BY <1>4
    <3> HIDE DEF IsNew
    <3>3. QED BY <1>6, <3>1, <3>2
  <2>2. CASE ~IsNew(k, i)
    <3>1. /\ place(k, i) \in 1..Len(lists[k]) /\ new[k][i] = lists[k][place(k, i)]
          /\ place(m, j) \in 1..Len(lists[m]) /\ new[m][j] = lists[m][place(m, j)]
      BY <1>4, <2>1, <2>2
    <3> HIDE DEF place
    <3>2. k = m /\ place(k, i) = place(m, j)
      <4>1. PICK p \in 1..Len(lists[k]) : p = place(k, i) /\ new[k][i] = lists[k][p]
        BY <3>1
      <4>2. PICK q \in 1..Len(lists[m]) : q = place(m, j) /\ new[m][j] = lists[m][q]
        BY <3>1
      <4>3. lists[k][p] = lists[m][q]
        BY <4>1, <4>2, <2>0
      <4>4. k = m /\ p = q
        BY <4>3 DEF Apart
      <4>5. QED BY <4>1, <4>2, <4>4
    <3>3. i \in Int /\ j \in Int
      OBVIOUS
    <3>4. QED BY <1>5, <3>2, <3>3
  <2>3. CASE IsNew(k, i)
    BY <2>1, <2>3
  <2>4. QED BY <2>2, <2>3
<1>8. ASSUME NEW v, v # u, NoneIn(lists, v)
      PROVE  NoneIn(new, v)
  <2> SUFFICES ASSUME NEW k \in Level, NEW i \in 1..Len(new[k]) PROVE new[k][i] # v
    BY DEF NoneIn, NoneIs
  <2>1. CASE IsNew(k, i)
    <3>1. new[k][i] = u
      BY <1>4, <2>1
    <3>2. QED BY <1>8, <3>1
  <2>2. CASE ~IsNew(k, i)
    BY <1>6, <1>8, <2>2
  <2>3. QED BY <2>1, <2>2
<1>9. more = new
  BY DEF IsUpdate, new, longer, list
<1>10. QED BY <1>3, <1>7, <1>8, <1>9

-----------------------------------------------------------------------------
(* split() *)

\* The prototype's name of a status.
Lower(s) ==
  IF s = "Invalid" THEN "invalid" ELSE IF s = "Split" THEN "split"
  ELSE IF s = "Free" THEN "free" ELSE "used"

\* The statuses of both are the same.
SameStatuses(f, statuses) == \A c \in Block : f[IdOf(c)] = Lower(statuses[c])

\* The object is what the statuses and lists of the kernel's allocator say.
Mirrors(b, statuses, lists) ==
  /\ b \in Object /\ b.raised = "nothing"
  /\ SameStatuses(b.block_statuses, statuses)
  /\ Linked(b, lists)

\* They stay so when one is set in both.
LEMMA StatusIsSet ==
  ASSUME NEW f \in [Ids -> PStatus], NEW statuses \in [Block -> Status],
         SameStatuses(f, statuses), NEW c \in Block, NEW s \in Status
  PROVE  /\ [f EXCEPT ![IdOf(c)] = Lower(s)] \in [Ids -> PStatus]
         /\ [statuses EXCEPT ![c] = s] \in [Block -> Status]
         /\ SameStatuses([f EXCEPT ![IdOf(c)] = Lower(s)], [statuses EXCEPT ![c] = s])
<1>1. Lower(s) \in PStatus
  BY DEF Lower, PStatus
<1>2. \A d \in Block : IdOf(d) \in Ids /\ (IdOf(d) = IdOf(c) => d = c)
  BY OwnIds
<1>3. ASSUME NEW d \in Block
      PROVE  [f EXCEPT ![IdOf(c)] = Lower(s)][IdOf(d)] = Lower([statuses EXCEPT ![c] = s][d])
  <2>1. f[IdOf(d)] = Lower(statuses[d])
    BY DEF SameStatuses
  <2>2. CASE d = c
    <3>1. [statuses EXCEPT ![c] = s][d] = s
      BY <2>2
    <3>2. [f EXCEPT ![IdOf(c)] = Lower(s)][IdOf(d)] = Lower(s)
      BY <1>2, <2>2
    <3>3. QED BY <3>1, <3>2
  <2>3. CASE d # c
    <3>1. [statuses EXCEPT ![c] = s][d] = statuses[d]
      BY <2>3
    <3>2. [f EXCEPT ![IdOf(c)] = Lower(s)][IdOf(d)] = f[IdOf(d)]
      BY <1>2, <2>3
    <3>3. QED BY <2>1, <3>1, <3>2
  <2>4. QED BY <2>2, <2>3
<1>4. QED BY <1>1, <1>2, <1>3 DEF SameStatuses

\* The two halves of a block at the address where it starts.
LEMMA HalvesOf ==
  ASSUME NEW u \in Unit, NEW l \in Level, l + 1 \in Level, u % Size[l] = 0
  PROVE  /\ u \div Size[l] \in Nat
         /\ BlockAt(u, l) = <<l, u \div Size[l]>>
         /\ BlockAt(u, l + 1) = <<l + 1, 2 * (u \div Size[l])>>
         /\ Buddy(BlockAt(u, l + 1)) = <<l + 1, 2 * (u \div Size[l]) + 1>>
         /\ BlockAt(u, l) \in Block /\ BlockAt(u, l + 1) \in Block
         /\ Buddy(BlockAt(u, l + 1)) \in Block
         /\ u % Size[l + 1] = 0
         /\ Start(BlockAt(u, l)) = u /\ Start(BlockAt(u, l + 1)) = u
<1> DEFINE s == Size[l + 1]
           i == u \div Size[l]
<1>1. s \in Nat \ {0} /\ Size[l] = 2 * s /\ l \in Nat /\ l + 1 # 0 /\ u \in Nat
  <2>1. l \in Nat /\ u \in Nat
    BY Sizes DEF Unit
  <2>2. l + 1 # 0 /\ (l + 1) - 1 = l
    BY <2>1
  <2>3. QED BY <2>1, <2>2, Sizes
<1>2. i \in Nat /\ BlockAt(u, l) = <<l, i>>
  BY Blocks
<1>3. u = (2 * i) * s
  <2>1. 2 * s \in Nat \ {0}
    BY <1>1
  <2>2. u = (u \div (2 * s)) * (2 * s) + (u % (2 * s))
    <3>1. PICK d \in Nat \ {0} : d = 2 * s
      BY <2>1
    <3>2. u = ((u \div d) * d) + (u % d)
      BY <1>1, Division
    <3>3. QED BY <3>1, <3>2
  <2>3. u = i * (2 * s)
    <3>1. u % (2 * s) = 0 /\ i = u \div (2 * s)
      BY <1>1
    <3> HIDE DEF i, s
    <3>2. i * (2 * s) \in Nat
      BY <1>1, <1>2
    <3>3. QED BY <2>2, <3>1, <3>2
  <2> HIDE DEF i, s
  <2>4. i * (2 * s) = (2 * i) * s
    BY <1>1, <1>2
  <2>5. QED BY <2>3, <2>4
<1>4. u \div s = 2 * i
  <2> HIDE DEF i, s
  <2> DEFINE q == 2 * i
  <2>1. q \in Nat /\ u = (q * s) + 0 /\ 0 \in 0..(s - 1)
    BY <1>1, <1>2, <1>3
  <2> HIDE DEF q
  <2>2. QED BY <1>1, <2>1, Quotient DEF q
<1>5. BlockAt(u, l + 1) = <<l + 1, 2 * i>>
  BY <1>4, Blocks DEF s
<1>6. Buddy(BlockAt(u, l + 1)) = <<l + 1, 2 * i + 1>>
  <2> HIDE DEF i, s
  <2>1. (2 * i) % 2 = 0
    BY <1>2
  <2>2. QED BY <1>5, <2>1 DEF Buddy
<1>7. Start(BlockAt(u, l)) = u
  BY Starts
<1>8. Start(BlockAt(u, l + 1)) = u
  BY <1>3, <1>5 DEF Start
<1>9. u % Size[l + 1] = 0
  <2>1. Start(BlockAt(u, l + 1)) % Size[l + 1] = 0
    BY Starts
  <2>2. QED BY <1>8, <2>1
<1>10. Buddy(BlockAt(u, l + 1)) \in Block
  <2>1. PICK v \in Unit : BlockAt(v, l + 1) = Buddy(BlockAt(u, l + 1))
    BY <1>1, Buddies
  <2>2. QED BY <2>1, Blocks
<1>11. BlockAt(u, l) \in Block /\ BlockAt(u, l + 1) \in Block
  BY Blocks
<1>12. QED BY <1>2, <1>5, <1>6, <1>7, <1>8, <1>9, <1>10, <1>11

\* What split() does to an empty list: the two halves are put into it.
ArePut(c, b, l, u, v) ==
  /\ c.free_lists = [b.free_lists EXCEPT ![l] = Ptr(u)]
  /\ c.next = [b.next EXCEPT ![Ptr(u)] = Ptr(v), ![Ptr(v)] = Nil]
  /\ c.prev = [b.prev EXCEPT ![Ptr(u)] = Nil, ![Ptr(v)] = Ptr(u)]

\* Two blocks are put into an empty list.
LEMMA TwoInFront ==
  ASSUME NEW b \in Object, NEW lists \in [Level -> Seq(Unit)], Apart(lists), Linked(b, lists),
         NEW l \in Level, lists[l] = <<>>, NEW u \in Unit, NEW v \in Unit, u # v,
         NoneIn(lists, u), NoneIn(lists, v), NEW c,
         ArePut(c, b, l, u, v),
         NEW more, IsUpdate(more, lists, l, <<u, v>>)
  PROVE  /\ more \in [Level -> Seq(Unit)]
         /\ Apart(more)
         /\ Linked(c, more)
<1> DEFINE new == [lists EXCEPT ![l] = <<u, v>>]
<1>1. <<u, v>> \in Seq(Unit) /\ Len(<<u, v>>) = 2 /\ <<u, v>>[1] = u /\ <<u, v>>[2] = v
  OBVIOUS
<1>2. /\ new \in [Level -> Seq(Unit)] /\ new[l] = <<u, v>>
      /\ \A k \in Level : k # l => new[k] = lists[k]
  BY <1>1
<1>3. /\ b.free_lists \in [Level -> Pointer] /\ b.next \in [Prototype!Address -> Pointer]
      /\ b.prev \in [Prototype!Address -> Pointer]
      /\ Ptr(u) \in Prototype!Address /\ Ptr(v) \in Prototype!Address /\ Ptr(u) # Ptr(v)
  BY Pointers DEF Object
<1> HIDE DEF new
<1>0. /\ c.free_lists = [b.free_lists EXCEPT ![l] = Ptr(u)]
      /\ c.next = [b.next EXCEPT ![Ptr(u)] = Ptr(v), ![Ptr(v)] = Nil]
      /\ c.prev = [b.prev EXCEPT ![Ptr(u)] = Nil, ![Ptr(v)] = Ptr(u)]
  BY DEF ArePut
<1>4. ASSUME NEW k \in Level, NEW m \in Level, NEW i \in 1..Len(new[k]), NEW j \in 1..Len(new[m]),
             new[k][i] = new[m][j]
      PROVE  k = m /\ i = j
  <2>1. \A n \in Level : n # l => \A p \in 1..Len(new[n]) : new[n][p] # u /\ new[n][p] # v
    BY <1>2 DEF NoneIn, NoneIs
  <2>2. \A p \in 1..Len(new[l]) : (p = 1 /\ new[l][p] = u) \/ (p = 2 /\ new[l][p] = v)
    BY <1>1, <1>2
  <2>3. CASE k = l /\ m = l
    BY <1>4, <2>2, <2>3
  <2>4. CASE (k = l /\ m # l) \/ (k # l /\ m = l)
    BY <1>4, <2>1, <2>2, <2>4
  <2>5. CASE k # l /\ m # l
    <3>1. new[k] = lists[k] /\ new[m] = lists[m]
      BY <1>2, <2>5
    <3>2. QED BY <1>4, <3>1 DEF Apart
  <2>6. QED BY <2>3, <2>4, <2>5
<1>5. Chain(c.free_lists[l], c.prev, c.next, <<u, v>>)
  <2>1. At(<<u, v>>, 0) = Nil /\ At(<<u, v>>, 1) = Ptr(u) /\ At(<<u, v>>, 2) = Ptr(v) /\ At(<<u, v>>, 3) = Nil
    BY <1>1 DEF At
  <2>2. c.free_lists[l] = Ptr(u)
    BY <1>0, <1>3
  <2>3. /\ c.next[Ptr(u)] = Ptr(v) /\ c.next[Ptr(v)] = Nil
        /\ c.prev[Ptr(u)] = Nil /\ c.prev[Ptr(v)] = Ptr(u)
    BY <1>0, <1>3
  <2>4. ASSUME NEW i \in 1..Len(<<u, v>>)
        PROVE  /\ c.next[Ptr(<<u, v>>[i])] = At(<<u, v>>, i + 1)
               /\ c.prev[Ptr(<<u, v>>[i])] = At(<<u, v>>, i - 1)
    <3>1. i = 1 \/ i = 2
      BY <1>1
    <3>2. CASE i = 1
      <4>1. i + 1 = 2 /\ i - 1 = 0 /\ <<u, v>>[i] = u
        BY <1>1, <3>2
      <4>2. QED BY <2>1, <2>3, <4>1
    <3>3. CASE i = 2
      <4>1. i + 1 = 3 /\ i - 1 = 1 /\ <<u, v>>[i] = v
        BY <1>1, <3>3
      <4>2. QED BY <2>1, <2>3, <4>1
    <3>4. QED BY <3>1, <3>2, <3>3
  <2>5. QED BY <2>1, <2>2, <2>4 DEF Chain
<1>6. ASSUME NEW k \in Level, k # l
      PROVE  Chain(c.free_lists[k], c.prev, c.next, lists[k])
  <2>1. Chain(b.free_lists[k], b.prev, b.next, lists[k]) /\ lists[k] \in Seq(Unit)
    BY DEF Linked
  <2>2. ASSUME NEW i \in 1..Len(lists[k])
        PROVE  /\ c.prev[Ptr(lists[k][i])] = b.prev[Ptr(lists[k][i])]
               /\ c.next[Ptr(lists[k][i])] = b.next[Ptr(lists[k][i])]
    <3>1. /\ Ptr(lists[k][i]) \in Prototype!Address
          /\ Ptr(lists[k][i]) # Ptr(u) /\ Ptr(lists[k][i]) # Ptr(v)
      BY Different
    <3>2. QED BY <1>0, <1>3, <3>1
  <2>3. c.free_lists[k] = b.free_lists[k]
    BY <1>0, <1>3, <1>6
  <2>4. PICK first, p, n, p2, n2, list : /\ first = b.free_lists[k] /\ p = b.prev /\ n = b.next
                                         /\ p2 = c.prev /\ n2 = c.next /\ list = lists[k]
    OBVIOUS
  <2>5. Chain(first, p2, n2, list)
    <3>1. Chain(first, p, n, list) /\ list \in Seq(Unit)
      BY <2>1, <2>4
    <3>2. \A i \in 1..Len(list) : p2[Ptr(list[i])] = p[Ptr(list[i])] /\ n2[Ptr(list[i])] = n[Ptr(list[i])]
      BY <2>2, <2>4
    <3>3. QED BY <3>1, <3>2, ChainIsKept
  <2>6. QED BY <2>3, <2>4, <2>5
<1>7. ASSUME NEW k \in Level
      PROVE  Chain(c.free_lists[k], c.prev, c.next, new[k])
  <2>1. CASE k = l
    BY <1>2, <1>5, <2>1
  <2>2. CASE k # l
    BY <1>2, <1>6, <2>2
  <2>3. QED BY <2>1, <2>2
<1>8. Apart(new)
  BY <1>4 DEF Apart
<1>9. Linked(c, new)
  BY <1>7 DEF Linked
<1>10. more = new
  BY DEF IsUpdate, new
<1>11. QED BY <1>2, <1>8, <1>9, <1>10

\* The tail of a list is the list without its first.
LEMMA TailIsWithout ==
  ASSUME NEW list \in Seq(Unit), list # <<>>
  PROVE  IsWithout(Tail(list), list, 1) /\ 1 \in 1..Len(list) /\ Head(list) = list[1]
<1>1. /\ Tail(list) \in Seq(Unit) /\ Len(Tail(list)) = Len(list) - 1 /\ Len(list) \in Nat
      /\ Len(list) # 0 /\ Head(list) = list[1]
  OBVIOUS
<1>2. ASSUME NEW i \in 1..(Len(list) - 1)
      PROVE  Tail(list)[i] = IF i < 1 THEN list[i] ELSE list[i + 1]
  <2>1. i \in 1..Len(Tail(list)) /\ ~(i < 1)
    BY <1>1
  <2>2. Tail(list)[i] = list[i + 1]
    BY <2>1
  <2>3. QED BY <2>1, <2>2
<1>3. QED BY <1>1, <1>2 DEF IsWithout

\* The first of a list was taken out of it.
FirstIsOut(c, b, lists, fewer, l, u) ==
  /\ u \in Unit /\ b.free_lists[l] = Ptr(u)
  /\ c \in Object /\ c.raised = b.raised /\ c.block_statuses = b.block_statuses
  /\ fewer \in [Level -> Seq(Unit)] /\ Apart(fewer) /\ Linked(c, fewer)
  /\ IsFewer(fewer, lists, u)

\* remove_block() of the first of a list takes it out.
LEMMA FirstRemoval ==
  ASSUME NEW b \in Object, NEW lists \in [Level -> Seq(Unit)], Apart(lists), Linked(b, lists),
         NEW l \in Level, NEW u, IsPlace(u, lists[l], 1),
         NEW fewer, IsUpdate(fewer, lists, l, Tail(lists[l])), NEW c, IsRemoved(c, b, l, u)
  PROVE  FirstIsOut(c, b, lists, fewer, l, u)
<1>1. lists[l] \in Seq(Unit) /\ lists[l] # <<>>
  BY DEF IsPlace
<1>2. PICK shorter, j : shorter = Tail(lists[l]) /\ j = 1
  OBVIOUS
<1>3. /\ IsWithout(shorter, lists[l], j) /\ IsPlace(u, lists[l], j)
      /\ j \in 1..Len(lists[l]) /\ lists[l][j] = u
  BY <1>1, <1>2, TailIsWithout DEF IsPlace
<1>4. IsUpdate(fewer, lists, l, shorter)
  BY <1>2
<1>5. /\ c \in Object /\ c.raised = b.raised /\ c.block_statuses = b.block_statuses
      /\ Linked(c, fewer)
  BY <1>3, <1>4, Removal
<1>6. fewer \in [Level -> Seq(Unit)] /\ Apart(fewer) /\ IsFewer(fewer, lists, u)
  BY <1>3, <1>4, WithoutIsApart
<1>9. u \in Unit /\ b.free_lists[l] = Ptr(u)
  <2>1. u \in Unit
    BY <1>1, <1>3, Places
  <2>2. b.free_lists[l] = At(lists[l], 1)
    BY DEF Linked, Chain
  <2>3. QED BY <1>2, <1>3, <2>1, <2>2 DEF At
<1>10. QED BY <1>5, <1>6, <1>9 DEF FirstIsOut

\* What was taken out is in no list, nor is what was in none.
LEMMA FewerHasNone ==
  ASSUME NEW lists, NEW fewer, NEW u, IsFewer(fewer, lists, u)
  PROVE  NoneIn(fewer, u) /\ \A v : NoneIn(lists, v) => NoneIn(fewer, v)
<1>1. NoneIn(fewer, u)
  BY DEF IsFewer, NoneIn, NoneIs
<1>8. ASSUME NEW v, NoneIn(lists, v) PROVE NoneIn(fewer, v)
  <2> SUFFICES ASSUME NEW k \in Level, NEW i \in 1..Len(fewer[k]) PROVE fewer[k][i] # v
    BY DEF NoneIn, NoneIs
  <2>1. PICK m \in 1..Len(lists[k]) : fewer[k][i] = lists[k][m]
    BY DEF IsFewer
  <2>2. QED BY <1>8, <2>1 DEF NoneIn, NoneIs
<1>9. QED BY <1>1, <1>8

\* What split() does to the statuses and the lists.
SplitStatuses(statuses, u, l) ==
  [statuses EXCEPT ![BlockAt(u, l)] = "Split", ![BlockAt(u, l + 1)] = "Free",
                   ![Buddy(BlockAt(u, l + 1))] = "Free"]

SplitLists(lists, u, l) ==
  [lists EXCEPT ![l] = Tail(lists[l]), ![l + 1] = <<u, Start(Buddy(BlockAt(u, l + 1)))>>]

\* split() of the first block of a level does the same to both.
LEMMA SplitMirrors ==
  ASSUME NEW b, NEW statuses \in [Block -> Status], NEW lists \in [Level -> Seq(Unit)],
         Mirrors(b, statuses, lists), Apart(lists),
         NEW l \in Level, l + 1 \in Level, lists[l + 1] = <<>>,
         NEW u, IsPlace(u, lists[l], 1), u % Size[l] = 0, statuses[BlockAt(u, l)] = "Free",
         NoneIn(lists, Start(Buddy(BlockAt(u, l + 1))))
  PROVE  /\ Mirrors(Prototype!SplitFirst(b, l), SplitStatuses(statuses, u, l), SplitLists(lists, u, l))
         /\ SplitStatuses(statuses, u, l) \in [Block -> Status]
         /\ SplitLists(lists, u, l) \in [Level -> Seq(Unit)]
         /\ Apart(SplitLists(lists, u, l))
<1>1. /\ b \in Object /\ b.raised = "nothing"
      /\ SameStatuses(b.block_statuses, statuses) /\ Linked(b, lists)
  BY DEF Mirrors
<1>2. PICK removed : removed = Prototype!remove_block(b, l, Ptr(u))
  OBVIOUS
<1>3. PICK lists1 : lists1 = [lists EXCEPT ![l] = Tail(lists[l])]
  OBVIOUS
<1>0. IsRemoved(removed, b, l, u) /\ IsUpdate(lists1, lists, l, Tail(lists[l]))
  BY <1>2, <1>3 DEF IsRemoved, IsUpdate
<1>4. /\ u \in Unit /\ b.free_lists[l] = Ptr(u)
      /\ removed \in Object /\ removed.raised = b.raised /\ removed.block_statuses = b.block_statuses
      /\ lists1 \in [Level -> Seq(Unit)] /\ Apart(lists1) /\ Linked(removed, lists1)
      /\ NoneIn(lists1, u) /\ \A w : NoneIn(lists, w) => NoneIn(lists1, w)
  <2>1. /\ u \in Unit /\ b.free_lists[l] = Ptr(u)
        /\ removed \in Object /\ removed.raised = b.raised /\ removed.block_statuses = b.block_statuses
        /\ lists1 \in [Level -> Seq(Unit)] /\ Apart(lists1) /\ Linked(removed, lists1)
        /\ IsFewer(lists1, lists, u)
    <3>1. FirstIsOut(removed, b, lists, lists1, l, u)
      BY <1>0, <1>1, FirstRemoval
    <3>2. QED BY <3>1 DEF FirstIsOut
  <2>2. NoneIn(lists1, u) /\ \A w : NoneIn(lists, w) => NoneIn(lists1, w)
    BY <2>1, FewerHasNone
  <2>3. QED BY <2>1, <2>2
<1>5. PICK p, q, r, i : /\ p = BlockAt(u, l) /\ q = BlockAt(u, l + 1)
                        /\ r = Buddy(BlockAt(u, l + 1)) /\ i = u \div Size[l]
  OBVIOUS
<1>6. /\ i \in Nat /\ p = <<l, i>> /\ q = <<l + 1, 2 * i>> /\ r = <<l + 1, 2 * i + 1>>
      /\ p \in Block /\ q \in Block /\ r \in Block /\ Start(p) = u /\ Start(q) = u
  BY <1>4, <1>5, HalvesOf
<1>7. PICK v : v = Start(r)
  OBVIOUS
<1>8. v \in Unit /\ v # u /\ NoneIn(lists1, v)
  <2>1. v \in Unit /\ BlockAt(v, l + 1) = r
    <3>1. Start(r) \in Unit /\ BlockAt(Start(r), r[1]) = r /\ r[1] = l + 1
      BY <1>6, BlockIndices
    <3>2. QED BY <1>7, <3>1
  <2>2. r # q
    BY <1>6
  <2>3. NoneIn(lists, v)
    BY <1>5, <1>7
  <2>4. QED BY <1>4, <1>5, <2>1, <2>2, <2>3
<1>9. /\ Prototype!get_index(l, b.free_lists[l]) = i
      /\ Prototype!get_pointer(l, i) = Ptr(u)
      /\ Prototype!get_pointer(l + 1, 2 * i + 1) = Ptr(v)
  <2>1. Prototype!get_index(l, Ptr(u)) = i
    BY <1>4, <1>5, SameIndices
  <2>2. Prototype!get_pointer(p[1], p[2]) = Ptr(u) /\ p[1] = l /\ p[2] = i
    BY <1>6, SamePointers
  <2>3. Prototype!get_pointer(r[1], r[2]) = Ptr(v) /\ r[1] = l + 1 /\ r[2] = 2 * i + 1
    BY <1>6, <1>7, SamePointers
  <2>4. QED BY <1>4, <2>1, <2>2, <2>3
<1>10. /\ Prototype!unique_id(l, i) = IdOf(p)
       /\ Prototype!unique_id(l + 1, 2 * i) = IdOf(q)
       /\ Prototype!unique_id(l + 1, 2 * i + 1) = IdOf(r)
  BY <1>6 DEF IdOf
<1>11. removed.free_lists[l + 1] = Nil
  <2>1. lists1[l + 1] = <<>>
    <3>1. l + 1 # l
      BY Sizes
    <3>2. QED BY <1>3, <3>1
  <2>2. removed.free_lists[l + 1] = At(lists1[l + 1], 1)
    BY <1>4 DEF Linked, Chain
  <2>3. QED BY <2>1, <2>2 DEF At
<1>12. b.block_statuses[IdOf(p)] = "free"
  BY <1>1, <1>5, <1>6 DEF SameStatuses, Lower
<1>13. PICK f3 : f3 = [b.block_statuses EXCEPT ![IdOf(p)] = "split", ![IdOf(q)] = "free",
                                               ![IdOf(r)] = "free"]
  OBVIOUS
<1>14. PICK prev2 : prev2 = [removed.prev EXCEPT ![Ptr(u)] = Nil, ![Ptr(v)] = Ptr(u)]
  OBVIOUS
<1>15. PICK next2 : next2 = [removed.next EXCEPT ![Ptr(u)] = Ptr(v), ![Ptr(v)] = Nil]
  OBVIOUS
<1>16. PICK heads : heads = [removed.free_lists EXCEPT ![l + 1] = Ptr(u)]
  OBVIOUS
<1>17. PICK c : c = Prototype!SplitFirst(b, l)
  OBVIOUS
<1>18. c = [removed EXCEPT !.free_lists = heads, !.prev = prev2, !.next = next2, !.block_statuses = f3]
  <2>1. c = Prototype!split(b, l, i)
    BY <1>1, <1>9, <1>17 DEF Prototype!SplitFirst
  <2>2. Prototype!SetPointer(prev2, Nil, Ptr(v)) = prev2
    BY DEF Prototype!SetPointer
  <2>3. c = [removed EXCEPT
             !.free_lists[l + 1] = Ptr(u),
             !.prev = Prototype!SetPointer([@ EXCEPT ![Ptr(u)] = Nil, ![Ptr(v)] = Ptr(u)],
                                 Nil, Ptr(v)),
             !.next = [@ EXCEPT ![Ptr(u)] = Ptr(v), ![Ptr(v)] = Nil],
             !.block_statuses = [@ EXCEPT ![IdOf(p)] = "split",
                                          ![IdOf(q)] = "free",
                                          ![IdOf(r)] = "free"]]
    <3>1. removed.raised = "nothing"
      BY <1>1, <1>4
    <3>2. QED BY <2>1, <3>1, <1>2, <1>9, <1>10, <1>11, <1>12 DEF Prototype!split
  <2>4. QED BY <2>2, <2>3, <1>4, <1>13, <1>14, <1>15, <1>16
<1>19. /\ removed.free_lists \in [Level -> Pointer] /\ removed.prev \in [Prototype!Address -> Pointer]
       /\ removed.next \in [Prototype!Address -> Pointer]
       /\ removed.block_statuses \in [Ids -> PStatus] /\ removed.raised \in Exception
  BY <1>4 DEF Object
<1>20. f3 \in [Ids -> PStatus] /\ SameStatuses(f3, SplitStatuses(statuses, u, l))
       /\ SplitStatuses(statuses, u, l) \in [Block -> Status]
  <2>1. PICK f0 : f0 = b.block_statuses
    OBVIOUS
  <2>2. f0 \in [Ids -> PStatus] /\ SameStatuses(f0, statuses)
    BY <1>1, <1>4, <1>19, <2>1
  <2>3. PICK f1, s1 : f1 = [f0 EXCEPT ![IdOf(p)] = Lower("Split")] /\ s1 = [statuses EXCEPT ![p] = "Split"]
    OBVIOUS
  <2>4. "Split" \in Status /\ "Free" \in Status /\ Lower("Split") = "split" /\ Lower("Free") = "free"
    BY DEF Status, Lower
  <2>5. f1 \in [Ids -> PStatus] /\ s1 \in [Block -> Status] /\ SameStatuses(f1, s1)
    BY <2>2, <2>3, <2>4, <1>6, StatusIsSet
  <2>6. PICK f2, s2 : f2 = [f1 EXCEPT ![IdOf(q)] = Lower("Free")] /\ s2 = [s1 EXCEPT ![q] = "Free"]
    OBVIOUS
  <2>7. f2 \in [Ids -> PStatus] /\ s2 \in [Block -> Status] /\ SameStatuses(f2, s2)
    BY <2>4, <2>5, <2>6, <1>6, StatusIsSet
  <2>8. PICK f, s : f = [f2 EXCEPT ![IdOf(r)] = Lower("Free")] /\ s = [s2 EXCEPT ![r] = "Free"]
    OBVIOUS
  <2>9. f \in [Ids -> PStatus] /\ s \in [Block -> Status] /\ SameStatuses(f, s)
    BY <2>4, <2>7, <2>8, <1>6, StatusIsSet
  <2>10. f = f3
    BY <2>1, <2>3, <2>4, <2>6, <2>8, <1>13
  <2>11. s = SplitStatuses(statuses, u, l)
    BY <2>3, <2>6, <2>8, <1>5 DEF SplitStatuses
  <2>12. QED BY <2>9, <2>10, <2>11
<1>21. Ptr(u) \in Pointer /\ Ptr(v) \in Pointer /\ Nil \in Pointer
  BY <1>4, <1>8, Pointers DEF Pointer, Optional
<1>22. /\ heads \in [Level -> Pointer] /\ prev2 \in [Prototype!Address -> Pointer]
       /\ next2 \in [Prototype!Address -> Pointer]
  BY <1>14, <1>15, <1>16, <1>19, <1>21
<1>23. /\ c \in Object /\ c.raised = "nothing" /\ c.block_statuses = f3
       /\ c.free_lists = heads /\ c.prev = prev2 /\ c.next = next2
  BY <1>1, <1>4, <1>18, <1>20, <1>22 DEF Object
<1>24. PICK more : more = [lists1 EXCEPT ![l + 1] = <<u, v>>]
  OBVIOUS
<1>25. more \in [Level -> Seq(Unit)] /\ Apart(more) /\ Linked(c, more)
  <2>1. PICK m \in Level : m = l + 1
    OBVIOUS
  <2>2. lists1[m] = <<>>
    <3>1. l + 1 # l
      BY Sizes
    <3>2. QED BY <1>3, <2>1, <3>1
  <2>3. ArePut(c, removed, m, u, v)
    BY <1>14, <1>15, <1>16, <1>23, <2>1 DEF ArePut
  <2>4. IsUpdate(more, lists1, m, <<u, v>>)
    BY <1>24, <2>1 DEF IsUpdate
  <2>5. QED BY <1>4, <1>8, <2>2, <2>3, <2>4, TwoInFront
<1>26. SplitLists(lists, u, l) = more
  BY <1>3, <1>5, <1>7, <1>24 DEF SplitLists
<1>27. QED BY <1>17, <1>20, <1>23, <1>25, <1>26 DEF Mirrors

-----------------------------------------------------------------------------
(* The walk of a list *)

\* Every block of a list points to the one after it.
NextChain(first, next, list) ==
  /\ first = At(list, 1)
  /\ \A i \in 1..Len(list) : next[Ptr(list[i])] = At(list, i + 1)

\* A list cannot have more than all the units.
LEMMA NoMoreThanAll ==
  ASSUME NEW list \in Seq(Unit), IsInjective(list)
  PROVE  Len(list) \in Nat /\ Len(list) <= Size[0]
<1> DEFINE n == Len(list)
<1>1. n \in Nat /\ list \in [1..n -> Unit] /\ Size[0] \in Nat /\ Size[0] > 0
  BY Sizes
<1>2. list \in Injection(1..n, Unit)
  BY <1>1 DEF Injection, IsInjective
<1> HIDE DEF n
<1>3. IsFiniteSet(Unit) /\ Cardinality(Unit) = Size[0]
  <2>1. 0 \in Int /\ Size[0] - 1 \in Int /\ ~(0 > Size[0] - 1) /\ Size[0] - 1 - 0 + 1 = Size[0]
    BY <1>1
  <2>2. QED BY <2>1, FS_Interval DEF Unit
<1>4. Cardinality(1..n) = n
  <2>1. 1 \in Int /\ n \in Int /\ (1 > n => n = 0) /\ n - 1 + 1 = n
    BY <1>1
  <2>2. QED BY <2>1, FS_Interval
<1>5. Cardinality(1..n) <= Cardinality(Unit)
  BY <1>2, <1>3, FS_Injection
<1>6. QED BY <1>1, <1>3, <1>4, <1>5 DEF n

\* The walk along the next pointers finds the list.
LEMMA WalkedList ==
  ASSUME NEW b, NEW l, NEW list \in Seq(Unit), IsInjective(list),
         NextChain(b.free_lists[l], b.next, list)
  PROVE  Prototype!FreeList(b, l) = [i \in 1..Len(list) |-> Ptr(list[i])]
<1> DEFINE n == Size[0]
           Next1(f, i) == IF i = 1 THEN b.free_lists[l]
                         ELSE IF f[i - 1] = Nil THEN Nil
                         ELSE b.next[f[i - 1]]
           S == {m \in 0..n : \E f : f = [i \in 1..m |-> Next1(f, i)]}
<1>1. n \in Nat /\ size \div Prototype!min_size = n
  BY Minimum, Sizes DEF Prototype!min_size
<1>2. n \in S
  <2>1. 0 \in S
    <3>1. PICK f : f = [i \in 1..0 |-> Nil]
      OBVIOUS
    <3>2. f = [i \in 1..0 |-> Next1(f, i)]
      BY <3>1
    <3>3. 0 \in 0..n
      BY <1>1
    <3> HIDE DEF Next1, n
    <3>4. \E g : g = [i \in 1..0 |-> Next1(g, i)]
      BY <3>2
    <3>5. QED BY <3>3, <3>4
  <2>2. ASSUME NEW m \in 0..(n - 1), m \in S PROVE m + 1 \in S
    <3>1. PICK f : f = [i \in 1..m |-> Next1(f, i)]
      BY <2>2
    <3>2. PICK g : g = [i \in 1..(m + 1) |-> IF i = m + 1 THEN Next1(f, m + 1) ELSE f[i]]
      OBVIOUS
    <3>3. m \in Nat /\ m + 1 \in 0..n
      BY <1>1
    <3>4. ASSUME NEW i \in 1..(m + 1) PROVE g[i] = Next1(g, i)
      <4>1. i # 1 => i - 1 \in 1..m /\ i - 1 # m + 1 /\ i - 1 \in 1..(m + 1)
        BY <3>3
      <4>2. i # 1 => g[i - 1] = f[i - 1]
        BY <3>2, <4>1
      <4>3. Next1(g, i) = Next1(f, i)
        BY <4>2
      <4>4. i # m + 1 => i \in 1..m
        BY <3>3
      <4> HIDE DEF Next1
      <4>5. i # m + 1 => f[i] = Next1(f, i)
        BY <3>1, <4>4
      <4>6. QED BY <3>2, <4>3, <4>5
    <3> HIDE DEF Next1
    <3>5. g = [i \in 1..(m + 1) |-> Next1(g, i)]
      BY <3>2, <3>4
    <3>6. QED BY <3>3, <3>5
  <2> HIDE DEF S, n
  <2>3. 0..n \subseteq S
    <3>1. n \in Nat
      BY <1>1
    <3>2. \A i \in 0..(n - 1) : i \in S => i + 1 \in S
      BY <2>2
    <3>3. QED BY <2>1, <3>1, <3>2, UpToAll, Zenon
  <2>4. QED BY <1>1, <2>3
<1> DEFINE walk[i \in 1..(size \div Prototype!min_size)] ==
             IF i = 1 THEN b.free_lists[l]
             ELSE IF walk[i - 1] = Nil THEN Nil
             ELSE b.next[walk[i - 1]]
<1>3. Prototype!FreeList(b, l) = [i \in {j \in DOMAIN walk : walk[j] # Nil} |-> walk[i]]
  BY DEF Prototype!FreeList
<1>4. walk = [i \in 1..n |-> Next1(walk, i)]
  BY <1>1, <1>2, Zenon
<1> HIDE DEF walk, S
<1>5. /\ Len(list) \in Nat
      /\ \A i \in 1..Len(list) : At(list, i) = Ptr(list[i]) /\ Ptr(list[i]) # Nil
      /\ \A i \in Int : i \notin 1..Len(list) => At(list, i) = Nil
  BY Places
<1>6. \A i \in 1..n : walk[i] = At(list, i)
  <2> DEFINE T == {m \in 0..n : m = 0 \/ walk[m] = At(list, m)}
  <2>1. 0 \in T
    BY <1>1
  <2>2. ASSUME NEW m \in 0..(n - 1), m \in T PROVE m + 1 \in T
    <3>1. m \in Nat /\ m + 1 \in 1..n /\ m + 1 \in 0..n /\ (m + 1) - 1 = m
      BY <1>1
    <3>2. walk[m + 1] = Next1(walk, m + 1)
      BY <3>1, <1>4
    <3>3. CASE m = 0
      <4>1. m + 1 = 1
        BY <3>3
      <4>2. walk[1] = At(list, 1)
        BY <4>1, <3>2 DEF NextChain
      <4>3. QED BY <4>1, <4>2, <3>1
    <3>4. CASE m # 0
      <4>1. walk[m] = At(list, m) /\ m + 1 # 1
        BY <2>2, <3>1, <3>4
      <4>2. walk[m + 1] = IF walk[m] = Nil THEN Nil ELSE b.next[walk[m]]
        BY <3>1, <3>2, <4>1
      <4>3. CASE m \in 1..Len(list)
        <5>1. walk[m] = Ptr(list[m]) /\ walk[m] # Nil
          BY <4>1, <4>3, <1>5
        <5>2. b.next[Ptr(list[m])] = At(list, m + 1)
          BY <4>3 DEF NextChain
        <5>3. QED BY <3>1, <4>2, <5>1, <5>2
      <4>4. CASE m \notin 1..Len(list)
        <5>1. m + 1 \notin 1..Len(list) /\ m \in Int /\ m + 1 \in Int
          BY <3>1, <3>4, <4>4, <1>5
        <5>2. At(list, m) = Nil /\ At(list, m + 1) = Nil
          BY <5>1, <4>4, <1>5
        <5>3. QED BY <3>1, <4>1, <4>2, <5>2
      <4>5. QED BY <4>3, <4>4
    <3>5. QED BY <3>3, <3>4
  <2> HIDE DEF T, n
  <2>3. 0..n \subseteq T
    BY <1>1, <2>1, <2>2, UpToAll
  <2>4. QED BY <1>1, <2>3 DEF T
<1>7. DOMAIN walk = 1..n
  BY <1>4
<1>8. Len(list) <= n
  BY NoMoreThanAll
<1> HIDE DEF n
<1>9. {j \in DOMAIN walk : walk[j] # Nil} = 1..Len(list)
  <2>1. \A j \in 1..n : walk[j] # Nil <=> j \in 1..Len(list)
    BY <1>1, <1>5, <1>6
  <2>2. 1..Len(list) \subseteq 1..n
    BY <1>1, <1>5, <1>8
  <2>3. QED BY <2>1, <2>2, <1>7
<1>10. \A i \in 1..Len(list) : walk[i] = Ptr(list[i])
  <2>1. 1..Len(list) \subseteq 1..n
    BY <1>1, <1>5, <1>8
  <2>2. QED BY <2>1, <1>5, <1>6
<1>11. QED BY <1>3, <1>9, <1>10

-----------------------------------------------------------------------------
(* The loop of alloc() *)

\* What a list has is free.
LEMMA ListedAreFree ==
  ASSUME NEW statuses, NEW lists \in [Level -> Seq(Unit)], IsListed(statuses, lists),
         NEW l \in Level, NEW i \in 1..Len(lists[l])
  PROVE  /\ lists[l][i] \in Unit /\ lists[l][i] % Size[l] = 0
         /\ statuses[BlockAt(lists[l][i], l)] = "Free"
<1>1. lists[l] \in Seq(Unit) /\ DOMAIN lists[l] = 1..Len(lists[l])
  OBVIOUS
<1>2. lists[l][i] \in Range(lists[l])
  BY <1>1 DEF Range
<1>3. QED BY <1>2 DEF IsListed, FreeStarts

\* What is in a used block is in no list.
LEMMA UsedIsInNone ==
  ASSUME NEW statuses \in [Block -> Status], IsTree(statuses),
         NEW lists \in [Level -> Seq(Unit)], IsListed(statuses, lists),
         NEW u \in Unit, NEW l \in Level, statuses[BlockAt(u, l)] = "Used"
  PROVE  NoneIn(lists, u)
<1> SUFFICES ASSUME NEW k \in Level, NEW i \in 1..Len(lists[k]), lists[k][i] = u PROVE FALSE
  BY DEF NoneIn, NoneIs
<1>1. statuses[BlockAt(u, k)] = "Free"
  BY ListedAreFree
<1>2. k < l => statuses[BlockAt(u, k)] = "Split"
  BY SplitAbove
<1>3. l < k => statuses[BlockAt(u, l)] = "Split"
  BY <1>1, SplitAbove
<1>4. k \in Nat /\ l \in Nat
  BY Sizes
<1>5. QED BY <1>1, <1>2, <1>3, <1>4

\* The lists of free blocks have no unit twice.
LEMMA ListedIsApart ==
  ASSUME NEW statuses \in [Block -> Status], IsTree(statuses),
         NEW lists \in [Level -> Seq(Unit)], IsListed(statuses, lists)
  PROVE  Apart(lists)
<1> SUFFICES ASSUME NEW k \in Level, NEW l \in Level,
                    NEW i \in 1..Len(lists[k]), NEW j \in 1..Len(lists[l]),
                    lists[k][i] = lists[l][j]
             PROVE  k = l /\ i = j
  BY DEF Apart
<1>1. PICK u \in Unit : u = lists[k][i]
  BY ListedAreFree
<1>2. statuses[BlockAt(u, k)] = "Free" /\ statuses[BlockAt(u, l)] = "Free"
  BY <1>1, ListedAreFree
<1>3. k < l => statuses[BlockAt(u, k)] = "Split"
  BY <1>2, SplitAbove
<1>4. l < k => statuses[BlockAt(u, l)] = "Split"
  BY <1>2, SplitAbove
<1>5. k \in Nat /\ l \in Nat
  BY Sizes
<1>6. k = l
  BY <1>2, <1>3, <1>4, <1>5
<1>7. lists[k] \in Seq(Unit) /\ DOMAIN lists[k] = 1..Len(lists[k]) /\ IsInjective(lists[k])
  BY DEF IsListed
<1>8. QED BY <1>6, <1>7 DEF IsInjective

\* The lists that a block is put in front of one of are without it, when none is
\* twice in what there is then.
LEMMA BehindIsApart ==
  ASSUME NEW lists \in [Level -> Seq(Unit)], NEW l \in Level, NEW u \in Unit,
         NEW more, IsUpdate(more, lists, l, <<u>> \o lists[l]), Apart(more)
  PROVE  Apart(lists) /\ NoneIn(lists, u)
<1>0. lists[l] \in Seq(Unit)
  OBVIOUS
<1>1. /\ Len(<<u>> \o lists[l]) = Len(lists[l]) + 1 /\ Len(lists[l]) \in Nat
      /\ (<<u>> \o lists[l])[1] = u
      /\ \A i \in 1..Len(lists[l]) : (<<u>> \o lists[l])[i + 1] = lists[l][i]
  BY <1>0, InFront
<1>2. more[l] = <<u>> \o lists[l] /\ \A k \in Level : k # l => more[k] = lists[k]
  BY DEF IsUpdate
<1> DEFINE place(k, i) == IF k = l THEN i + 1 ELSE i
<1>3. ASSUME NEW k \in Level, NEW i \in 1..Len(lists[k])
      PROVE  place(k, i) \in 1..Len(more[k]) /\ more[k][place(k, i)] = lists[k][i]
  <2>1. CASE k = l
    <3>1. i \in 1..Len(lists[l]) /\ i + 1 \in 1..(Len(lists[l]) + 1)
      BY <1>1, <2>1
    <3>2. QED BY <3>1, <2>1, <1>1, <1>2
  <2>2. CASE k # l
    BY <2>2, <1>2
  <2>3. QED BY <2>1, <2>2
<1>4. ASSUME NEW k \in Level, NEW j \in Level, NEW i \in 1..Len(lists[k]),
             NEW m \in 1..Len(lists[j]), lists[k][i] = lists[j][m]
      PROVE  k = j /\ i = m
  <2>1. k = j /\ place(k, i) = place(j, m)
    <3> HIDE DEF place
    <3>1. PICK x \in 1..Len(more[k]) : x = place(k, i) /\ more[k][x] = lists[k][i]
      BY <1>3
    <3>2. PICK y \in 1..Len(more[j]) : y = place(j, m) /\ more[j][y] = lists[j][m]
      BY <1>3
    <3>3. more[k][x] = more[j][y]
      BY <3>1, <3>2, <1>4
    <3>4. k = j /\ x = y
      BY <3>3 DEF Apart
    <3>5. QED BY <3>1, <3>2, <3>4
  <2>2. QED BY <2>1
<1>5. ASSUME NEW k \in Level, NEW i \in 1..Len(lists[k]) PROVE lists[k][i] # u
  <2>1. 1 \in 1..Len(more[l]) /\ more[l][1] = u
    BY <1>1, <1>2
  <2>2. ASSUME lists[k][i] = u PROVE FALSE
    <3>1. k = l /\ place(k, i) = 1
      <4> HIDE DEF place
      <4>1. PICK x \in 1..Len(more[k]) : x = place(k, i) /\ more[k][x] = lists[k][i]
        BY <1>3
      <4>2. more[k][x] = more[l][1]
        BY <4>1, <2>1, <2>2
      <4>3. k = l /\ x = 1
        BY <4>2, <2>1 DEF Apart
      <4>4. QED BY <4>1, <4>3
    <3>2. i + 1 = 1 /\ i \in Int /\ i > 0
      BY <3>1
    <3>3. QED BY <3>2
  <2>3. QED BY <2>2
<1>6. QED BY <1>4, <1>5 DEF Apart, NoneIn, NoneIs

\* The loop of alloc(), step by step.
AreSplits(steps, b, from, target) ==
  /\ steps[from] = b
  /\ \A l \in (from + 1)..target : steps[l] = Prototype!SplitFirst(steps[l - 1], l - 1)

\* There are such steps, and the last is what the loop makes.
LEMMA SplitDownSteps ==
  ASSUME NEW b, NEW from \in Nat, NEW target \in Nat, from <= target
  PROVE  \E steps : /\ AreSplits(steps, b, from, target)
                    /\ Prototype!SplitDown(b, from, target) = steps[target]
<1> DEFINE Step(f, l) == IF l = from THEN b ELSE Prototype!SplitFirst(f[l - 1], l - 1)
           n == target - from
           S == {m \in 0..n : \E f : f = [l \in from..(from + m) |-> Step(f, l)]}
<1>1. n \in Nat /\ from + n = target
  OBVIOUS
<1>2. n \in S
  <2>1. 0 \in S
    <3>1. PICK f : f = [l \in from..(from + 0) |-> b]
      OBVIOUS
    <3>2. f = [l \in from..(from + 0) |-> Step(f, l)]
      BY <3>1
    <3>3. 0 \in 0..n
      BY <1>1
    <3> HIDE DEF Step, n
    <3>4. \E g : g = [l \in from..(from + 0) |-> Step(g, l)]
      BY <3>2
    <3>5. QED BY <3>3, <3>4
  <2>2. ASSUME NEW m \in 0..(n - 1), m \in S PROVE m + 1 \in S
    <3>1. PICK f : f = [l \in from..(from + m) |-> Step(f, l)]
      BY <2>2
    <3>2. PICK g : g = [l \in from..(from + (m + 1)) |->
                          IF l = from + (m + 1) THEN Step(f, l) ELSE f[l]]
      OBVIOUS
    <3>3. m \in Nat /\ m + 1 \in 0..n
      BY <1>1
    <3>4. ASSUME NEW l \in from..(from + (m + 1)) PROVE g[l] = Step(g, l)
      <4>1. l # from => l - 1 \in from..(from + m) /\ l - 1 # from + (m + 1)
                        /\ l - 1 \in from..(from + (m + 1))
        BY <3>3
      <4>2. l # from => g[l - 1] = f[l - 1]
        BY <3>2, <4>1
      <4>3. Step(g, l) = Step(f, l)
        BY <4>2
      <4>4. l # from + (m + 1) => l \in from..(from + m)
        BY <3>3
      <4> HIDE DEF Step
      <4>5. l # from + (m + 1) => f[l] = Step(f, l)
        BY <3>1, <4>4
      <4>6. QED BY <3>2, <4>3, <4>5
    <3> HIDE DEF Step
    <3>5. g = [l \in from..(from + (m + 1)) |-> Step(g, l)]
      BY <3>2, <3>4
    <3>6. QED BY <3>3, <3>5
  <2> HIDE DEF S, n
  <2>3. 0..n \subseteq S
    BY <1>1, <2>1, <2>2, UpToAll
  <2>4. QED BY <1>1, <2>3
<1> DEFINE at[level \in from..target] ==
             IF level = from THEN b ELSE Prototype!SplitFirst(at[level - 1], level - 1)
<1>3. Prototype!SplitDown(b, from, target) = at[target]
  BY DEF Prototype!SplitDown
<1>4. at = [l \in from..target |-> Step(at, l)]
  BY <1>1, <1>2
<1> HIDE DEF at, S, n
<1>5. at[from] = b
  <2>1. from \in from..target
    OBVIOUS
  <2>2. QED BY <2>1, <1>4
<1>6. ASSUME NEW l \in (from + 1)..target
      PROVE  at[l] = Prototype!SplitFirst(at[l - 1], l - 1)
  <2>1. l \in from..target /\ l # from
    OBVIOUS
  <2>2. QED BY <2>1, <1>4
<1>7. AreSplits(at, b, from, target)
  BY <1>5, <1>6 DEF AreSplits
<1>8. QED BY <1>3, <1>7

\* There is one list without what is at a place of another.
LEMMA OneWithout ==
  ASSUME NEW list, NEW i, NEW a, IsWithout(a, list, i), NEW b, IsWithout(b, list, i)
  PROVE  a = b
<1>1. /\ a \in Seq(Unit) /\ b \in Seq(Unit) /\ Len(a) = Len(list) - 1 /\ Len(b) = Len(list) - 1
      /\ \A j \in 1..(Len(list) - 1) : a[j] = IF j < i THEN list[j] ELSE list[j + 1]
      /\ \A j \in 1..(Len(list) - 1) : b[j] = IF j < i THEN list[j] ELSE list[j + 1]
  BY DEF IsWithout
<1> DEFINE n == Len(list) - 1
<1>2. Len(a) = n /\ Len(b) = n /\ \A j \in 1..n : a[j] = b[j]
  BY <1>1
<1> HIDE DEF n
<1>3. Len(a) = Len(b) /\ \A j \in 1..Len(a) : a[j] = b[j]
  BY <1>2
<1>4. QED BY <1>1, <1>3

\* An address where a block starts is one where smaller ones do.
LEMMA AlignedBelow ==
  ASSUME NEW u \in Unit, NEW k \in Level, NEW l \in Level, k <= l, u % Size[k] = 0
  PROVE  u % Size[l] = 0 /\ Start(BlockAt(u, l)) = u
<1> DEFINE n == l - k
           S == {i \in 0..n : u % Size[k + i] = 0}
<1>1. k \in Nat /\ l \in Nat /\ n \in Nat /\ k + n = l /\ Levels \in Nat /\ Level = 0..(Levels - 1)
  BY Sizes DEF Level
<1>2. 0 \in S
  BY <1>1
<1>3. ASSUME NEW i \in 0..(n - 1), i \in S PROVE i + 1 \in S
  <2>1. /\ k + i \in Level /\ (k + i) + 1 \in Level /\ k + (i + 1) = (k + i) + 1
        /\ i + 1 \in 0..n /\ u % Size[k + i] = 0
    BY <1>1, <1>3
  <2>2. u % Size[(k + i) + 1] = 0
    BY <2>1, HalvesOf
  <2>3. QED BY <2>1, <2>2
<1> HIDE DEF S, n
<1>4. 0..n \subseteq S
  BY <1>1, <1>2, <1>3, UpToAll
<1>5. n \in S
  BY <1>1, <1>4
<1>6. u % Size[l] = 0
  BY <1>1, <1>5 DEF S
<1>7. QED BY <1>6, Starts

\* A free block that is the first of its list is split, down to a level, with
\* nothing in the lists in between.
CanSplit(statuses, lists, origin, from, target) ==
  /\ CanCarve(statuses, origin, from, target)
  /\ lists \in [Level -> Seq(Unit)] /\ IsListed(statuses, lists)
  /\ IsPlace(origin, lists[from], 1)
  /\ \A l \in (from + 1)..target : lists[l] = <<>>

\* What can be split down to a level can be split down to a higher one.
LEMMA CanSplitLess ==
  ASSUME NEW statuses, NEW lists, NEW origin, NEW from, NEW target,
         CanSplit(statuses, lists, origin, from, target), NEW k \in from..target
  PROVE  /\ CanSplit(statuses, lists, origin, from, k)
         /\ k \in Level /\ from \in Level /\ from \in Nat /\ target \in Level /\ target \in Nat
         /\ origin \in Unit
         /\ origin % Size[k] = 0
<1>1. /\ from \in Level /\ target \in Level /\ from \in Nat /\ target \in Nat
      /\ Levels \in Nat /\ Level = 0..(Levels - 1) /\ origin \in Unit
  BY Sizes DEF CanSplit, CanCarve, Level
<1>2. k \in Level /\ from <= k /\ k <= target /\ k \in Nat
  BY <1>1
<1>3. CanCarve(statuses, origin, from, k)
  BY <1>1, <1>2 DEF CanSplit, CanCarve
<1>4. \A l \in (from + 1)..k : l \in (from + 1)..target
  BY <1>1, <1>2
<1>5. CanSplit(statuses, lists, origin, from, k)
  BY <1>3, <1>4 DEF CanSplit
<1>6. origin % Size[from] = 0
  <2>1. 1 \in 1..Len(lists[from]) /\ lists[from][1] = origin
    BY DEF CanSplit, IsPlace
  <2>2. lists \in [Level -> Seq(Unit)] /\ IsListed(statuses, lists)
    BY DEF CanSplit
  <2>3. lists[from][1] % Size[from] = 0
    BY <2>1, <2>2, <1>1, ListedAreFree
  <2>4. QED BY <2>1, <2>3
<1>7. origin % Size[k] = 0
  BY <1>1, <1>2, <1>6, AlignedBelow
<1>8. QED BY <1>1, <1>2, <1>5, <1>7

\* The lists when a block was carved.
LEMMA CarvedTo ==
  ASSUME NEW statuses, NEW lists, NEW origin, NEW from, NEW target,
         CanSplit(statuses, lists, origin, from, target), NEW l \in Level
  PROVE  CarvedLists(lists, origin, from, target)[l] =
           IF l = from THEN Tail(lists[from])
           ELSE IF l \in (from + 1)..target THEN <<Start(Buddy(BlockAt(origin, l)))>>
           ELSE lists[l]
<1>1. /\ from \in Level /\ origin \in Unit /\ from \in from..target
      /\ lists \in [Level -> Seq(Unit)] /\ IsListed(statuses, lists)
      /\ IsPlace(origin, lists[from], 1)
      /\ \A k \in (from + 1)..target : lists[k] = <<>>
  BY Sizes DEF CanSplit, CanCarve
<1>2. origin % Size[from] = 0
  BY <1>1, CanSplitLess
<1>3. Start(BlockAt(origin, from)) = origin
  BY <1>1, <1>2, Starts
<1>4. RemoveFirst(lists[from], origin) = Tail(lists[from])
  <2>1. PICK list : list = lists[from]
    OBVIOUS
  <2>2. list \in Seq(Unit) /\ IsInjective(list) /\ 1 \in 1..Len(list) /\ list[1] = origin
    BY <1>1, <2>1 DEF IsListed, IsPlace
  <2>3. IsWithout(RemoveFirst(list, origin), list, 1)
    BY <2>2, RemovedFirst
  <2>4. list # <<>>
    BY <2>2
  <2>5. IsWithout(Tail(list), list, 1)
    BY <2>2, <2>4, TailIsWithout
  <2>6. RemoveFirst(list, origin) = Tail(list)
    BY <2>3, <2>5, OneWithout
  <2>7. QED BY <2>1, <2>6
<1>5. CarvedLists(lists, origin, from, target)[l] =
        IF l = from THEN RemoveFirst(lists[l], Start(BlockAt(origin, l)))
        ELSE IF l \in (from + 1)..target THEN <<Start(Buddy(BlockAt(origin, l)))>> \o lists[l]
        ELSE lists[l]
  BY DEF CarvedLists
<1>6. CASE l = from
  BY <1>3, <1>4, <1>5, <1>6
<1>7. CASE l # from /\ l \in (from + 1)..target
  <2>1. lists[l] = <<>>
    BY <1>1, <1>7
  <2>2. <<Start(Buddy(BlockAt(origin, l)))>> \o <<>> = <<Start(Buddy(BlockAt(origin, l)))>>
    OBVIOUS
  <2>3. QED BY <2>1, <2>2, <1>5, <1>7
<1>8. QED BY <1>5, <1>6, <1>7

\* What the loop of alloc() has come to at a level: the block that is to be
\* carved is still free there.
HalfStatuses(statuses, origin, from, k) ==
  [CarvedStatuses(statuses, origin, from, k) EXCEPT ![BlockAt(origin, k)] = "Free"]

HalfLists(lists, origin, from, k) ==
  [CarvedLists(lists, origin, from, k) EXCEPT
     ![k] = <<origin>> \o CarvedLists(lists, origin, from, k)[k]]

\* The statuses one level on.
LEMMA NextStatuses ==
  ASSUME NEW statuses, NEW origin \in Unit, NEW from \in Level, NEW k \in Level, from <= k,
         k + 1 \in Level
  PROVE  SplitStatuses(HalfStatuses(statuses, origin, from, k), origin, k) =
           HalfStatuses(statuses, origin, from, k + 1)
<1> DEFINE path(l) == BlockAt(origin, l)
           r == Buddy(BlockAt(origin, k + 1))
           half == HalfStatuses(statuses, origin, from, k)
<1>1. /\ from \in Nat /\ k \in Nat
      /\ path(k) \in Block /\ path(k + 1) \in Block /\ path(k)[1] = k /\ path(k + 1)[1] = k + 1
      /\ r[1] = k + 1
  BY Sizes, Blocks DEF Buddy
<1>2. half = [c \in Block |->
                IF c = path(k) THEN "Free"
                ELSE IF c[1] \in from..k /\ c = path(c[1]) THEN "Split"
                ELSE IF c[1] \in (from + 1)..k /\ c = Buddy(path(c[1])) THEN "Free"
                ELSE statuses[c]]
  BY DEF HalfStatuses, CarvedStatuses
<1>3. HalfStatuses(statuses, origin, from, k + 1) =
        [c \in Block |->
           IF c = path(k + 1) THEN "Free"
           ELSE IF c[1] \in from..(k + 1) /\ c = path(c[1]) THEN "Split"
           ELSE IF c[1] \in (from + 1)..(k + 1) /\ c = Buddy(path(c[1])) THEN "Free"
           ELSE statuses[c]]
  BY DEF HalfStatuses, CarvedStatuses
<1>4. SplitStatuses(half, origin, k) =
        [c \in Block |-> IF c = r THEN "Free" ELSE IF c = path(k + 1) THEN "Free"
                         ELSE IF c = path(k) THEN "Split" ELSE half[c]]
  <2>1. SplitStatuses(half, origin, k) =
          [half EXCEPT ![path(k)] = "Split", ![path(k + 1)] = "Free", ![r] = "Free"]
    BY DEF SplitStatuses
  <2> HIDE DEF half, path, r
  <2>2. DOMAIN half = Block
    BY <1>2
  <2>3. QED BY <2>1, <2>2, <1>2
<1> HIDE DEF half, r
<1>5. ASSUME NEW c \in Block
      PROVE  (IF c = r THEN "Free" ELSE IF c = path(k + 1) THEN "Free"
              ELSE IF c = path(k) THEN "Split" ELSE half[c]) =
             (IF c = path(k + 1) THEN "Free"
              ELSE IF c[1] \in from..(k + 1) /\ c = path(c[1]) THEN "Split"
              ELSE IF c[1] \in (from + 1)..(k + 1) /\ c = Buddy(path(c[1])) THEN "Free"
              ELSE statuses[c])
  <2>0. c[1] \in Nat
    BY BlockIndices, Sizes
  <2>1. CASE c[1] = k + 1
    <3>1. c # path(k) /\ c[1] \notin from..k /\ c[1] \notin (from + 1)..k
      BY <2>1, <1>1
    <3>2. half[c] = statuses[c]
      BY <3>1, <1>2
    <3>3. c = Buddy(path(c[1])) <=> c = r
      BY <2>1 DEF r
    <3>4. c[1] \in from..(k + 1) /\ c[1] \in (from + 1)..(k + 1) /\ (c = path(c[1]) <=> c = path(k + 1))
      BY <2>1, <1>1
    <3> HIDE DEF path
    <3>5. QED BY <3>1, <3>2, <3>3, <3>4
  <2>2. CASE c[1] # k + 1
    <3>1. c # r /\ c # path(k + 1)
      BY <2>2, <1>1
    <3>2. /\ c[1] \in from..k <=> c[1] \in from..(k + 1)
          /\ c[1] \in (from + 1)..k <=> c[1] \in (from + 1)..(k + 1)
      BY <2>0, <2>2, <1>1
    <3>3. c = path(k) => c[1] \in from..(k + 1) /\ c = path(c[1])
      BY <1>1
    <3> HIDE DEF path
    <3>4. QED BY <3>1, <3>2, <3>3, <1>2
  <2>3. QED BY <2>1, <2>2
<1> HIDE DEF path
<1>6. SplitStatuses(half, origin, k) = HalfStatuses(statuses, origin, from, k + 1)
  BY <1>3, <1>4, <1>5
<1>7. QED BY <1>6 DEF half

\* The lists that the loop has come to have no unit twice, and not yet the next
\* half.
LEMMA HalfIsApart ==
  ASSUME NEW statuses, NEW lists, NEW origin, NEW from, NEW k,
         CanSplit(statuses, lists, origin, from, k)
  PROVE  /\ HalfStatuses(statuses, origin, from, k) \in [Block -> Status]
         /\ HalfStatuses(statuses, origin, from, k)[BlockAt(origin, k)] = "Free"
         /\ HalfLists(lists, origin, from, k) \in [Level -> Seq(Unit)]
         /\ Apart(HalfLists(lists, origin, from, k))
         /\ IsPlace(origin, HalfLists(lists, origin, from, k)[k], 1)
         /\ \A v \in Unit : v # origin /\ BlockAt(v, k) = BlockAt(origin, k) =>
              NoneIn(HalfLists(lists, origin, from, k), v)
<1>1. PICK s : s = CarvedStatuses(statuses, origin, from, k)
  OBVIOUS
<1>2. PICK t : t = CarvedLists(lists, origin, from, k)
  OBVIOUS
<1>3. /\ CanCarve(statuses, origin, from, k) /\ lists \in [Level -> Seq(Unit)]
      /\ IsListed(statuses, lists) /\ origin \in Unit /\ k \in Level
  BY DEF CanSplit, CanCarve
<1>4. /\ s \in [Block -> Status] /\ BlockAt(origin, k) \in Block /\ s[BlockAt(origin, k)] = "Used"
      /\ IsTree(s)
  BY <1>1, <1>3, CarveUses, CarveKeepsTree
<1>5. t \in [Level -> Seq(Unit)] /\ IsListed(s, t)
  BY <1>1, <1>2, <1>3, CarveKeepsLists
<1>6. Apart(t)
  BY <1>4, <1>5, ListedIsApart
<1>7. \A v \in Unit : BlockAt(v, k) = BlockAt(origin, k) => NoneIn(t, v)
  BY <1>3, <1>4, <1>5, UsedIsInNone
<1>8. PICK more : more = HalfLists(lists, origin, from, k)
  OBVIOUS
<1>9. IsUpdate(more, t, k, <<origin>> \o t[k])
  BY <1>2, <1>8 DEF IsUpdate, HalfLists
<1>10. /\ more \in [Level -> Seq(Unit)] /\ Apart(more)
       /\ \A v : v # origin /\ NoneIn(t, v) => NoneIn(more, v)
  BY <1>3, <1>5, <1>6, <1>7, <1>9, InFrontIsApart
<1>11. IsPlace(origin, more[k], 1)
  <2>1. t[k] \in Seq(Unit) /\ more[k] = <<origin>> \o t[k]
    BY <1>3, <1>5, <1>9 DEF IsUpdate
  <2>2. PICK list \in Seq(Unit) : list = t[k]
    BY <2>1
  <2>3. Len(<<origin>> \o list) = Len(list) + 1 /\ (<<origin>> \o list)[1] = origin /\ Len(list) \in Nat
    BY <1>3, InFront
  <2>4. QED BY <2>1, <2>2, <2>3 DEF IsPlace
<1>12. /\ HalfStatuses(statuses, origin, from, k) \in [Block -> Status]
       /\ HalfStatuses(statuses, origin, from, k)[BlockAt(origin, k)] = "Free"
  BY <1>1, <1>4 DEF HalfStatuses, Status
<1>13. QED BY <1>7, <1>8, <1>10, <1>11, <1>12

\* One unit before another.
LEMMA PairOfUnits ==
  ASSUME NEW origin \in Unit, NEW v \in Unit
  PROVE  <<origin>> \o <<v>> = <<origin, v>>
<1>1. PICK list : list = <<v>>
  OBVIOUS
<1>2. list \in Seq(Unit) /\ Len(list) = 1 /\ list[1] = v
  BY <1>1
<1>3. PICK joined : joined = <<origin>> \o list
  OBVIOUS
<1>4. /\ joined \in Seq(Unit) /\ Len(joined) = Len(list) + 1 /\ joined[1] = origin
      /\ \A i \in 1..Len(list) : joined[i + 1] = list[i]
  <2>1. /\ <<origin>> \o list \in Seq(Unit) /\ Len(<<origin>> \o list) = Len(list) + 1
        /\ (<<origin>> \o list)[1] = origin
        /\ \A i \in 1..Len(list) : (<<origin>> \o list)[i + 1] = list[i]
    BY <1>2, InFront
  <2>2. QED BY <1>3, <2>1
<1>5. Len(joined) = 2 /\ joined[2] = v
  <2>1. 1 \in 1..Len(list) /\ 1 + 1 = 2
    BY <1>2
  <2>2. joined[1 + 1] = list[1]
    BY <1>4, <2>1
  <2>3. QED BY <1>2, <1>4, <2>1, <2>2
<1>6. joined = <<origin, v>>
  <2>1. PICK pair : pair = <<origin, v>>
    OBVIOUS
  <2>2. pair \in Seq(Unit) /\ Len(pair) = 2 /\ pair[1] = origin /\ pair[2] = v
    BY <2>1
  <2>3. Len(joined) = Len(pair) /\ \A i \in 1..Len(joined) : joined[i] = pair[i]
    <3>1. Len(joined) = Len(pair)
      BY <1>5, <2>2
    <3>2. \A i \in 1..2 : joined[i] = pair[i]
      <4>1. \A i \in 1..2 : i = 1 \/ i = 2
        OBVIOUS
      <4>2. joined[1] = pair[1] /\ joined[2] = pair[2]
        BY <1>4, <1>5, <2>2
      <4>3. QED BY <4>1, <4>2
    <3>3. QED BY <3>1, <3>2, <1>5
  <2>4. joined = pair
    BY <1>4, <2>2, <2>3
  <2>5. QED BY <2>1, <2>4
<1>7. QED BY <1>1, <1>3, <1>6

\* The lists one level on.
LEMMA NextLists ==
  ASSUME NEW statuses, NEW lists, NEW origin, NEW from, NEW k,
         CanSplit(statuses, lists, origin, from, k + 1), k \in from..(k + 1), k \in Level
  PROVE  /\ HalfLists(lists, origin, from, k)[k + 1] = <<>>
         /\ SplitLists(HalfLists(lists, origin, from, k), origin, k) =
              HalfLists(lists, origin, from, k + 1)
<1>1. /\ CanSplit(statuses, lists, origin, from, k) /\ k + 1 \in Level /\ from \in Level
      /\ origin \in Unit /\ from \in Nat /\ k \in Nat
  BY CanSplitLess, Sizes DEF CanSplit, CanCarve
<1>2. PICK v : v = Start(Buddy(BlockAt(origin, k + 1)))
  OBVIOUS
<1>3. PICK s, t : /\ s = CarvedLists(lists, origin, from, k)
                  /\ t = CarvedLists(lists, origin, from, k + 1)
  OBVIOUS
<1>4. s[k + 1] = <<>> /\ t[k + 1] = <<v>> /\ \A l \in Level : l # k + 1 => s[l] = t[l]
  <2>1. \A l \in Level : s[l] = IF l = from THEN Tail(lists[from])
                                ELSE IF l \in (from + 1)..k THEN <<Start(Buddy(BlockAt(origin, l)))>>
                                ELSE lists[l]
    BY <1>1, <1>3, CarvedTo
  <2>2. \A l \in Level : t[l] = IF l = from THEN Tail(lists[from])
                                ELSE IF l \in (from + 1)..(k + 1) THEN <<Start(Buddy(BlockAt(origin, l)))>>
                                ELSE lists[l]
    BY <1>3, CarvedTo
  <2>3. k + 1 # from /\ k + 1 \notin (from + 1)..k /\ k + 1 \in (from + 1)..(k + 1)
    BY <1>1
  <2>4. s[k + 1] = lists[k + 1] /\ t[k + 1] = <<v>>
    BY <1>1, <1>2, <2>1, <2>2, <2>3
  <2>5. lists[k + 1] = <<>>
    BY <2>3 DEF CanSplit
  <2>6. ASSUME NEW l \in Level, l # k + 1 PROVE s[l] = t[l]
    <3>1. l \in (from + 1)..k <=> l \in (from + 1)..(k + 1)
      BY <1>1, <2>6, Sizes
    <3>2. QED BY <2>1, <2>2, <3>1
  <2>7. QED BY <2>4, <2>5, <2>6
<1>5. DOMAIN s = Level /\ DOMAIN t = Level /\ s[k] \in Seq(Unit)
  <2>1. DOMAIN s = Level /\ DOMAIN t = Level
    BY <1>3 DEF CarvedLists
  <2>2. CarvedLists(lists, origin, from, k) \in [Level -> Seq(Unit)]
    BY <1>1, CarveKeepsLists DEF CanSplit
  <2>3. QED BY <1>3, <2>1, <2>2
<1>6. PICK half : half = HalfLists(lists, origin, from, k)
  OBVIOUS
<1>7. half = [s EXCEPT ![k] = <<origin>> \o s[k]]
  BY <1>3, <1>6 DEF HalfLists
<1>8. half[k + 1] = <<>> /\ k + 1 # k
  BY <1>1, <1>4, <1>5, <1>7
<1>9. Tail(half[k]) = s[k]
  <2>1. PICK list \in Seq(Unit) : list = s[k]
    BY <1>5
  <2>2. Tail(<<origin>> \o list) = list
    BY <1>1
  <2>3. half[k] = <<origin>> \o list
    BY <1>5, <1>7, <2>1
  <2>4. QED BY <2>1, <2>2, <2>3
<1>10. SplitLists(half, origin, k) = [half EXCEPT ![k] = s[k], ![k + 1] = <<origin, v>>]
  BY <1>2, <1>9 DEF SplitLists
<1>11. HalfLists(lists, origin, from, k + 1) = [t EXCEPT ![k + 1] = <<origin, v>>]
  <2>1. HalfLists(lists, origin, from, k + 1) = [t EXCEPT ![k + 1] = <<origin>> \o t[k + 1]]
    BY <1>3 DEF HalfLists
  <2>4. k + 1 # 0
    BY <1>1
  <2>5. v \in Unit
    BY <1>1, <1>2, <2>4, Buddies
  <2>2. <<origin>> \o <<v>> = <<origin, v>>
    BY <1>1, <2>5, PairOfUnits
  <2>3. QED BY <1>4, <2>1, <2>2
<1>12. SplitLists(half, origin, k) = HalfLists(lists, origin, from, k + 1)
  <2>1. SplitLists(half, origin, k) = [l \in Level |-> IF l = k + 1 THEN <<origin, v>> ELSE s[l]]
    BY <1>1, <1>5, <1>7, <1>8, <1>10
  <2>2. HalfLists(lists, origin, from, k + 1) = [l \in Level |-> IF l = k + 1 THEN <<origin, v>> ELSE t[l]]
    BY <1>1, <1>5, <1>11
  <2>3. QED BY <2>1, <2>2, <1>4
<1>13. QED BY <1>6, <1>8, <1>12

\* A step of the loop.
LEMMA LoopSplits ==
  ASSUME NEW statuses, NEW lists, NEW origin, NEW from, NEW k,
         CanSplit(statuses, lists, origin, from, k + 1), k \in from..(k + 1), k \in Level,
         NEW b, Mirrors(b, HalfStatuses(statuses, origin, from, k), HalfLists(lists, origin, from, k))
  PROVE  Mirrors(Prototype!SplitFirst(b, k), HalfStatuses(statuses, origin, from, k + 1),
                 HalfLists(lists, origin, from, k + 1))
<1>1. /\ CanSplit(statuses, lists, origin, from, k) /\ k + 1 \in Level /\ from \in Level
      /\ origin \in Unit /\ from \in Nat /\ k \in Nat /\ origin % Size[k] = 0 /\ from <= k
  <2>1. PICK target : target = k + 1
    OBVIOUS
  <2>2. CanSplit(statuses, lists, origin, from, target) /\ k \in from..target
    BY <2>1
  <2>3. /\ CanSplit(statuses, lists, origin, from, k) /\ target \in Level /\ from \in Level
        /\ origin \in Unit /\ from \in Nat /\ origin % Size[k] = 0
    BY <2>2, CanSplitLess
  <2>4. QED BY <2>1, <2>3, Sizes
<1>2. PICK s, t : /\ s = HalfStatuses(statuses, origin, from, k)
                  /\ t = HalfLists(lists, origin, from, k)
  OBVIOUS
<1>3. /\ s \in [Block -> Status] /\ s[BlockAt(origin, k)] = "Free"
      /\ t \in [Level -> Seq(Unit)] /\ Apart(t) /\ IsPlace(origin, t[k], 1)
      /\ \A v \in Unit : v # origin /\ BlockAt(v, k) = BlockAt(origin, k) => NoneIn(t, v)
  BY <1>1, <1>2, HalfIsApart
<1>4. NoneIn(t, Start(Buddy(BlockAt(origin, k + 1))))
  <2>1. k + 1 # 0 /\ (k + 1) - 1 = k
    BY <1>1
  <2>2. PICK v \in Unit :
          /\ BlockAt(v, k + 1) # BlockAt(origin, k + 1)
          /\ BlockAt(v, (k + 1) - 1) = BlockAt(origin, (k + 1) - 1)
          /\ v = Start(Buddy(BlockAt(origin, k + 1)))
    BY <1>1, <2>1, Buddies
  <2>3. QED BY <1>3, <2>1, <2>2
<1>5. t[k + 1] = <<>> /\ SplitLists(t, origin, k) = HalfLists(lists, origin, from, k + 1)
  BY <1>2, NextLists
<1>6. SplitStatuses(s, origin, k) = HalfStatuses(statuses, origin, from, k + 1)
  BY <1>1, <1>2, NextStatuses
<1>7. Mirrors(b, s, t)
  BY <1>2
<1>8. Mirrors(Prototype!SplitFirst(b, k), SplitStatuses(s, origin, k), SplitLists(t, origin, k))
  BY <1>1, <1>3, <1>4, <1>5, <1>7, SplitMirrors
<1>9. QED BY <1>5, <1>6, <1>8

\* The loop of alloc() ends at the block that it will return.
LEMMA LoopEnds ==
  ASSUME NEW statuses, NEW lists, NEW origin, NEW from, NEW target,
         CanSplit(statuses, lists, origin, from, target),
         NEW b, Mirrors(b, statuses, lists)
  PROVE  Mirrors(Prototype!SplitDown(b, from, target), HalfStatuses(statuses, origin, from, target),
                 HalfLists(lists, origin, from, target))
<1>1. /\ from \in Level /\ target \in Level /\ from \in Nat /\ target \in Nat /\ from <= target
      /\ statuses \in [Block -> Status] /\ origin \in Unit /\ statuses[BlockAt(origin, from)] = "Free"
      /\ lists \in [Level -> Seq(Unit)] /\ IsPlace(origin, lists[from], 1)
      /\ Levels \in Nat /\ Level = 0..(Levels - 1)
  BY Sizes DEF CanSplit, CanCarve, Level
<1>0. PICK steps : /\ AreSplits(steps, b, from, target)
                   /\ Prototype!SplitDown(b, from, target) = steps[target]
  BY <1>1, SplitDownSteps
<1>2. /\ steps[from] = b
      /\ \A l \in (from + 1)..target : steps[l] = Prototype!SplitFirst(steps[l - 1], l - 1)
  BY <1>0 DEF AreSplits
<1>3. HalfStatuses(statuses, origin, from, from) = statuses
  <2>1. HalfStatuses(statuses, origin, from, from) =
          [c \in Block |-> IF c = BlockAt(origin, from) THEN "Free"
                           ELSE CarvedStatuses(statuses, origin, from, from)[c]]
    BY DEF HalfStatuses, CarvedStatuses
  <2>2. ASSUME NEW c \in Block, c # BlockAt(origin, from)
        PROVE  CarvedStatuses(statuses, origin, from, from)[c] = statuses[c]
    <3>1. c[1] \in from..from => c[1] = from
      BY <1>1
    <3>2. c[1] \notin (from + 1)..from
      BY <1>1
    <3>3. QED BY <2>2, <3>1, <3>2 DEF CarvedStatuses
  <2>3. QED BY <2>1, <2>2, <1>1
<1>4. HalfLists(lists, origin, from, from) = lists
  <2>1. CanSplit(statuses, lists, origin, from, from)
    <3>1. from \in from..target
      BY <1>1
    <3>2. QED BY <3>1, CanSplitLess
  <2>2. PICK t : t = CarvedLists(lists, origin, from, from)
    OBVIOUS
  <2>3. DOMAIN t = Level /\ HalfLists(lists, origin, from, from) = [t EXCEPT ![from] = <<origin>> \o t[from]]
    BY <2>2 DEF CarvedLists, HalfLists
  <2>4. \A l \in Level : t[l] = IF l = from THEN Tail(lists[from]) ELSE lists[l]
    <3>1. \A l \in Level : l \notin (from + 1)..from
      BY <1>1
    <3>2. ASSUME NEW l \in Level
          PROVE  CarvedLists(lists, origin, from, from)[l] =
                   IF l = from THEN Tail(lists[from])
                   ELSE IF l \in (from + 1)..from THEN <<Start(Buddy(BlockAt(origin, l)))>>
                   ELSE lists[l]
      BY <2>1, CarvedTo
    <3>3. QED BY <2>2, <3>1, <3>2
  <2>5. <<origin>> \o Tail(lists[from]) = lists[from]
    <3>1. PICK list \in Seq(Unit) : list = lists[from]
      BY <1>1
    <3>2. list # <<>> /\ list[1] = origin
      BY <1>1, <3>1 DEF IsPlace
    <3>3. <<origin>> \o Tail(list) = list
      BY <3>2
    <3>4. QED BY <3>1, <3>3
  <2>6. t[from] = Tail(lists[from]) /\ \A l \in Level : l # from => t[l] = lists[l]
    BY <1>1, <2>4
  <2>7. HalfLists(lists, origin, from, from) = [l \in Level |-> IF l = from THEN lists[from] ELSE lists[l]]
    BY <1>1, <2>3, <2>5, <2>6
  <2>8. QED BY <1>1, <2>7
<1> DEFINE n == target - from
           Done(k) == Mirrors(steps[k], HalfStatuses(statuses, origin, from, k),
                              HalfLists(lists, origin, from, k))
           S == {i \in 0..n : Done(from + i)}
<1>5. n \in Nat /\ from + n = target /\ from + 0 = from
  BY <1>1
<1>6. 0 \in S
  <2>1. Done(from)
    BY <1>2, <1>3, <1>4
  <2> HIDE DEF Done
  <2>2. QED BY <2>1, <1>5
<1>7. ASSUME NEW i \in 0..(n - 1), i \in S PROVE i + 1 \in S
  <2>1. PICK k : k = from + i
    OBVIOUS
  <2>2. /\ k \in from..(k + 1) /\ k \in Level /\ k + 1 \in from..target /\ k + 1 \in (from + 1)..target
        /\ (k + 1) - 1 = k /\ from + (i + 1) = k + 1 /\ i + 1 \in 0..n
    BY <1>1, <1>5, <1>7, <2>1
  <2>3. CanSplit(statuses, lists, origin, from, k + 1)
    BY <2>2, CanSplitLess
  <2>4. steps[k + 1] = Prototype!SplitFirst(steps[k], k)
    BY <1>2, <2>2
  <2>5. Mirrors(steps[k], HalfStatuses(statuses, origin, from, k), HalfLists(lists, origin, from, k))
    BY <1>7, <2>1
  <2>6. Done(k + 1)
    BY <2>2, <2>3, <2>4, <2>5, LoopSplits
  <2> HIDE DEF Done
  <2>7. QED BY <2>2, <2>6
<1> HIDE DEF S, Done, n
<1>8. 0..n \subseteq S
  BY <1>5, <1>6, <1>7, UpToAll
<1>9. Done(target)
  <2>1. n \in S
    BY <1>5, <1>8
  <2>2. QED BY <2>1, <1>5 DEF S
<1>10. QED BY <1>0, <1>9 DEF Done

-----------------------------------------------------------------------------
(* alloc() *)

\* The size of the blocks of a level is a power of two.
LEMMA SizesArePowers ==
  ASSUME NEW l \in Level
  PROVE  /\ (Levels - 1) - l \in Nat /\ Size[l] = 2 ^ ((Levels - 1) - l)
         /\ Levels + 1 - l \in Nat /\ 4 * Size[l] = 2 ^ (Levels + 1 - l)
<1> DEFINE n == Levels - 1
           S == {i \in 0..n : Size[n - i] = 2 ^ i}
<1>1. n \in Nat /\ Level = 0..n /\ l \in 0..n /\ Levels = n + 1
  BY Sizes DEF Level
<1>2. 0 \in S
  <2>1. Size[n] = 1
    BY BuddyAssumption
  <2>2. 2 ^ 0 = 1 /\ n - 0 = n
    BY <1>1
  <2>3. QED BY <2>1, <2>2, <1>1
<1>3. ASSUME NEW i \in 0..(n - 1), i \in S PROVE i + 1 \in S
  <2>1. /\ i \in Nat /\ n - i \in Level /\ n - i # 0 /\ (n - i) - 1 = n - (i + 1) /\ i + 1 \in 0..n
        /\ Size[n - i] = 2 ^ i
    BY <1>1, <1>3
  <2>2. Size[(n - i) - 1] = 2 * Size[n - i]
    BY <2>1, Sizes
  <2>3. 2 ^ (i + 1) = 2 * 2 ^ i
    BY <2>1, PowerOfTwo
  <2> HIDE DEF n
  <2>4. QED BY <2>1, <2>2, <2>3
<1> HIDE DEF S, n
<1>4. 0..n \subseteq S
  BY <1>1, <1>2, <1>3, UpToAll
<1>5. PICK k : k = n - l
  OBVIOUS
<1>6. k \in Nat /\ k \in 0..n /\ n - k = l /\ Levels + 1 - l = (k + 1) + 1 /\ k + 1 \in Nat
  BY <1>1, <1>5
<1>7. Size[l] = 2 ^ k
  <2>1. k \in S
    BY <1>4, <1>6
  <2>2. QED BY <2>1, <1>6 DEF S
<1>8. 4 * Size[l] = 2 ^ ((k + 1) + 1)
  <2>1. 2 ^ (k + 1) = 2 * 2 ^ k /\ 2 ^ ((k + 1) + 1) = 2 * 2 ^ (k + 1) /\ 2 ^ k \in Nat
    BY <1>6, PowerOfTwo
  <2> DEFINE p == 2 ^ k
             q == 2 ^ (k + 1)
             r == 2 ^ ((k + 1) + 1)
  <2>2. q = 2 * p /\ r = 2 * q /\ p \in Nat /\ Size[l] = p
    BY <2>1, <1>7
  <2> HIDE DEF p, q, r
  <2>3. 4 * Size[l] = r
    BY <2>2
  <2>4. QED BY <2>3 DEF r
<1>9. QED BY <1>5, <1>6, <1>7, <1>8 DEF n

\* The next power of two is found.
LEMMA NextPower ==
  ASSUME NEW e \in Nat, NEW n \in Nat,
         \/ n = 2 ^ e
         \/ e > 0 /\ 2 ^ (e - 1) < n /\ n < 2 ^ e
  PROVE  Prototype!pot(n) = 2 ^ e /\ Prototype!log2(Prototype!pot(n)) = e
<1>1. 2 ^ e \in Nat /\ 2 ^ (e + 1) = 2 * 2 ^ e /\ 2 ^ e > 0
  <2>1. e <= e
    OBVIOUS
  <2>2. QED BY <2>1, PowerOfTwo, PowersGrow
<1>2. Prototype!log2(2 ^ e) = e
  <2> DEFINE p == 2 ^ e
  <2>1. p \in Nat /\ 2 ^ e <= p /\ p < 2 ^ (e + 1)
    BY <1>1
  <2> HIDE DEF p
  <2>2. Prototype!log2(p) = e
    BY <2>1, Logarithm
  <2>3. QED BY <2>2 DEF p
<1>3. CASE n = 2 ^ e
  <2>1. Prototype!pot(n) = n
    BY <1>2, <1>3 DEF Prototype!pot
  <2>2. QED BY <2>1, <1>2, <1>3
<1>4. CASE e > 0 /\ 2 ^ (e - 1) < n /\ n < 2 ^ e
  <2>1. PICK d \in Nat : d = e - 1
    BY <1>4
  <2>2. d + 1 = e /\ 2 ^ d \in Nat
    BY <2>1, PowerOfTwo
  <2>3. 2 ^ d < n /\ n < 2 ^ (d + 1)
    BY <1>4, <2>1, <2>2
  <2>4. Prototype!log2(n) = d
    <3>1. 2 ^ d <= n
      BY <2>2, <2>3
    <3>2. QED BY <3>1, <2>3, Logarithm
  <2>5. 2 ^ d # n
    BY <2>2, <2>3
  <2>6. Prototype!pot(n) = 2 ^ (d + 1)
    BY <2>4, <2>5 DEF Prototype!pot
  <2>7. QED BY <2>2, <2>6, <1>2
<1>5. QED BY <1>3, <1>4

\* Bytes that n of the smallest blocks are needed for.
IsRequest(bytes, n) == bytes \in Request /\ bytes \in (Bytes(n - 1) + 1)..Bytes(n)

\* The two find the same level for a request, which is never out of range.
LEMMA SameTarget ==
  ASSUME NEW n \in 1..Size[0], NEW bytes, IsRequest(bytes, n)
  PROVE  /\ Prototype!block_size_to_level(Prototype!pot(bytes)) = LevelFor(n)
         /\ ~(bytes < Prototype!min_size \/ bytes > size)
<1>1. /\ bytes \in 4..size /\ size \in Nat /\ Prototype!min_size = 4
      /\ bytes \in ((n - 1) * 4 + 1)..(n * 4)
  BY Minimum, LockstepAssumption DEF IsRequest, Bytes
<1>2. PICK l \in Level : l = LevelFor(n) /\ Size[l] >= n /\ \A k \in Level : k > l => Size[k] < n
  BY LevelForRequest
<1>3. PICK e \in Nat : e = Levels + 1 - l /\ 4 * Size[l] = 2 ^ e
  BY SizesArePowers
<1>4. Size[l] \in Nat /\ n \in Nat /\ bytes \in Nat /\ Levels \in Nat /\ l \in 0..(Levels - 1) /\ e > 1
  <2>1. Size[l] \in Nat /\ n \in Nat /\ bytes \in Nat /\ Levels \in Nat /\ l \in 0..(Levels - 1)
    BY <1>1, Sizes DEF Level
  <2>2. QED BY <2>1, <1>3
<1>5. bytes <= 4 * Size[l]
  BY <1>1, <1>2, <1>4
<1>6. \/ bytes = 2 ^ e
      \/ e > 0 /\ 2 ^ (e - 1) < bytes /\ bytes < 2 ^ e
  <2>1. CASE l = Levels - 1
    <3>1. Size[l] = 1
      BY <2>1, BuddyAssumption
    <3>2. bytes = 4 * Size[l]
      BY <3>1, <1>1, <1>4, <1>5
    <3>3. QED BY <3>2, <1>3
  <2>2. CASE l # Levels - 1
    <3>1. PICK k \in Level : k = l + 1
      BY <2>2, <1>4 DEF Level
    <3>2. Size[k] < n /\ Size[k] \in Nat /\ Size[l] = 2 * Size[k]
      <4>1. k # 0 /\ k - 1 = l /\ k > l
        BY <3>1, <1>4
      <4>2. QED BY <4>1, <1>2, Sizes
    <3>3. 2 * Size[l] < bytes
      <4>1. Size[k] <= n - 1
        BY <3>2, <1>4
      <4>2. 4 * Size[k] <= (n - 1) * 4
        BY <4>1, <3>2, <1>4
      <4>3. QED BY <4>2, <3>2, <1>1, <1>4
    <3>4. PICK d \in Nat : d = e - 1
      BY <1>4
    <3>5. 2 ^ e = 2 * 2 ^ d /\ 2 ^ d \in Nat
      <4>1. d + 1 = e
        BY <3>4
      <4>2. 2 ^ (d + 1) = 2 * 2 ^ d /\ 2 ^ d \in Nat
        BY PowerOfTwo
      <4>3. QED BY <4>1, <4>2
    <3>6. PICK p, q : p = 2 ^ d /\ q = 2 ^ e
      OBVIOUS
    <3>7. q = 2 * p /\ p \in Nat /\ 4 * Size[l] = q
      BY <3>5, <3>6, <1>3
    <3>8. p < bytes /\ bytes <= q
      BY <3>3, <3>7, <1>4, <1>5
    <3>9. QED BY <3>4, <3>6, <3>7, <3>8, <1>4
  <2>3. QED BY <2>1, <2>2
<1>7. Prototype!log2(Prototype!pot(bytes)) = e
  BY <1>4, <1>6, NextPower
<1>8. Prototype!block_size_to_level(Prototype!pot(bytes)) = l
  BY <1>3, <1>4, <1>7, SameLevels DEF Prototype!block_size_to_level
<1>9. QED BY <1>1, <1>2, <1>8

\* The head of a list is Nil when the list is empty.
LEMMA Heads ==
  ASSUME NEW b, NEW lists \in [Level -> Seq(Unit)], Linked(b, lists), NEW l \in Level
  PROVE  b.free_lists[l] # Nil <=> lists[l] # <<>>
<1>1. PICK list \in Seq(Unit) : list = lists[l]
  OBVIOUS
<1>2. b.free_lists[l] = At(list, 1)
  BY <1>1 DEF Linked, Chain
<1>3. CASE list = <<>>
  <2>1. Len(list) = 0
    BY <1>3
  <2>2. 1 \notin 1..Len(list)
    BY <2>1
  <2>3. QED BY <1>1, <1>2, <1>3, <2>2 DEF At
<1>4. CASE list # <<>>
  <2>1. 1 \in 1..Len(list)
    BY <1>4
  <2>2. At(list, 1) # Nil
    BY <2>1, Places
  <2>3. QED BY <1>1, <1>2, <1>4, <2>2
<1>5. QED BY <1>3, <1>4

\* What alloc() does when there is nothing to split.
LEMMA NothingIsFound ==
  ASSUME NEW b, NEW lists \in [Level -> Seq(Unit)], Linked(b, lists),
         NEW n \in 1..Size[0], NEW bytes, IsRequest(bytes, n),
         \A l \in Level : l <= LevelFor(n) => lists[l] = <<>>
  PROVE  Prototype!alloc(b, bytes) = <<Prototype!Raise(b, "OutOfMemory"), Nil>>
<1>1. PICK target \in Level : target = LevelFor(n)
  BY LevelForRequest
<1>2. /\ Prototype!block_size_to_level(Prototype!pot(bytes)) = target
      /\ ~(bytes < Prototype!min_size \/ bytes > size)
  BY <1>1, SameTarget
<1>3. {level \in 0..target : b.free_lists[level] # Nil} = {}
  <2>1. ASSUME NEW l \in 0..target PROVE b.free_lists[l] = Nil
    <3>1. l \in Level /\ l <= target
      BY <1>1, Sizes DEF Level
    <3>2. lists[l] = <<>>
      BY <1>1, <3>1
    <3>3. QED BY <3>1, <3>2, Heads
  <2>2. QED BY <2>1
<1>4. QED BY <1>2, <1>3 DEF Prototype!alloc

\* The status of a block was set to used.
IsUsed(c, b, block) == c = [b EXCEPT !.block_statuses[IdOf(block)] = "used"]

\* The first of a list was taken out of it and is used.
FirstIsTaken(c, removed, b, used, fewer, l, u) ==
  b.free_lists[l] = Ptr(u) /\ removed.raised = "nothing" /\ Mirrors(c, used, fewer)

\* That is what alloc() does at the end.
LEMMA FirstIsUsed ==
  ASSUME NEW b, NEW statuses \in [Block -> Status], NEW lists \in [Level -> Seq(Unit)],
         Mirrors(b, statuses, lists), Apart(lists),
         NEW l \in Level, NEW u, IsPlace(u, lists[l], 1),
         NEW fewer, IsUpdate(fewer, lists, l, Tail(lists[l])),
         NEW removed, IsRemoved(removed, b, l, u), NEW c, IsUsed(c, removed, BlockAt(u, l)),
         NEW used, IsUpdate(used, statuses, BlockAt(u, l), "Used")
  PROVE  FirstIsTaken(c, removed, b, used, fewer, l, u)
<1>1. /\ b \in Object /\ b.raised = "nothing"
      /\ SameStatuses(b.block_statuses, statuses) /\ Linked(b, lists)
  BY DEF Mirrors
<1>2. /\ u \in Unit /\ b.free_lists[l] = Ptr(u)
      /\ removed \in Object /\ removed.raised = b.raised
      /\ removed.block_statuses = b.block_statuses /\ Linked(removed, fewer)
  <2>1. b \in Object /\ Linked(b, lists)
    BY <1>1
  <2>2. FirstIsOut(removed, b, lists, fewer, l, u)
    BY <2>1, FirstRemoval
  <2>3. QED BY <2>2 DEF FirstIsOut
<1>9. PICK block \in Block : block = BlockAt(u, l)
  BY <1>2, Blocks
<1>10. PICK f : f = [removed.block_statuses EXCEPT ![IdOf(block)] = "used"]
  OBVIOUS
<1>11. removed.block_statuses \in [Ids -> PStatus]
  BY <1>2 DEF Object
<1>12. f \in [Ids -> PStatus] /\ SameStatuses(f, used)
  <2>1. PICK g : g = removed.block_statuses
    OBVIOUS
  <2>2. g \in [Ids -> PStatus] /\ SameStatuses(g, statuses)
    BY <1>1, <1>2, <1>11, <2>1
  <2>3. "Used" \in Status /\ Lower("Used") = "used"
    BY DEF Status, Lower
  <2>4. PICK g2, s2 : /\ g2 = [g EXCEPT ![IdOf(block)] = Lower("Used")]
                      /\ s2 = [statuses EXCEPT ![block] = "Used"]
    OBVIOUS
  <2>5. g2 \in [Ids -> PStatus] /\ SameStatuses(g2, s2)
    BY <2>2, <2>3, <2>4, StatusIsSet
  <2>6. s2 = used /\ g2 = f
    BY <1>9, <1>10, <2>1, <2>3, <2>4 DEF IsUpdate
  <2>8. QED BY <2>5, <2>6
<1>13. c = [removed EXCEPT !.block_statuses = f]
  BY <1>9, <1>10 DEF IsUsed
<1>14. /\ c \in Object /\ c.raised = "nothing" /\ c.block_statuses = f
       /\ c.free_lists = removed.free_lists /\ c.next = removed.next /\ c.prev = removed.prev
  BY <1>1, <1>2, <1>12, <1>13 DEF Object
<1>15. Linked(c, fewer)
  BY <1>2, <1>14 DEF Linked
<1>16. QED BY <1>1, <1>2, <1>12, <1>14, <1>15 DEF Mirrors, FirstIsTaken

\* It does so with the block at the end of the loop.
LEMMA BlockIsTaken ==
  ASSUME NEW statuses, NEW lists, NEW origin, NEW from, NEW target,
         CanSplit(statuses, lists, origin, from, target),
         NEW down, Mirrors(down, HalfStatuses(statuses, origin, from, target),
                           HalfLists(lists, origin, from, target)),
         NEW removed, IsRemoved(removed, down, target, origin),
         NEW c, IsUsed(c, removed, BlockAt(origin, target))
  PROVE  /\ down.free_lists[target] = Ptr(origin)
         /\ removed.raised = "nothing"
         /\ Mirrors(c, CarvedStatuses(statuses, origin, from, target),
                    CarvedLists(lists, origin, from, target))
<1>1. PICK s, t : /\ s = HalfStatuses(statuses, origin, from, target)
                  /\ t = HalfLists(lists, origin, from, target)
  OBVIOUS
<1>2. PICK d, u : /\ d = CarvedStatuses(statuses, origin, from, target)
                  /\ u = CarvedLists(lists, origin, from, target)
  OBVIOUS
<1>3. /\ s \in [Block -> Status] /\ t \in [Level -> Seq(Unit)] /\ Apart(t)
      /\ IsPlace(origin, t[target], 1)
  BY <1>1, HalfIsApart
<1>4. /\ target \in Level /\ origin \in Unit /\ CanCarve(statuses, origin, from, target)
      /\ lists \in [Level -> Seq(Unit)] /\ IsListed(statuses, lists)
  BY DEF CanSplit, CanCarve
<1>5. Mirrors(down, s, t)
  BY <1>1
<1>6. u \in [Level -> Seq(Unit)]
  BY <1>2, <1>4, CarveKeepsLists
<1>7. IsUpdate(u, t, target, Tail(t[target]))
  <2>1. t = [u EXCEPT ![target] = <<origin>> \o u[target]]
    BY <1>1, <1>2 DEF HalfLists
  <2>2. PICK list \in Seq(Unit) : list = u[target]
    BY <1>4, <1>6
  <2>3. Tail(<<origin>> \o list) = list
    BY <1>4
  <2>4. Tail(t[target]) = u[target]
    BY <1>4, <1>6, <2>1, <2>2, <2>3
  <2>5. u = [t EXCEPT ![target] = u[target]]
    BY <1>4, <1>6, <2>1
  <2>6. QED BY <2>4, <2>5 DEF IsUpdate
<1>8. IsUpdate(d, s, BlockAt(origin, target), "Used")
  <2>1. /\ d \in [Block -> Status] /\ d[BlockAt(origin, target)] = "Used"
        /\ BlockAt(origin, target) \in Block
    BY <1>2, <1>4, CarveUses
  <2>2. s = [d EXCEPT ![BlockAt(origin, target)] = "Free"]
    BY <1>1, <1>2 DEF HalfStatuses
  <2>3. QED BY <2>1, <2>2 DEF IsUpdate
<1>9. down.free_lists[target] = Ptr(origin) /\ removed.raised = "nothing" /\ Mirrors(c, d, u)
  <2>1. target \in Level
    BY <1>4
  <2>2. FirstIsTaken(c, removed, down, d, u, target, origin)
    BY <2>1, <1>3, <1>5, <1>7, <1>8, FirstIsUsed
  <2>3. QED BY <2>2 DEF FirstIsTaken
<1>10. QED BY <1>2, <1>9

\* The status of the block at an address.
LEMMA SameIdAt ==
  ASSUME NEW u \in Unit, NEW l \in Level
  PROVE  Prototype!unique_id(l, Prototype!get_index(l, Ptr(u))) = IdOf(BlockAt(u, l))
BY SameIndices DEF BlockAt, IdOf

\* alloc() carves the same block.
LEMMA SameIsCarved ==
  ASSUME NEW statuses, NEW lists, NEW origin, NEW from,
         NEW n \in 1..Size[0], NEW bytes, IsRequest(bytes, n),
         CanSplit(statuses, lists, origin, from, LevelFor(n)),
         NEW b, Mirrors(b, statuses, lists)
  PROVE  \E c : /\ Prototype!alloc(b, bytes) = <<c, Ptr(origin)>>
                /\ Mirrors(c, CarvedStatuses(statuses, origin, from, LevelFor(n)),
                           CarvedLists(lists, origin, from, LevelFor(n)))
<1>1. PICK target \in Level : target = LevelFor(n)
  BY LevelForRequest
<1>2. /\ Prototype!block_size_to_level(Prototype!pot(bytes)) = target
      /\ ~(bytes < Prototype!min_size \/ bytes > size)
  BY <1>1, SameTarget
<1>0. CanSplit(statuses, lists, origin, from, target)
  BY <1>1
<1>3. /\ from \in Level /\ from \in Nat /\ target \in Nat /\ from <= target /\ origin \in Unit
      /\ lists \in [Level -> Seq(Unit)] /\ IsPlace(origin, lists[from], 1)
      /\ \A l \in (from + 1)..target : lists[l] = <<>>
      /\ Levels \in Nat /\ Level = 0..(Levels - 1)
  BY <1>0, Sizes DEF CanSplit, CanCarve, Level
<1>4. PICK nonempty : nonempty = {level \in 0..target : b.free_lists[level] # Nil}
  OBVIOUS
<1>5. from \in nonempty /\ \A l \in nonempty : l <= from
  <2>1. \A l \in 0..target : b.free_lists[l] # Nil <=> lists[l] # <<>>
    <3>1. \A l \in 0..target : l \in Level
      BY <1>1, <1>3
    <3>2. Linked(b, lists)
      BY DEF Mirrors
    <3>3. QED BY <3>1, <3>2, <1>3, Heads
  <2>2. lists[from] # <<>>
    BY <1>3 DEF IsPlace
  <2>3. from \in 0..target /\ \A l \in 0..target : ~(l <= from) => l \in (from + 1)..target
    BY <1>3
  <2>4. QED BY <1>3, <1>4, <2>1, <2>2, <2>3
<1>6. (CHOOSE level \in nonempty : \A l \in nonempty : l <= level) = from
  <2>1. \A m \in nonempty : (\A l \in nonempty : l <= m) => m = from
    <3>1. \A m \in nonempty : m \in Nat
      BY <1>4, <1>3
    <3>2. QED BY <3>1, <1>3, <1>5
  <2>2. QED BY <2>1, <1>5
<1>7. PICK down : down = Prototype!SplitDown(b, from, target)
  OBVIOUS
<1>8. Mirrors(down, HalfStatuses(statuses, origin, from, target), HalfLists(lists, origin, from, target))
  BY <1>0, <1>7, LoopEnds
<1>9. PICK removed : removed = Prototype!remove_block(down, target, Ptr(origin))
  OBVIOUS
<1>10. PICK c : c = [removed EXCEPT !.block_statuses[IdOf(BlockAt(origin, target))] = "used"]
  OBVIOUS
<1>11. IsRemoved(removed, down, target, origin) /\ IsUsed(c, removed, BlockAt(origin, target))
  BY <1>9, <1>10 DEF IsRemoved, IsUsed
<1>12. /\ down.free_lists[target] = Ptr(origin) /\ removed.raised = "nothing"
       /\ Mirrors(c, CarvedStatuses(statuses, origin, from, target),
                  CarvedLists(lists, origin, from, target))
  BY <1>0, <1>8, <1>11, BlockIsTaken
<1>13. down.raised = "nothing"
  BY <1>8 DEF Mirrors
<1>14. Prototype!unique_id(target, Prototype!get_index(target, Ptr(origin))) = IdOf(BlockAt(origin, target))
  BY <1>3, SameIdAt
<1>15. Prototype!alloc(b, bytes) = <<c, Ptr(origin)>>
  <2>1. nonempty # {}
    BY <1>5
  <2>2. QED BY <1>2, <1>4, <1>6, <1>7, <1>9, <1>10, <1>12, <1>13, <1>14, <2>1, Zenon DEF Prototype!alloc
<1>16. QED BY <1>1, <1>12, <1>15

-----------------------------------------------------------------------------
(* merge() *)

\* A block, the other half, and what they are the halves of.
AreHalves(p, q, r, u, l) ==
  p = BlockAt(u, l) /\ q = Buddy(BlockAt(u, l)) /\ r = BlockAt(u, l - 1)

\* The indices of those, which are where the prototype looks for them.
LEMMA HalvesAre ==
  ASSUME NEW u \in Unit, NEW l \in Level, l # 0, NEW p, NEW q, NEW r, AreHalves(p, q, r, u, l)
  PROVE  LET i == u \div Size[l]
         IN /\ i \in Nat /\ l - 1 \in Level
            /\ p \in Block /\ q \in Block /\ r \in Block
            /\ p = <<l, i>> /\ q = <<l, Prototype!get_buddy_index(i)>> /\ r = <<l - 1, i \div 2>>
            /\ Start(p) \in Unit /\ Start(q) \in Unit /\ Start(r) \in Unit
            /\ p # q /\ r # p /\ r # q
<1>1. PICK i : i = u \div Size[l]
  OBVIOUS
<1>2. /\ i \in Nat /\ l - 1 \in Level /\ l - 1 \in Nat /\ l \in Nat /\ u \in Nat
      /\ Size[l] \in Nat \ {0} /\ Size[l - 1] = 2 * Size[l]
  BY <1>1, Blocks, Sizes
<1>3. p = <<l, i>> /\ p \in Block
  BY <1>1, Blocks DEF AreHalves
<1>4. r = <<l - 1, i \div 2>> /\ r \in Block
  <2>1. PICK s \in Nat \ {0} : s = Size[l]
    BY <1>2
  <2>2. u \div (2 * s) = (u \div s) \div 2
    BY <1>2, CoarserIndex
  <2>3. r = <<l - 1, u \div Size[l - 1]>> /\ r \in Block
    BY <1>2, Blocks DEF AreHalves
  <2>4. QED BY <1>1, <1>2, <2>1, <2>2, <2>3
<1>5. q = <<l, Prototype!get_buddy_index(i)>> /\ q # p
  <2>1. p[1] = l /\ p[2] = i
    BY <1>3
  <2>2. q = <<l, IF i % 2 = 1 THEN i - 1 ELSE i + 1>>
    BY <2>1 DEF AreHalves, Buddy
  <2>3. (IF i % 2 = 1 THEN i - 1 ELSE i + 1) # i
    BY <1>2
  <2>4. QED BY <1>3, <2>2, <2>3 DEF Prototype!get_buddy_index
<1>6. q \in Block
  <2>1. PICK v \in Unit : BlockAt(v, l) = Buddy(BlockAt(u, l))
    BY Buddies
  <2>2. QED BY <2>1, Blocks DEF AreHalves
<1>7. Start(p) \in Unit /\ Start(q) \in Unit /\ Start(r) \in Unit
  BY <1>3, <1>4, <1>6, BlockIndices
<1>8. r # p /\ r # q
  <2>1. l - 1 # l
    BY <1>2
  <2>2. QED BY <1>3, <1>4, <1>5, <2>1
<1>9. QED BY <1>1, <1>2, <1>3, <1>4, <1>5, <1>6, <1>7, <1>8

\* The object is what statuses and lists say, but for a block that was put in
\* front of one of them.
Joining(b, statuses, lists, l, u, known) ==
  /\ b \in Object /\ b.raised = "nothing"
  /\ SameStatuses(b.block_statuses, statuses)
  /\ Loosely(b, lists, l, u, known)

\* Three statuses are set.
AreSet(g, f, p, q, r) ==
  g = [f EXCEPT ![IdOf(p)] = "invalid", ![IdOf(q)] = "invalid", ![IdOf(r)] = "free"]
AreJoined(joined, statuses, p, q, r) ==
  joined = [statuses EXCEPT ![p] = "Invalid", ![q] = "Invalid", ![r] = "Free"]

\* The statuses of two halves that are joined.
LEMMA JoinedStatuses ==
  ASSUME NEW f \in [Ids -> PStatus], NEW statuses \in [Block -> Status], SameStatuses(f, statuses),
         NEW p \in Block, NEW q \in Block, NEW r \in Block,
         NEW g, AreSet(g, f, p, q, r), NEW joined, AreJoined(joined, statuses, p, q, r)
  PROVE  g \in [Ids -> PStatus] /\ joined \in [Block -> Status] /\ SameStatuses(g, joined)
<1>1. /\ "Invalid" \in Status /\ "Free" \in Status
      /\ Lower("Invalid") = "invalid" /\ Lower("Free") = "free"
  BY DEF Status, Lower
<1>2. PICK f1, s1 : f1 = [f EXCEPT ![IdOf(p)] = Lower("Invalid")] /\ s1 = [statuses EXCEPT ![p] = "Invalid"]
  OBVIOUS
<1>3. f1 \in [Ids -> PStatus] /\ s1 \in [Block -> Status] /\ SameStatuses(f1, s1)
  BY <1>1, <1>2, StatusIsSet
<1>4. PICK f2, s2 : f2 = [f1 EXCEPT ![IdOf(q)] = Lower("Invalid")] /\ s2 = [s1 EXCEPT ![q] = "Invalid"]
  OBVIOUS
<1>5. f2 \in [Ids -> PStatus] /\ s2 \in [Block -> Status] /\ SameStatuses(f2, s2)
  BY <1>1, <1>3, <1>4, StatusIsSet
<1>6. PICK f3, s3 : f3 = [f2 EXCEPT ![IdOf(r)] = Lower("Free")] /\ s3 = [s2 EXCEPT ![r] = "Free"]
  OBVIOUS
<1>7. f3 \in [Ids -> PStatus] /\ s3 \in [Block -> Status] /\ SameStatuses(f3, s3)
  BY <1>1, <1>5, <1>6, StatusIsSet
<1>8. f3 = g
  BY <1>1, <1>2, <1>4, <1>6 DEF AreSet
<1>9. s3 = joined
  BY <1>2, <1>4, <1>6 DEF AreJoined
<1>10. QED BY <1>7, <1>8, <1>9

\* What merge() makes of an object that both halves were removed from.
IsJoined(c, removed, b, p, q, r) ==
  c = [removed EXCEPT
         !.next[Ptr(Start(r))] = removed.free_lists[r[1]],
         !.free_lists[r[1]] = Ptr(Start(r)),
         !.prev[Ptr(Start(r))] = Nil,
         !.block_statuses = [@ EXCEPT ![IdOf(p)] = "invalid", ![IdOf(q)] = "invalid",
                                      ![IdOf(r)] = "free"]]

\* merge() of two halves that are free.
LEMMA MergeIsJoin ==
  ASSUME NEW u \in Unit, NEW l \in Level, l # 0, NEW p, NEW q, NEW r, AreHalves(p, q, r, u, l),
         NEW b, b.block_statuses[IdOf(p)] = "free", b.block_statuses[IdOf(q)] = "free",
         b.block_statuses[IdOf(r)] = "split",
         NEW first, IsRemoved(first, b, l, Start(p)), first.raised = "nothing",
         NEW both, IsRemoved(both, first, l, Start(q)), both.raised = "nothing"
  PROVE  IsJoined(Prototype!merge(b, l, u \div Size[l]), both, b, p, q, r)
<1>1. PICK i : i = u \div Size[l]
  OBVIOUS
<1>2. /\ i \in Nat /\ l - 1 \in Level
      /\ p \in Block /\ q \in Block /\ r \in Block
      /\ p = <<l, i>> /\ q = <<l, Prototype!get_buddy_index(i)>> /\ r = <<l - 1, i \div 2>>
  BY <1>1, HalvesAre
<1>3. PICK j, h : j = Prototype!get_buddy_index(i) /\ h = i \div 2
  OBVIOUS
<1>4. /\ p[1] = l /\ p[2] = i /\ q[1] = l /\ q[2] = j /\ r[1] = l - 1 /\ r[2] = h
  BY <1>2, <1>3
<1>5. /\ Prototype!get_pointer(l, i) = Ptr(Start(p)) /\ Prototype!get_pointer(l, j) = Ptr(Start(q))
      /\ Prototype!get_pointer(l - 1, h) = Ptr(Start(r))
  <2>1. Prototype!get_pointer(p[1], p[2]) = Ptr(Start(p))
    BY <1>2, SamePointers
  <2>2. Prototype!get_pointer(q[1], q[2]) = Ptr(Start(q))
    BY <1>2, SamePointers
  <2>3. Prototype!get_pointer(r[1], r[2]) = Ptr(Start(r))
    BY <1>2, SamePointers
  <2>4. QED BY <1>4, <2>1, <2>2, <2>3
<1>6. /\ Prototype!unique_id(l, i) = IdOf(p) /\ Prototype!unique_id(l, j) = IdOf(q)
      /\ Prototype!unique_id(l - 1, h) = IdOf(r)
  BY <1>4 DEF IdOf
<1>7. /\ first = Prototype!remove_block(b, l, Ptr(Start(p)))
      /\ both = Prototype!remove_block(first, l, Ptr(Start(q)))
  BY DEF IsRemoved
<1>8. Prototype!merge(b, l, i) =
        [both EXCEPT
           !.next[Ptr(Start(r))] = both.free_lists[l - 1],
           !.free_lists[l - 1] = Ptr(Start(r)),
           !.prev[Ptr(Start(r))] = Nil,
           !.block_statuses = [@ EXCEPT ![IdOf(p)] = "invalid", ![IdOf(q)] = "invalid",
                                        ![IdOf(r)] = "free"]]
  BY <1>3, <1>5, <1>6, <1>7 DEF Prototype!merge
<1>9. QED BY <1>1, <1>4, <1>8 DEF IsJoined

\* What an object that both halves were removed from has after merge().
HasJoined(c, both, r, g) ==
  /\ c \in Object /\ c.raised = "nothing" /\ c.block_statuses = g
  /\ c.free_lists = [both.free_lists EXCEPT ![r[1]] = Ptr(Start(r))]
  /\ c.next = [both.next EXCEPT ![Ptr(Start(r))] = both.free_lists[r[1]]]
  /\ c.prev = [both.prev EXCEPT ![Ptr(Start(r))] = Nil]

\* merge() of an object that both halves were removed from.
LEMMA JoinedObject ==
  ASSUME NEW both \in Object, both.raised = "nothing",
         NEW b, NEW p \in Block, NEW q \in Block, NEW r \in Block,
         NEW c, IsJoined(c, both, b, p, q, r),
         NEW g, AreSet(g, both.block_statuses, p, q, r), g \in [Ids -> PStatus]
  PROVE  HasJoined(c, both, r, g)
<1>1. PICK a, k : a = Ptr(Start(r)) /\ k = r[1]
  OBVIOUS
<1>2. a \in Prototype!Address /\ k \in Level /\ a \in Pointer /\ Nil \in Pointer
  <2>1. Start(r) \in Unit /\ r[1] \in Level
    BY BlockIndices
  <2>2. Ptr(Start(r)) \in Prototype!Address
    BY <2>1, Pointers
  <2>3. QED BY <1>1, <2>1, <2>2 DEF Pointer, Optional
<1>3. /\ both.free_lists \in [Level -> Pointer] /\ both.prev \in [Prototype!Address -> Pointer]
      /\ both.next \in [Prototype!Address -> Pointer]
      /\ both.block_statuses \in [Ids -> PStatus] /\ both.raised \in Exception
  BY DEF Object
<1>4. PICK heads, prev, next : /\ heads = [both.free_lists EXCEPT ![k] = a]
                               /\ prev = [both.prev EXCEPT ![a] = Nil]
                               /\ next = [both.next EXCEPT ![a] = both.free_lists[k]]
  OBVIOUS
<1>5. both.free_lists[k] \in Pointer
  BY <1>2, <1>3
<1>6. /\ heads \in [Level -> Pointer] /\ prev \in [Prototype!Address -> Pointer]
      /\ next \in [Prototype!Address -> Pointer]
  BY <1>2, <1>3, <1>4, <1>5
<1>7. c = [both EXCEPT !.free_lists = heads, !.prev = prev, !.next = next, !.block_statuses = g]
  <2>1. c = [both EXCEPT
         !.next[a] = both.free_lists[k],
         !.free_lists[k] = a,
         !.prev[a] = Nil,
         !.block_statuses = [@ EXCEPT ![IdOf(p)] = "invalid", ![IdOf(q)] = "invalid",
                                      ![IdOf(r)] = "free"]]
    BY <1>1 DEF IsJoined
  <2>2. g = [both.block_statuses EXCEPT ![IdOf(p)] = "invalid", ![IdOf(q)] = "invalid", ![IdOf(r)] = "free"]
    BY DEF AreSet
  <2>3. both = [free_lists |-> both.free_lists, prev |-> both.prev, next |-> both.next,
                block_statuses |-> both.block_statuses, raised |-> both.raised]
    BY DEF Object
  <2>4. QED BY <2>1, <2>2, <2>3, <1>4
<1>8. /\ c \in Object /\ c.raised = "nothing" /\ c.block_statuses = g
      /\ c.free_lists = heads /\ c.next = next /\ c.prev = prev
  BY <1>3, <1>6, <1>7 DEF Object
<1>9. QED BY <1>1, <1>4, <1>8 DEF HasJoined

\* A unit was put in front of a list, whose old head was told or has known since.
IsPutInFront(c, b, l, u, known) ==
  /\ c.free_lists = [b.free_lists EXCEPT ![l] = Ptr(u)]
  /\ c.next = [b.next EXCEPT ![Ptr(u)] = b.free_lists[l]]
  /\ c.prev[Ptr(u)] = Nil
  /\ \A x \in Prototype!Address :
       x # Ptr(u) => c.prev[x] = IF x = b.free_lists[l] THEN known ELSE b.prev[x]

\* What merge() puts in front, in short.
LEMMA BlockInFront ==
  ASSUME NEW b \in Object, NEW lists \in [Level -> Seq(Unit)], Apart(lists), Linked(b, lists),
         NEW l \in Level, NEW u \in Unit, NoneIn(lists, u), NEW known, NEW c,
         IsPutInFront(c, b, l, u, known)
  PROVE  Loosely(c, lists, l, u, known)
<1>1. /\ c.free_lists = [b.free_lists EXCEPT ![l] = Ptr(u)]
      /\ c.next = [b.next EXCEPT ![Ptr(u)] = b.free_lists[l]]
      /\ c.prev[Ptr(u)] = Nil
      /\ \A x \in Prototype!Address :
           x # Ptr(u) => c.prev[x] = IF x = b.free_lists[l] THEN known ELSE b.prev[x]
  BY DEF IsPutInFront
<1>2. QED BY <1>1, Insertion

\* Halves and what they are halves of are blocks of two levels.
LEMMA HalvesAreBlocks ==
  ASSUME NEW u \in Unit, NEW l \in Level, l # 0, NEW p, NEW q, NEW r, AreHalves(p, q, r, u, l)
  PROVE  /\ l - 1 \in Level /\ p \in Block /\ q \in Block /\ r \in Block
         /\ r[1] = l - 1 /\ Start(p) \in Unit /\ Start(q) \in Unit /\ Start(r) \in Unit
<1>1. PICK i, h : r = <<l - 1, h>> /\ h = i \div 2
  BY HalvesAre
<1>2. r[1] = l - 1
  BY <1>1
<1>3. QED BY <1>2, HalvesAre

\* merge() takes both halves from the list of their level and puts what they are
\* halves of in front of the list above, where the first does not learn of it.
LEMMA JoinMirrors ==
  ASSUME NEW u \in Unit, NEW l \in Level, l # 0, NEW p, NEW q, NEW r, AreHalves(p, q, r, u, l),
         NEW b, NEW statuses \in [Block -> Status], NEW lists \in [Level -> Seq(Unit)],
         Apart(lists), NoneIn(lists, Start(p)),
         NEW known, Joining(b, statuses, lists, l, Start(p), known),
         statuses[p] = "Free", statuses[q] = "Free", statuses[r] = "Split",
         NEW j, IsPlace(Start(q), lists[l], j),
         NEW shorter, IsWithout(shorter, lists[l], j),
         NEW fewer, IsUpdate(fewer, lists, l, shorter), NoneIn(fewer, Start(r)),
         NEW joined, AreJoined(joined, statuses, p, q, r)
  PROVE  Joining(Prototype!merge(b, l, u \div Size[l]), joined, fewer, l - 1, Start(r), Nil)
<1>1. /\ b \in Object /\ b.raised = "nothing" /\ SameStatuses(b.block_statuses, statuses)
      /\ Loosely(b, lists, l, Start(p), known)
  BY DEF Joining
<1>2. /\ l - 1 \in Level /\ p \in Block /\ q \in Block /\ r \in Block
      /\ r[1] = l - 1 /\ Start(p) \in Unit /\ Start(q) \in Unit /\ Start(r) \in Unit
  BY HalvesAreBlocks
<1>3. PICK first : IsRemoved(first, b, l, Start(p))
  BY DEF IsRemoved
<1>4. /\ first \in Object /\ first.raised = b.raised /\ first.block_statuses = b.block_statuses
      /\ Linked(first, lists)
  BY <1>1, <1>2, <1>3, LooseRemoval
<1>5. PICK both : IsRemoved(both, first, l, Start(q))
  BY DEF IsRemoved
<1>6. /\ both \in Object /\ both.raised = first.raised /\ both.block_statuses = first.block_statuses
      /\ Linked(both, fewer)
  BY <1>2, <1>4, <1>5, Removal
<1>7. fewer \in [Level -> Seq(Unit)] /\ Apart(fewer)
  BY WithoutIsApart
<1>8. PICK c : c = Prototype!merge(b, l, u \div Size[l])
  OBVIOUS
<1>9. IsJoined(c, both, b, p, q, r)
  <2>1. /\ b.block_statuses[IdOf(p)] = "free" /\ b.block_statuses[IdOf(q)] = "free"
        /\ b.block_statuses[IdOf(r)] = "split"
    BY <1>1, <1>2 DEF SameStatuses, Lower
  <2>2. first.raised = "nothing" /\ both.raised = "nothing"
    BY <1>1, <1>4, <1>6
  <2>3. QED BY <1>3, <1>5, <1>8, <2>1, <2>2, MergeIsJoin
<1>10. PICK g : AreSet(g, both.block_statuses, p, q, r)
  BY DEF AreSet
<1>11. g \in [Ids -> PStatus] /\ joined \in [Block -> Status] /\ SameStatuses(g, joined)
  <2>1. PICK f : f = both.block_statuses
    OBVIOUS
  <2>2. f \in [Ids -> PStatus] /\ SameStatuses(f, statuses)
    <3>1. f \in [Ids -> PStatus]
      BY <1>6, <2>1 DEF Object
    <3>2. f = b.block_statuses
      BY <1>4, <1>6, <2>1
    <3>3. QED BY <1>1, <3>1, <3>2
  <2>3. AreSet(g, f, p, q, r)
    BY <1>10, <2>1
  <2>4. QED BY <1>2, <2>2, <2>3, JoinedStatuses
<1>12. /\ c \in Object /\ c.raised = "nothing" /\ c.block_statuses = g
       /\ c.free_lists = [both.free_lists EXCEPT ![r[1]] = Ptr(Start(r))]
       /\ c.next = [both.next EXCEPT ![Ptr(Start(r))] = both.free_lists[r[1]]]
       /\ c.prev = [both.prev EXCEPT ![Ptr(Start(r))] = Nil]
  <2>1. both.raised = "nothing"
    BY <1>1, <1>4, <1>6
  <2>2. HasJoined(c, both, r, g)
    BY <1>2, <1>6, <1>9, <1>10, <1>11, <2>1, JoinedObject
  <2>3. QED BY <2>2 DEF HasJoined
<1>13. Loosely(c, fewer, l - 1, Start(r), Nil)
  <2>1. PICK k \in Level : k = l - 1
    BY <1>2
  <2>2. PICK v \in Unit : v = Start(r)
    BY <1>2
  <2>3. /\ c.free_lists = [both.free_lists EXCEPT ![k] = Ptr(v)]
        /\ c.next = [both.next EXCEPT ![Ptr(v)] = both.free_lists[k]]
        /\ c.prev = [both.prev EXCEPT ![Ptr(v)] = Nil]
    BY <1>2, <1>12, <2>1, <2>2
  <2>4. both.prev \in [Prototype!Address -> Pointer] /\ Ptr(v) \in Prototype!Address
    BY <1>6, Pointers DEF Object
  <2>5. c.prev[Ptr(v)] = Nil /\ \A x \in Prototype!Address : x # Ptr(v) => c.prev[x] = both.prev[x]
    BY <2>3, <2>4
  <2>6. \A x \in Prototype!Address : x = both.free_lists[k] => both.prev[x] = Nil
    <3>1. PICK list \in Seq(Unit) : list = fewer[k]
      BY <1>7
    <3>2. Chain(both.free_lists[k], both.prev, both.next, list)
      BY <1>6, <3>1 DEF Linked
    <3>3. both.free_lists[k] = At(list, 1)
      BY <3>2 DEF Chain
    <3>4. CASE 1 \in 1..Len(list)
      <4>1. both.prev[Ptr(list[1])] = At(list, 1 - 1) /\ At(list, 1) = Ptr(list[1])
        BY <3>2, <3>4 DEF Chain, At
      <4>2. At(list, 0) = Nil
        BY Places
      <4>3. QED BY <3>3, <4>1, <4>2
    <3>5. CASE 1 \notin 1..Len(list)
      <4>1. At(list, 1) = Nil
        BY <3>5 DEF At
      <4>2. QED BY <3>3, <4>1, LockstepAssumption
    <3>6. QED BY <3>4, <3>5
  <2>7. \A x \in Prototype!Address : x # Ptr(v) =>
          c.prev[x] = IF x = both.free_lists[k] THEN Nil ELSE both.prev[x]
    BY <2>5, <2>6
  <2>8. NoneIn(fewer, v)
    BY <2>2
  <2>9. Loosely(c, fewer, k, v, Nil)
    <3>1. IsPutInFront(c, both, k, v, Nil)
      BY <2>3, <2>5, <2>7 DEF IsPutInFront
    <3>2. QED BY <1>6, <1>7, <2>8, <3>1, BlockInFront
  <2>10. QED BY <2>1, <2>2, <2>9
<1>14. QED BY <1>8, <1>11, <1>12, <1>13 DEF Joining

-----------------------------------------------------------------------------
(* The loop of free() *)

\* The loop of free(), step by step.
AreMerges(steps, b, level, address) ==
  /\ steps[level] = [b |-> b, merging |-> TRUE]
  /\ \A l \in 0..(level - 1) :
       steps[l] = Prototype!MergeWithBuddy(steps[l + 1], l + 1, Prototype!get_index(l + 1, address))

\* There are such steps, and the last is what the loop makes.
LEMMA MergeUpSteps ==
  ASSUME NEW b, NEW level \in Nat, NEW address
  PROVE  \E steps : /\ AreMerges(steps, b, level, address)
                    /\ Prototype!MergeUp(b, level, address) = steps[0].b
<1> DEFINE Step(f, l) ==
             IF l = level THEN [b |-> b, merging |-> TRUE]
             ELSE Prototype!MergeWithBuddy(f[l + 1], l + 1, Prototype!get_index(l + 1, address))
           S == {m \in 0..level : \E f : f = [l \in (level - m)..level |-> Step(f, l)]}
<1>1. level \in S
  <2>1. 0 \in S
    <3>1. PICK f : f = [l \in (level - 0)..level |-> [b |-> b, merging |-> TRUE]]
      OBVIOUS
    <3>2. f = [l \in (level - 0)..level |-> Step(f, l)]
      BY <3>1
    <3>3. 0 \in 0..level
      OBVIOUS
    <3> HIDE DEF Step
    <3>4. \E g : g = [l \in (level - 0)..level |-> Step(g, l)]
      BY <3>2
    <3>5. QED BY <3>3, <3>4
  <2>2. ASSUME NEW m \in 0..(level - 1), m \in S PROVE m + 1 \in S
    <3>1. PICK f : f = [l \in (level - m)..level |-> Step(f, l)]
      BY <2>2
    <3>2. PICK g : g = [l \in (level - (m + 1))..level |->
                          IF l = level - (m + 1) THEN Step(f, l) ELSE f[l]]
      OBVIOUS
    <3>3. m \in Nat /\ m + 1 \in 0..level
      OBVIOUS
    <3>4. ASSUME NEW l \in (level - (m + 1))..level PROVE g[l] = Step(g, l)
      <4>1. l # level => l + 1 \in (level - m)..level /\ l + 1 # level - (m + 1)
                         /\ l + 1 \in (level - (m + 1))..level
        BY <3>3
      <4>2. l # level => g[l + 1] = f[l + 1]
        BY <3>2, <4>1
      <4>3. Step(g, l) = Step(f, l)
        BY <4>2
      <4>4. l # level - (m + 1) => l \in (level - m)..level
        BY <3>3
      <4> HIDE DEF Step
      <4>5. l # level - (m + 1) => f[l] = Step(f, l)
        BY <3>1, <4>4
      <4>6. QED BY <3>2, <4>3, <4>5
    <3> HIDE DEF Step
    <3>5. g = [l \in (level - (m + 1))..level |-> Step(g, l)]
      BY <3>2, <3>4
    <3>6. QED BY <3>3, <3>5
  <2> HIDE DEF S
  <2>3. 0..level \subseteq S
    BY <2>1, <2>2, UpToAll
  <2>4. QED BY <2>3
<1> DEFINE at[top \in 0..level] ==
             IF top = level THEN [b |-> b, merging |-> TRUE]
             ELSE Prototype!MergeWithBuddy(at[top + 1], top + 1, Prototype!get_index(top + 1, address))
<1>2. Prototype!MergeUp(b, level, address) = at[0].b
  BY DEF Prototype!MergeUp
<1>3. at = [l \in 0..level |-> Step(at, l)]
  <2>1. PICK g : g = [l \in (level - level)..level |-> Step(g, l)]
    BY <1>1
  <2>2. level - level = 0
    OBVIOUS
  <2>3. g = [l \in 0..level |-> Step(g, l)]
    BY <2>1, <2>2
  <2>4. QED BY <2>3
<1> HIDE DEF at, S
<1>4. at[level] = [b |-> b, merging |-> TRUE]
  <2>1. level \in 0..level
    OBVIOUS
  <2>2. QED BY <2>1, <1>3
<1>5. ASSUME NEW l \in 0..(level - 1)
      PROVE  at[l] = Prototype!MergeWithBuddy(at[l + 1], l + 1, Prototype!get_index(l + 1, address))
  <2>1. l \in 0..level /\ l # level
    OBVIOUS
  <2>2. QED BY <2>1, <1>3
<1>6. AreMerges(at, b, level, address)
  BY <1>4, <1>5 DEF AreMerges
<1>7. QED BY <1>2, <1>6

\* A used block is freed, and its buddies are free up to below a level.
CanJoin(statuses, lists, freed, level, top) ==
  /\ CanMerge(statuses, freed, level, top) /\ freed = Start(BlockAt(freed, level))
  /\ lists \in [Level -> Seq(Unit)] /\ IsListed(statuses, lists)

\* The lists without what is joined up to a level.
JoinedLists(lists, freed, level, top) ==
  [l \in Level |-> IF l \in (top + 1)..level
                   THEN RemoveFirst(lists[l], Start(Buddy(BlockAt(freed, l)))) ELSE lists[l]]

\* Those have no unit twice, and not what is joined.
LEMMA JoinedIsApart ==
  ASSUME NEW statuses, NEW lists, NEW freed, NEW level, NEW top,
         CanJoin(statuses, lists, freed, level, top)
  PROVE  LET joined == JoinedLists(lists, freed, level, top)
             block == Start(BlockAt(freed, top))
         IN /\ joined \in [Level -> Seq(Unit)] /\ Apart(joined) /\ NoneIn(joined, block)
            /\ IsUpdate(MergedLists(lists, freed, level, top), joined, top, <<block>> \o joined[top])
<1>1. /\ freed \in Unit /\ level \in Level /\ top \in Level /\ top <= level
      /\ statuses \in [Block -> Status] /\ IsTree(statuses)
      /\ lists \in [Level -> Seq(Unit)] /\ IsListed(statuses, lists)
      /\ CanMerge(statuses, freed, level, top) /\ freed = Start(BlockAt(freed, level))
      /\ \A l \in (top + 1)..level : statuses[Buddy(BlockAt(freed, l))] = "Free"
      /\ top \in Nat /\ level \in Nat
  BY Sizes DEF CanJoin, CanMerge
<1>2. PICK joined, block, more :
        /\ joined = JoinedLists(lists, freed, level, top)
        /\ block = Start(BlockAt(freed, top))
        /\ more = MergedLists(lists, freed, level, top)
  OBVIOUS
<1>3. block \in Unit
  BY <1>1, <1>2, Starts
<1>4. joined \in [Level -> Seq(Unit)]
  <2>1. ASSUME NEW l \in Level, l \in (top + 1)..level
        PROVE  RemoveFirst(lists[l], Start(Buddy(BlockAt(freed, l)))) \in Seq(Unit)
    <3>1. PICK list \in Seq(Unit) : list = lists[l]
      BY <1>1
    <3>2. l # 0
      BY <1>1, <2>1
    <3>3. PICK v \in Unit : BlockAt(v, l) = Buddy(BlockAt(freed, l)) /\ v = Start(Buddy(BlockAt(freed, l)))
      BY <1>1, <3>2, Buddies
    <3>4. v % Size[l] = 0
      <4>1. Start(BlockAt(v, l)) % Size[l] = 0
        BY Starts
      <4>2. QED BY <3>3, <4>1
    <3>5. v \in Range(list) /\ IsInjective(list)
      BY <1>1, <2>1, <3>1, <3>3, <3>4 DEF IsListed, FreeStarts
    <3>6. QED BY <3>1, <3>3, <3>5, Taken
  <2>2. \A l \in Level : lists[l] \in Seq(Unit)
    BY <1>1
  <2>3. QED BY <1>2, <2>1, <2>2 DEF JoinedLists
<1>5. IsUpdate(more, joined, top, <<block>> \o joined[top])
  <2>1. (IF top = level THEN freed ELSE Start(BlockAt(freed, top))) = block
    BY <1>1, <1>2
  <2>2. top \notin (top + 1)..level
    BY <1>1
  <2>3. joined[top] = lists[top]
    BY <1>1, <1>2, <2>2 DEF JoinedLists
  <2>4. more = [l \in Level |->
                 IF l = top THEN <<block>> \o lists[l]
                 ELSE IF l \in (top + 1)..level THEN RemoveFirst(lists[l], Start(Buddy(BlockAt(freed, l))))
                 ELSE lists[l]]
    BY <1>2, <2>1 DEF MergedLists
  <2>5. more = [l \in Level |-> IF l = top THEN <<block>> \o joined[top] ELSE joined[l]]
    BY <1>2, <2>3, <2>4 DEF JoinedLists
  <2>6. DOMAIN joined = Level
    BY <1>2 DEF JoinedLists
  <2>7. QED BY <2>5, <2>6 DEF IsUpdate
<1>6. Apart(more)
  <2>1. /\ MergedStatuses(statuses, freed, level, top) \in [Block -> Status]
        /\ IsTree(MergedStatuses(statuses, freed, level, top))
    BY <1>1, MergeUses, MergeKeepsTree
  <2>2. more \in [Level -> Seq(Unit)] /\ IsListed(MergedStatuses(statuses, freed, level, top), more)
    BY <1>1, <1>2, MergeKeepsLists
  <2>3. QED BY <2>1, <2>2, ListedIsApart
<1>7. Apart(joined) /\ NoneIn(joined, block)
  BY <1>1, <1>3, <1>4, <1>5, <1>6, BehindIsApart
<1>8. QED BY <1>2, <1>4, <1>5, <1>7

\* What can be joined up to a level can be joined up to a deeper one.
LEMMA CanJoinLess ==
  ASSUME NEW statuses, NEW lists, NEW freed, NEW level, NEW top,
         CanJoin(statuses, lists, freed, level, top), NEW l \in top..level
  PROVE  /\ CanJoin(statuses, lists, freed, level, l)
         /\ l \in Level /\ top \in Level /\ level \in Level /\ freed \in Unit
         /\ top \in Nat /\ level \in Nat /\ l \in Nat /\ top <= level
<1>1. top \in Level /\ level \in Level /\ top \in Nat /\ level \in Nat /\ top <= level /\ freed \in Unit
  BY Sizes DEF CanJoin, CanMerge
<1>2. l \in Level /\ l \in Nat /\ l <= level /\ \A k \in (l + 1)..level : k \in (top + 1)..level
  BY <1>1, Sizes DEF Level
<1>3. CanMerge(statuses, freed, level, l)
  BY <1>2 DEF CanJoin, CanMerge
<1>4. QED BY <1>1, <1>2, <1>3 DEF CanJoin

\* Two halves are free, what they are the halves of is split, and the other half
\* is in its list.
CanJoinHalves(statuses, lists, p, q, r, l) ==
  /\ statuses[p] = "Free" /\ statuses[q] = "Free" /\ statuses[r] = "Split"
  /\ \E j : IsPlace(Start(q), lists[l], j)

\* merge() finds them when it comes to a level where the buddy is free.
LEMMA HalvesAreFree ==
  ASSUME NEW statuses, NEW lists, NEW freed, NEW level, NEW l, l - 1 \in Level,
         CanJoin(statuses, lists, freed, level, l - 1), l \in Level, l <= level,
         NEW p, NEW q, NEW r, AreHalves(p, q, r, freed, l)
  PROVE  CanJoinHalves(MergedStatuses(statuses, freed, level, l), JoinedLists(lists, freed, level, l),
                       p, q, r, l)
<1>1. /\ freed \in Unit /\ level \in Level /\ l \in Nat /\ level \in Nat /\ l # 0
      /\ CanMerge(statuses, freed, level, l)
      /\ lists \in [Level -> Seq(Unit)] /\ IsListed(statuses, lists)
      /\ statuses[q] = "Free"
  <2>1. /\ freed \in Unit /\ level \in Level /\ l \in Nat /\ level \in Nat /\ l - 1 \in Nat
    BY Sizes DEF CanJoin, CanMerge
  <2>2. l \in (l - 1)..level /\ l \in ((l - 1) + 1)..level /\ l # 0
    BY <2>1
  <2>3. CanJoin(statuses, lists, freed, level, l)
    BY <2>2, CanJoinLess
  <2>4. statuses[Buddy(BlockAt(freed, l))] = "Free"
    BY <2>2 DEF CanJoin, CanMerge
  <2>5. QED BY <2>1, <2>2, <2>3, <2>4 DEF CanJoin, AreHalves
<1>2. PICK v \in Unit : /\ BlockAt(v, l) = q /\ q # p /\ v = Start(q)
                        /\ p = BlockAt(freed, l) /\ r = BlockAt(freed, l - 1)
  <2>1. PICK v \in Unit : /\ BlockAt(v, l) = Buddy(BlockAt(freed, l))
                          /\ BlockAt(v, l) # BlockAt(freed, l)
                          /\ v = Start(Buddy(BlockAt(freed, l)))
    BY <1>1, Buddies
  <2>2. QED BY <2>1 DEF AreHalves
<1>3. PICK merged : merged = MergedStatuses(statuses, freed, level, l)
  OBVIOUS
<1>4. merged[p] = "Free"
  <2>1. MergedStatuses(statuses, freed, level, l)[BlockAt(freed, l)] =
           IF l = l /\ BlockAt(freed, l) = BlockAt(freed, l) THEN "Free"
           ELSE IF /\ l \in (l + 1)..level
                   /\ BlockAt(freed, l) = BlockAt(freed, l) \/ BlockAt(freed, l) = Buddy(BlockAt(freed, l))
           THEN "Invalid"
           ELSE statuses[BlockAt(freed, l)]
    BY <1>1, Merged
  <2>2. QED BY <1>2, <1>3, <2>1
<1>5. merged[q] = "Free"
  <2>1. MergedStatuses(statuses, freed, level, l)[BlockAt(v, l)] =
           IF l = l /\ BlockAt(v, l) = BlockAt(freed, l) THEN "Free"
           ELSE IF /\ l \in (l + 1)..level
                   /\ BlockAt(v, l) = BlockAt(freed, l) \/ BlockAt(v, l) = Buddy(BlockAt(freed, l))
           THEN "Invalid"
           ELSE statuses[BlockAt(v, l)]
    BY <1>1, Merged
  <2>2. l \notin (l + 1)..level
    BY <1>1
  <2>3. QED BY <1>1, <1>2, <1>3, <2>1, <2>2
<1>6. merged[r] = "Split"
  <2>1. l - 1 < l
    BY <1>1
  <2>2. MergedStatuses(statuses, freed, level, l)[BlockAt(freed, l - 1)] = statuses[BlockAt(freed, l - 1)]
    BY <1>1, <2>1, MergedElsewhere
  <2>3. statuses[BlockAt(freed, l - 1)] =
           IF l - 1 < level THEN "Split" ELSE IF l - 1 = level THEN "Used" ELSE "Invalid"
    BY <1>1, FreedPath
  <2>4. l - 1 < level
    BY <1>1
  <2>5. QED BY <1>2, <1>3, <2>2, <2>3, <2>4
<1>7. \E j : IsPlace(Start(q), JoinedLists(lists, freed, level, l)[l], j)
  <2>1. PICK list \in Seq(Unit) : list = lists[l]
    BY <1>1
  <2>2. v % Size[l] = 0
    <3>1. Start(BlockAt(v, l)) % Size[l] = 0
      BY Starts
    <3>2. QED BY <1>2, <3>1
  <2>3. v \in Range(list)
    BY <1>1, <1>2, <2>1, <2>2 DEF IsListed, FreeStarts
  <2>4. PICK j \in 1..Len(list) : list[j] = v
    BY <2>3 DEF Range
  <2>5. l \notin (l + 1)..level
    BY <1>1
  <2>6. JoinedLists(lists, freed, level, l)[l] = list
    BY <2>1, <2>5 DEF JoinedLists
  <2>7. IsPlace(Start(q), list, j)
    BY <1>2, <2>4 DEF IsPlace
  <2>8. QED BY <2>6, <2>7
<1>8. QED BY <1>3, <1>4, <1>5, <1>6, <1>7 DEF CanJoinHalves

\* The lists when one more level is joined.
LEMMA NextJoinedLists ==
  ASSUME NEW lists, NEW freed, NEW level \in Nat, NEW l \in Level, l # 0, l <= level
  PROVE  IsUpdate(JoinedLists(lists, freed, level, l - 1), JoinedLists(lists, freed, level, l), l,
                  RemoveFirst(JoinedLists(lists, freed, level, l)[l], Start(Buddy(BlockAt(freed, l)))))
<1>1. PICK e : e = [k \in Level |-> RemoveFirst(lists[k], Start(Buddy(BlockAt(freed, k))))]
  OBVIOUS
<1>2. JoinedLists(lists, freed, level, l) = [k \in Level |-> IF k \in (l + 1)..level THEN e[k] ELSE lists[k]]
  BY <1>1 DEF JoinedLists
<1>3. JoinedLists(lists, freed, level, l - 1) =
        [k \in Level |-> IF k \in ((l - 1) + 1)..level THEN e[k] ELSE lists[k]]
  BY <1>1 DEF JoinedLists
<1>4. l \in Nat
  BY Sizes
<1>5. \A k \in Level : k \in ((l - 1) + 1)..level <=> k = l \/ k \in (l + 1)..level
  BY <1>4, Sizes
<1>6. l \notin (l + 1)..level
  BY <1>4
<1>7. JoinedLists(lists, freed, level, l)[l] = lists[l]
  BY <1>2, <1>6
<1>8. e[l] = RemoveFirst(lists[l], Start(Buddy(BlockAt(freed, l))))
  BY <1>1
<1>9. JoinedLists(lists, freed, level, l - 1) = [JoinedLists(lists, freed, level, l) EXCEPT ![l] = e[l]]
  BY <1>2, <1>3, <1>5
<1>10. QED BY <1>7, <1>8, <1>9 DEF IsUpdate

\* The statuses when one more level is joined.
LEMMA NextJoinedStatuses ==
  ASSUME NEW statuses, NEW freed \in Unit, NEW level \in Nat, NEW l \in Level, l # 0, l <= level,
         NEW p, NEW q, NEW r, AreHalves(p, q, r, freed, l)
  PROVE  AreJoined(MergedStatuses(statuses, freed, level, l - 1),
                   MergedStatuses(statuses, freed, level, l), p, q, r)
<1>1. /\ p \in Block /\ q \in Block /\ r \in Block /\ p # q /\ r # p /\ r # q
      /\ p[1] = l /\ q[1] = l /\ r[1] = l - 1 /\ l \in Nat
  <2>1. /\ p \in Block /\ q \in Block /\ r \in Block /\ p # q /\ r # p /\ r # q
        /\ p = <<l, freed \div Size[l]>> /\ q = <<l, Prototype!get_buddy_index(freed \div Size[l])>>
        /\ r = <<l - 1, (freed \div Size[l]) \div 2>>
    BY HalvesAre
  <2>2. QED BY <2>1, Sizes
<1>2. p = BlockAt(freed, l) /\ q = Buddy(BlockAt(freed, l)) /\ r = BlockAt(freed, l - 1)
  BY DEF AreHalves
<1>3. PICK gone : gone = {c \in Block :
                            /\ c[1] \in (l + 1)..level
                            /\ c \in {BlockAt(freed, c[1]), Buddy(BlockAt(freed, c[1]))}}
  OBVIOUS
<1>4. MergedStatuses(statuses, freed, level, l) =
        [c \in Block |-> IF c = p THEN "Free" ELSE IF c \in gone THEN "Invalid" ELSE statuses[c]]
  BY <1>2, <1>3 DEF MergedStatuses
<1>5. MergedStatuses(statuses, freed, level, l - 1) =
        [c \in Block |-> IF c = r THEN "Free" ELSE IF c \in gone \cup {p, q} THEN "Invalid" ELSE statuses[c]]
  <2>1. ASSUME NEW c \in Block
        PROVE  (c[1] \in ((l - 1) + 1)..level /\ c \in {BlockAt(freed, c[1]), Buddy(BlockAt(freed, c[1]))})
                 <=> c \in gone \cup {p, q}
    <3>1. c[1] \in Nat
      BY BlockIndices, Sizes
    <3>2. c[1] \in ((l - 1) + 1)..level <=> c[1] = l \/ c[1] \in (l + 1)..level
      BY <1>1, <3>1
    <3>3. c[1] = l => (c \in {BlockAt(freed, c[1]), Buddy(BlockAt(freed, c[1]))} <=> c \in {p, q})
      BY <1>2
    <3>4. c \in {p, q} => c[1] = l
      BY <1>1
    <3>5. QED BY <1>3, <3>2, <3>3, <3>4
  <2>2. QED BY <1>2, <2>1 DEF MergedStatuses
<1>6. r \notin gone /\ p \notin gone /\ q \notin gone
  BY <1>1, <1>3
<1>7. MergedStatuses(statuses, freed, level, l - 1) =
        [MergedStatuses(statuses, freed, level, l) EXCEPT ![p] = "Invalid", ![q] = "Invalid", ![r] = "Free"]
  BY <1>1, <1>4, <1>5, <1>6
<1>8. QED BY <1>7 DEF AreJoined

\* The prototype finds the other half where the kernel does.
LEMMA BuddyIsFound ==
  ASSUME NEW u \in Unit, NEW l \in Level, l # 0
  PROVE  /\ Prototype!get_index(l, Ptr(u)) = u \div Size[l]
         /\ Prototype!unique_id(l, Prototype!get_buddy_index(u \div Size[l])) = IdOf(Buddy(BlockAt(u, l)))
<1>1. PICK p, q, r : AreHalves(p, q, r, u, l)
  BY DEF AreHalves
<1>2. q = <<l, Prototype!get_buddy_index(u \div Size[l])>>
  BY <1>1, HalvesAre
<1>3. q = Buddy(BlockAt(u, l))
  BY <1>1 DEF AreHalves
<1>4. IdOf(q) = Prototype!unique_id(l, Prototype!get_buddy_index(u \div Size[l]))
  BY <1>2 DEF IdOf
<1>5. QED BY <1>3, <1>4, SameIndices

\* What the loop of free() has come to when all below a level is joined.
HasJoinedTo(loop, statuses, lists, freed, level, l) ==
  \E b, known :
    /\ loop = [b |-> b, merging |-> TRUE]
    /\ Joining(b, MergedStatuses(statuses, freed, level, l), JoinedLists(lists, freed, level, l),
               l, Start(BlockAt(freed, l)), known)

\* A step of the loop, where the other half is free.
LEMMA LoopJoins ==
  ASSUME NEW statuses, NEW lists, NEW freed, NEW level, NEW l, l - 1 \in Level,
         CanJoin(statuses, lists, freed, level, l - 1), l \in Level, l <= level,
         NEW loop, HasJoinedTo(loop, statuses, lists, freed, level, l)
  PROVE  HasJoinedTo(Prototype!MergeWithBuddy(loop, l, Prototype!get_index(l, Ptr(freed))),
                     statuses, lists, freed, level, l - 1)
<1>1. PICK b, known :
        /\ loop = [b |-> b, merging |-> TRUE]
        /\ Joining(b, MergedStatuses(statuses, freed, level, l), JoinedLists(lists, freed, level, l),
                   l, Start(BlockAt(freed, l)), known)
  BY DEF HasJoinedTo
<1>2. PICK s, t, s2, t2 :
        /\ s = MergedStatuses(statuses, freed, level, l) /\ t = JoinedLists(lists, freed, level, l)
        /\ s2 = MergedStatuses(statuses, freed, level, l - 1)
        /\ t2 = JoinedLists(lists, freed, level, l - 1)
  OBVIOUS
<1>3. PICK p, q, r : AreHalves(p, q, r, freed, l)
  BY DEF AreHalves
<1>4. /\ freed \in Unit /\ level \in Level /\ l \in Nat /\ level \in Nat /\ l # 0
      /\ CanJoin(statuses, lists, freed, level, l)
  <2>1. /\ freed \in Unit /\ level \in Level /\ l \in Nat /\ level \in Nat /\ l - 1 \in Nat
    BY Sizes DEF CanJoin, CanMerge
  <2>2. l \in (l - 1)..level /\ l # 0
    BY <2>1
  <2>3. QED BY <2>1, <2>2, CanJoinLess
<1>5. /\ p \in Block /\ q \in Block /\ r \in Block
      /\ p = BlockAt(freed, l) /\ q = Buddy(BlockAt(freed, l)) /\ r = BlockAt(freed, l - 1)
  BY <1>3, <1>4, HalvesAre DEF AreHalves
<1>6. CanJoinHalves(s, t, p, q, r, l)
  BY <1>2, <1>3, HalvesAreFree
<1>7. PICK j : IsPlace(Start(q), t[l], j)
  BY <1>6 DEF CanJoinHalves
<1>8. s \in [Block -> Status]
  <2>1. CanMerge(statuses, freed, level, l)
    BY <1>4 DEF CanJoin
  <2>2. QED BY <1>2, <2>1, MergeUses
<1>9. t \in [Level -> Seq(Unit)] /\ Apart(t) /\ NoneIn(t, Start(p))
  BY <1>2, <1>4, <1>5, JoinedIsApart
<1>10. NoneIn(t2, Start(r))
  BY <1>2, <1>5, JoinedIsApart
<1>11. PICK shorter : shorter = RemoveFirst(t[l], Start(q))
  OBVIOUS
<1>12. IsUpdate(t2, t, l, shorter)
  BY <1>2, <1>4, <1>5, <1>11, NextJoinedLists
<1>13. IsWithout(shorter, t[l], j)
  <2>1. PICK list \in Seq(Unit) : list = t[l] /\ IsInjective(list)
    BY <1>9, ApartIsInjective
  <2>2. j \in 1..Len(list) /\ list[j] = Start(q)
    BY <1>7, <2>1 DEF IsPlace
  <2>3. PICK e : e = Start(q)
    OBVIOUS
  <2>4. IsWithout(RemoveFirst(list, e), list, j)
    BY <2>1, <2>2, <2>3, RemovedFirst
  <2>5. QED BY <1>11, <2>1, <2>3, <2>4
<1>14. AreJoined(s2, s, p, q, r)
  BY <1>2, <1>3, <1>4, NextJoinedStatuses
<1>15. Joining(b, s, t, l, Start(p), known)
  BY <1>1, <1>2, <1>5
<1>16. PICK c : c = Prototype!merge(b, l, freed \div Size[l])
  OBVIOUS
<1>17. Joining(c, s2, t2, l - 1, Start(r), Nil)
  <2>1. s[p] = "Free" /\ s[q] = "Free" /\ s[r] = "Split"
    BY <1>6 DEF CanJoinHalves
  <2>2. QED BY <1>3, <1>4, <1>7, <1>8, <1>9, <1>10, <1>12, <1>13, <1>14, <1>15, <1>16, <2>1, JoinMirrors
<1>18. Prototype!MergeWithBuddy(loop, l, Prototype!get_index(l, Ptr(freed))) = [b |-> c, merging |-> TRUE]
  <2>1. /\ Prototype!get_index(l, Ptr(freed)) = freed \div Size[l]
        /\ Prototype!unique_id(l, Prototype!get_buddy_index(freed \div Size[l])) = IdOf(q)
    BY <1>4, <1>5, BuddyIsFound
  <2>2. b.raised = "nothing" /\ b.block_statuses[IdOf(q)] = "free"
    BY <1>5, <1>6, <1>15 DEF Joining, SameStatuses, Lower, CanJoinHalves
  <2>3. loop.b = b /\ loop.merging = TRUE
    BY <1>1
  <2>4. QED BY <1>16, <2>1, <2>2, <2>3 DEF Prototype!MergeWithBuddy
<1>19. Joining(c, MergedStatuses(statuses, freed, level, l - 1), JoinedLists(lists, freed, level, l - 1),
               l - 1, Start(BlockAt(freed, l - 1)), Nil)
  BY <1>2, <1>5, <1>17
<1>20. QED BY <1>18, <1>19 DEF HasJoinedTo

\* The loop ends where the other half is not free.
LEMMA LoopStops ==
  ASSUME NEW statuses, NEW lists, NEW freed, NEW level, NEW l,
         CanJoin(statuses, lists, freed, level, l), l # 0,
         statuses[Buddy(BlockAt(freed, l))] # "Free",
         NEW loop, HasJoinedTo(loop, statuses, lists, freed, level, l)
  PROVE  Prototype!MergeWithBuddy(loop, l, Prototype!get_index(l, Ptr(freed))) =
           [b |-> loop.b, merging |-> FALSE]
<1>1. PICK b, known :
        /\ loop = [b |-> b, merging |-> TRUE]
        /\ Joining(b, MergedStatuses(statuses, freed, level, l), JoinedLists(lists, freed, level, l),
                   l, Start(BlockAt(freed, l)), known)
  BY DEF HasJoinedTo
<1>2. /\ freed \in Unit /\ level \in Level /\ l \in Level /\ l \in Nat /\ level \in Nat
      /\ CanMerge(statuses, freed, level, l) /\ statuses \in [Block -> Status]
  BY Sizes DEF CanJoin, CanMerge
<1>3. PICK q : q = Buddy(BlockAt(freed, l))
  OBVIOUS
<1>4. PICK v \in Unit : BlockAt(v, l) = q /\ q # BlockAt(freed, l)
  BY <1>2, <1>3, Buddies
<1>5. q \in Block
  BY <1>2, <1>4, Blocks
<1>6. MergedStatuses(statuses, freed, level, l)[q] = statuses[q]
  <2>1. MergedStatuses(statuses, freed, level, l)[BlockAt(v, l)] = statuses[BlockAt(v, l)]
    BY <1>2, <1>4, MergedElsewhere
  <2>2. QED BY <1>4, <2>1
<1>7. b.block_statuses[IdOf(q)] # "free"
  <2>1. statuses[q] \in Status /\ statuses[q] # "Free"
    BY <1>2, <1>3, <1>5
  <2>2. b.block_statuses[IdOf(q)] = Lower(statuses[q])
    BY <1>1, <1>5, <1>6 DEF Joining, SameStatuses
  <2>3. QED BY <2>1, <2>2 DEF Lower, Status
<1>8. /\ Prototype!get_index(l, Ptr(freed)) = freed \div Size[l]
      /\ Prototype!unique_id(l, Prototype!get_buddy_index(freed \div Size[l])) = IdOf(q)
  BY <1>2, <1>3, BuddyIsFound
<1>9. loop.b = b
  BY <1>1
<1>10. QED BY <1>7, <1>8, <1>9 DEF Prototype!MergeWithBuddy

\* The loop of free() joins up to where the kernel does.
LEMMA LoopJoinsUp ==
  ASSUME NEW statuses, NEW lists, NEW freed, NEW level, NEW top,
         CanJoin(statuses, lists, freed, level, top),
         NEW b, NEW steps, AreMerges(steps, b, level, Ptr(freed)),
         NEW known, Joining(b, MergedStatuses(statuses, freed, level, level),
                            JoinedLists(lists, freed, level, level), level,
                            Start(BlockAt(freed, level)), known)
  PROVE  HasJoinedTo(steps[top], statuses, lists, freed, level, top)
<1>1. /\ top \in Level /\ level \in Level /\ top \in Nat /\ level \in Nat /\ top <= level
      /\ Levels \in Nat /\ Level = 0..(Levels - 1)
  BY Sizes DEF CanJoin, CanMerge, Level
<1>2. /\ steps[level] = [b |-> b, merging |-> TRUE]
      /\ \A l \in 0..(level - 1) :
           steps[l] = Prototype!MergeWithBuddy(steps[l + 1], l + 1, Prototype!get_index(l + 1, Ptr(freed)))
  BY DEF AreMerges
<1> DEFINE n == level - top
           Done(l) == HasJoinedTo(steps[l], statuses, lists, freed, level, l)
           S == {i \in 0..n : Done(level - i)}
<1>3. n \in Nat /\ level - n = top /\ level - 0 = level
  BY <1>1
<1>4. 0 \in S
  <2>1. Done(level)
    BY <1>2 DEF HasJoinedTo
  <2> HIDE DEF Done
  <2>2. QED BY <2>1, <1>3
<1>5. ASSUME NEW i \in 0..(n - 1), i \in S PROVE i + 1 \in S
  <2>1. PICK l : l = level - i
    OBVIOUS
  <2>2. /\ l \in Level /\ l - 1 \in Level /\ l <= level /\ l - 1 \in top..level /\ l - 1 \in 0..(level - 1)
        /\ (l - 1) + 1 = l /\ level - (i + 1) = l - 1 /\ i + 1 \in 0..n
    BY <1>1, <1>3, <1>5, <2>1
  <2>3. CanJoin(statuses, lists, freed, level, l - 1)
    BY <2>2, CanJoinLess
  <2>4. steps[l - 1] = Prototype!MergeWithBuddy(steps[l], l, Prototype!get_index(l, Ptr(freed)))
    BY <1>2, <2>2
  <2>5. HasJoinedTo(steps[l], statuses, lists, freed, level, l)
    BY <1>5, <2>1
  <2>6. Done(l - 1)
    BY <2>2, <2>3, <2>4, <2>5, LoopJoins
  <2> HIDE DEF Done
  <2>7. QED BY <2>2, <2>6
<1> HIDE DEF S, Done, n
<1>6. 0..n \subseteq S
  BY <1>3, <1>4, <1>5, UpToAll
<1>7. Done(top)
  <2>1. n \in S
    BY <1>3, <1>6
  <2>2. QED BY <2>1, <1>3 DEF S
<1>8. QED BY <1>7 DEF Done

\* The loop has ended with an object.
HasEnded(loop, b) == loop.b = b /\ loop.merging = FALSE

\* When it has ended, nothing is joined any more.
LEMMA EndedStays ==
  ASSUME NEW loop, NEW b, HasEnded(loop, b), NEW l, NEW i
  PROVE  HasEnded(Prototype!MergeWithBuddy(loop, l, i), b)
BY DEF HasEnded, Prototype!MergeWithBuddy

\* From where it ends, the loop of free() changes nothing.
LEMMA LoopIsDone ==
  ASSUME NEW top \in Nat, NEW level \in Nat, top <= level,
         NEW b, NEW steps, NEW address, AreMerges(steps, b, level, address),
         NEW c, top # 0 => HasEnded(steps[top - 1], c), top = 0 => steps[0].b = c
  PROVE  steps[0].b = c
<1>1. \A l \in 0..(level - 1) :
        steps[l] = Prototype!MergeWithBuddy(steps[l + 1], l + 1, Prototype!get_index(l + 1, address))
  BY DEF AreMerges
<1>2. SUFFICES ASSUME top # 0 PROVE steps[0].b = c
  OBVIOUS
<1>3. PICK n \in Nat : n = top - 1
  BY <1>2
<1> DEFINE S == {i \in 0..n : HasEnded(steps[n - i], c)}
<1>4. 0 \in S
  BY <1>2, <1>3
<1>5. ASSUME NEW i \in 0..(n - 1), i \in S PROVE i + 1 \in S
  <2>1. PICK l : l = n - (i + 1)
    OBVIOUS
  <2>2. l \in 0..(level - 1) /\ l + 1 = n - i /\ i + 1 \in 0..n
    BY <1>3, <2>1
  <2>3. HasEnded(steps[l + 1], c)
    BY <1>5, <2>2
  <2>4. HasEnded(steps[l], c)
    BY <1>1, <2>2, <2>3, EndedStays
  <2>5. QED BY <2>1, <2>2, <2>4
<1> HIDE DEF S
<1>6. 0..n \subseteq S
  BY <1>4, <1>5, UpToAll
<1>7. n \in S
  BY <1>6
<1>8. HasEnded(steps[n - n], c) /\ n - n = 0
  BY <1>7 DEF S
<1>9. QED BY <1>8 DEF HasEnded

\* The object at the end of the loop of free().
LEMMA MergeUpEnds ==
  ASSUME NEW statuses, NEW lists, NEW freed, NEW level, NEW top,
         CanJoin(statuses, lists, freed, level, top),
         top # 0 => statuses[Buddy(BlockAt(freed, top))] # "Free",
         NEW b, NEW known, Joining(b, MergedStatuses(statuses, freed, level, level),
                                   JoinedLists(lists, freed, level, level), level,
                                   Start(BlockAt(freed, level)), known)
  PROVE  \E last : Joining(Prototype!MergeUp(b, level, Ptr(freed)),
                           MergedStatuses(statuses, freed, level, top),
                           JoinedLists(lists, freed, level, top), top,
                           Start(BlockAt(freed, top)), last)
<1>1. top \in Nat /\ level \in Nat /\ top <= level
  BY Sizes DEF CanJoin, CanMerge
<1>2. PICK steps : /\ AreMerges(steps, b, level, Ptr(freed))
                   /\ Prototype!MergeUp(b, level, Ptr(freed)) = steps[0].b
  BY <1>1, MergeUpSteps
<1>3. HasJoinedTo(steps[top], statuses, lists, freed, level, top)
  BY <1>2, LoopJoinsUp
<1>4. PICK c, last :
        /\ steps[top] = [b |-> c, merging |-> TRUE]
        /\ Joining(c, MergedStatuses(statuses, freed, level, top), JoinedLists(lists, freed, level, top),
                   top, Start(BlockAt(freed, top)), last)
  BY <1>3 DEF HasJoinedTo
<1>5. steps[top].b = c
  BY <1>4
<1>6. top # 0 => HasEnded(steps[top - 1], c)
  <2>1. SUFFICES ASSUME top # 0 PROVE HasEnded(steps[top - 1], c)
    OBVIOUS
  <2>2. Prototype!MergeWithBuddy(steps[top], top, Prototype!get_index(top, Ptr(freed))) =
           [b |-> c, merging |-> FALSE]
    <3>1. PICK loop : loop = steps[top]
      OBVIOUS
    <3>2. HasJoinedTo(loop, statuses, lists, freed, level, top)
      BY <1>3, <3>1
    <3>3. Prototype!MergeWithBuddy(loop, top, Prototype!get_index(top, Ptr(freed))) =
            [b |-> loop.b, merging |-> FALSE]
      BY <2>1, <3>2, LoopStops
    <3>4. loop.b = c
      BY <1>5, <3>1
    <3>5. QED BY <3>1, <3>3, <3>4
  <2>3. top - 1 \in 0..(level - 1) /\ (top - 1) + 1 = top
    BY <1>1, <2>1
  <2>4. steps[top - 1] = [b |-> c, merging |-> FALSE]
    BY <1>2, <2>2, <2>3 DEF AreMerges
  <2>5. QED BY <2>4 DEF HasEnded
<1>7. top = 0 => steps[0].b = c
  BY <1>5
<1>8. steps[0].b = c
  BY <1>1, <1>2, <1>6, <1>7, LoopIsDone
<1>9. QED BY <1>2, <1>4, <1>8

-----------------------------------------------------------------------------
(* free() *)

\* When all lists are linked both ways, nothing is left but a longer list.
LEMMA DoublyLinkedEnds ==
  ASSUME NEW c, NEW statuses, NEW lists \in [Level -> Seq(Unit)], NEW l \in Level, NEW u \in Unit,
         NEW known, Joining(c, statuses, lists, l, u, known), Apart(lists), NoneIn(lists, u),
         Prototype!IsDoublyLinked(c),
         NEW more, IsUpdate(more, lists, l, <<u>> \o lists[l])
  PROVE  Mirrors(c, statuses, more)
<1>1. /\ c \in Object /\ c.raised = "nothing" /\ SameStatuses(c.block_statuses, statuses)
      /\ Loosely(c, lists, l, u, known)
  BY DEF Joining
<1>2. PICK list \in Seq(Unit) : list = lists[l]
  OBVIOUS
<1>3. PICK longer : longer = <<u>> \o list
  OBVIOUS
<1>4. more[l] = longer
  BY <1>2, <1>3 DEF IsUpdate
<1>5. /\ longer \in Seq(Unit) /\ Len(longer) = Len(list) + 1
      /\ longer[1] = u /\ \A i \in 2..(Len(list) + 1) : longer[i] = list[i - 1]
      /\ \A i \in Int : At(longer, i) = IF i = 1 THEN Ptr(u) ELSE At(list, i - 1)
  BY <1>3, InFront
<1>6. IsInjective(longer)
  <2>1. more \in [Level -> Seq(Unit)] /\ Apart(more)
    BY InFrontIsApart
  <2>2. QED BY <1>4, <2>1, ApartIsInjective
<1>7. /\ c.free_lists[l] = Ptr(u) /\ c.next[Ptr(u)] = At(list, 1)
      /\ \A i \in 1..Len(list) :
           /\ c.next[Ptr(list[i])] = At(list, i + 1)
           /\ c.prev[Ptr(list[i])] = IF i = 1 THEN known ELSE At(list, i - 1)
  BY <1>1, <1>2 DEF Loosely, LooseChain
<1>8. NextChain(c.free_lists[l], c.next, longer)
  <2>1. c.free_lists[l] = At(longer, 1)
    BY <1>5, <1>7
  <2>2. ASSUME NEW i \in 1..Len(longer) PROVE c.next[Ptr(longer[i])] = At(longer, i + 1)
    <3>1. CASE i = 1
      <4>1. At(longer, 2) = At(list, 1)
        BY <1>5
      <4>2. QED BY <1>5, <1>7, <3>1, <4>1
    <3>2. CASE i # 1
      <4>1. i \in 2..(Len(list) + 1) /\ i - 1 \in 1..Len(list) /\ Len(list) \in Nat
        BY <1>5, <3>2
      <4>2. longer[i] = list[i - 1]
        BY <1>5, <4>1
      <4>3. At(longer, i + 1) = At(list, (i + 1) - 1)
        BY <1>5, <4>1
      <4>4. c.next[Ptr(list[i - 1])] = At(list, (i - 1) + 1)
        BY <1>7, <4>1
      <4>5. (i + 1) - 1 = (i - 1) + 1
        BY <4>1
      <4>6. QED BY <4>2, <4>3, <4>4, <4>5
    <3>3. QED BY <3>1, <3>2
  <2>3. QED BY <2>1, <2>2 DEF NextChain
<1>9. known = Ptr(u) \/ lists[l] = <<>>
  <2>1. SUFFICES ASSUME list # <<>> PROVE known = Ptr(u)
    BY <1>2
  <2>2. 1 \in 1..Len(list) /\ Len(list) \in Nat
    BY <2>1
  <2>3. PICK walk : walk = Prototype!FreeList(c, l)
    OBVIOUS
  <2>4. walk = [i \in 1..Len(longer) |-> Ptr(longer[i])]
    BY <1>5, <1>6, <1>8, <2>3, WalkedList
  <2>5. Len(walk) = Len(list) + 1 /\ walk[1] = Ptr(u) /\ walk[1 + 1] = Ptr(list[1])
    <3>1. Len(longer) \in Nat /\ 2 \in 2..(Len(list) + 1)
      BY <1>5, <2>2
    <3>2. Len(walk) = Len(longer)
      BY <2>4, <3>1
    <3>3. walk[1] = Ptr(longer[1]) /\ walk[2] = Ptr(longer[2])
      BY <1>5, <2>2, <2>4
    <3>4. longer[2] = list[1]
      BY <1>5, <3>1
    <3>5. QED BY <1>5, <3>2, <3>3, <3>4
  <2>6. \A i \in 1..(Len(walk) - 1) : c.prev[walk[i + 1]] = walk[i]
    <3>1. l \in Prototype!PLevel
      BY SameLevels
    <3>2. QED BY <2>3, <3>1 DEF Prototype!IsDoublyLinked
  <2>7. 1 \in 1..(Len(walk) - 1)
    BY <2>2, <2>5
  <2>8. c.prev[Ptr(list[1])] = Ptr(u)
    BY <2>5, <2>6, <2>7
  <2>9. QED BY <1>7, <2>2, <2>8
<1>10. Linked(c, more)
  BY <1>1, <1>9, LooseEnds
<1>11. QED BY <1>1, <1>10 DEF Mirrors

\* What free() does before the loop.
IsInserted(c, b, u, level) ==
  c = [b EXCEPT
         !.free_lists[level] = Ptr(u),
         !.prev = [Prototype!SetPointer(@, b.free_lists[level], Ptr(u)) EXCEPT ![Ptr(u)] = Nil],
         !.next[Ptr(u)] = b.free_lists[level],
         !.block_statuses[IdOf(BlockAt(u, level))] = "free"]

\* The block goes in front of its list, and the first of that learns of it.
LEMMA FreedIsInFront ==
  ASSUME NEW b, NEW statuses \in [Block -> Status], NEW lists \in [Level -> Seq(Unit)],
         Mirrors(b, statuses, lists), Apart(lists), NEW level \in Level, NEW u \in Unit, NoneIn(lists, u),
         NEW c, IsInserted(c, b, u, level),
         NEW freed, IsUpdate(freed, statuses, BlockAt(u, level), "Free")
  PROVE  Joining(c, freed, lists, level, u, Ptr(u))
<1>1. /\ b \in Object /\ b.raised = "nothing" /\ SameStatuses(b.block_statuses, statuses)
      /\ Linked(b, lists)
  BY DEF Mirrors
<1>2. /\ b.free_lists \in [Level -> Pointer] /\ b.prev \in [Prototype!Address -> Pointer]
      /\ b.next \in [Prototype!Address -> Pointer]
      /\ b.block_statuses \in [Ids -> PStatus] /\ b.raised \in Exception
  BY <1>1 DEF Object
<1>3. PICK a, head : a = Ptr(u) /\ head = b.free_lists[level]
  OBVIOUS
<1>4. a \in Prototype!Address /\ a \in Pointer /\ Nil \in Pointer /\ head \in Optional /\ head \in Pointer
  <2>1. a \in Prototype!Address
    BY <1>3, Pointers
  <2>2. PICK list \in Seq(Unit) : list = lists[level]
    OBVIOUS
  <2>3. head = At(list, 1)
    BY <1>1, <1>3, <2>2 DEF Linked, Chain
  <2>4. head \in Optional
    BY <2>3, Places
  <2>5. QED BY <2>1, <2>4 DEF Pointer, Optional
<1>5. PICK block \in Block : block = BlockAt(u, level)
  BY Blocks
<1>6. PICK f : f = [b.block_statuses EXCEPT ![IdOf(block)] = "free"]
  OBVIOUS
<1>7. f \in [Ids -> PStatus] /\ SameStatuses(f, freed)
  <2>1. PICK g : g = b.block_statuses
    OBVIOUS
  <2>2. g \in [Ids -> PStatus] /\ SameStatuses(g, statuses)
    BY <1>1, <1>2, <2>1
  <2>3. "Free" \in Status /\ Lower("Free") = "free"
    BY DEF Status, Lower
  <2>4. PICK g2, s2 : /\ g2 = [g EXCEPT ![IdOf(block)] = Lower("Free")]
                      /\ s2 = [statuses EXCEPT ![block] = "Free"]
    OBVIOUS
  <2>5. g2 \in [Ids -> PStatus] /\ SameStatuses(g2, s2)
    BY <2>2, <2>3, <2>4, StatusIsSet
  <2>6. s2 = freed /\ g2 = f
    BY <1>5, <1>6, <2>1, <2>3, <2>4 DEF IsUpdate
  <2>7. QED BY <2>5, <2>6
<1>8. PICK set : IsSet(set, b.prev, head, a)
  BY DEF IsSet
<1>9. /\ set \in [Prototype!Address -> Pointer]
      /\ set = [x \in Prototype!Address |-> IF x = head THEN a ELSE b.prev[x]]
  <2>1. PICK prev0 : prev0 = b.prev
    OBVIOUS
  <2>2. prev0 \in [Prototype!Address -> Pointer] /\ IsSet(set, prev0, head, a)
    BY <1>2, <1>8, <2>1
  <2>3. /\ set \in [Prototype!Address -> Pointer]
        /\ set = [x \in Prototype!Address |-> IF x = head THEN a ELSE prev0[x]]
    BY <1>4, <2>2, SetPointers
  <2>4. QED BY <2>1, <2>3
<1>10. PICK heads, prev, next : /\ heads = [b.free_lists EXCEPT ![level] = a]
                                /\ prev = [set EXCEPT ![a] = Nil]
                                /\ next = [b.next EXCEPT ![a] = head]
  OBVIOUS
<1>11. /\ heads \in [Level -> Pointer] /\ prev \in [Prototype!Address -> Pointer]
       /\ next \in [Prototype!Address -> Pointer]
  BY <1>2, <1>4, <1>9, <1>10
<1>12. c = [b EXCEPT !.free_lists = heads, !.prev = prev, !.next = next, !.block_statuses = f]
  <2>1. c = [b EXCEPT
         !.free_lists[level] = a,
         !.prev = [Prototype!SetPointer(@, head, a) EXCEPT ![a] = Nil],
         !.next[a] = head,
         !.block_statuses[IdOf(block)] = "free"]
    BY <1>3, <1>5 DEF IsInserted
  <2>2. set = Prototype!SetPointer(b.prev, head, a)
    BY <1>8 DEF IsSet
  <2>3. b = [free_lists |-> b.free_lists, prev |-> b.prev, next |-> b.next,
             block_statuses |-> b.block_statuses, raised |-> b.raised]
    BY <1>1 DEF Object
  <2>4. QED BY <2>1, <2>2, <2>3, <1>6, <1>10
<1>13. /\ c \in Object /\ c.raised = "nothing" /\ c.block_statuses = f
       /\ c.free_lists = heads /\ c.next = next /\ c.prev = prev
  BY <1>1, <1>2, <1>7, <1>11, <1>12 DEF Object
<1>14. Loosely(c, lists, level, u, Ptr(u))
  <2>1. /\ c.free_lists = [b.free_lists EXCEPT ![level] = Ptr(u)]
        /\ c.next = [b.next EXCEPT ![Ptr(u)] = b.free_lists[level]]
    BY <1>3, <1>10, <1>13
  <2>2. c.prev[Ptr(u)] = Nil
    BY <1>3, <1>4, <1>9, <1>10, <1>13
  <2>3. \A x \in Prototype!Address :
           x # Ptr(u) => c.prev[x] = IF x = b.free_lists[level] THEN Ptr(u) ELSE b.prev[x]
    BY <1>3, <1>4, <1>9, <1>10, <1>13
  <2>4. QED BY <1>1, <2>1, <2>2, <2>3, Insertion
<1>15. QED BY <1>7, <1>13, <1>14 DEF Joining

\* The deepest used block of a unit, as free() finds it.
IsDeepestUsed(statuses, u, level) ==
  /\ statuses[BlockAt(u, level)] = "Used"
  /\ \A l \in Level : l > level => statuses[BlockAt(u, l)] # "Used"

\* free() of the prototype finds the same block.
LEMMA SameIsFound ==
  ASSUME NEW b, NEW statuses \in [Block -> Status], SameStatuses(b.block_statuses, statuses),
         NEW u \in Unit, NEW level \in Level, IsDeepestUsed(statuses, u, level)
  PROVE  \E c : /\ IsInserted(c, b, u, level)
                /\ Prototype!free(b, Ptr(u)) = Prototype!MergeUp(c, level, Ptr(u))
<1>1. PICK used : used = {l \in Prototype!PLevel :
                 b.block_statuses[Prototype!unique_id(l, Prototype!get_index(l, Ptr(u)))] = "used"}
  OBVIOUS
<1>2. ASSUME NEW l \in Level PROVE l \in used <=> statuses[BlockAt(u, l)] = "Used"
  <2>1. Prototype!get_index(l, Ptr(u)) = u \div Size[l]
    BY SameIndices
  <2>2. BlockAt(u, l) = <<l, u \div Size[l]>> /\ BlockAt(u, l) \in Block
    BY Blocks
  <2>3. Prototype!unique_id(l, u \div Size[l]) = IdOf(BlockAt(u, l))
    BY <2>2 DEF IdOf
  <2>4. b.block_statuses[IdOf(BlockAt(u, l))] = Lower(statuses[BlockAt(u, l)])
    BY <2>2 DEF SameStatuses
  <2>5. statuses[BlockAt(u, l)] \in Status
    BY <2>2
  <2>6. Lower(statuses[BlockAt(u, l)]) = "used" <=> statuses[BlockAt(u, l)] = "Used"
    BY <2>5 DEF Lower, Status
  <2>7. Prototype!PLevel = Level
    BY SameLevels
  <2>8. QED BY <1>1, <2>1, <2>3, <2>4, <2>6, <2>7
<1>3. used \subseteq Level /\ level \in used /\ \A k \in used : k <= level
  <2>1. used \subseteq Level
    BY <1>1, SameLevels
  <2>2. level \in used
    BY <1>2 DEF IsDeepestUsed
  <2>3. \A k \in Level : k \in Nat
    BY Sizes
  <2>4. ASSUME NEW k \in used PROVE k <= level
    <3>1. k \in Level /\ statuses[BlockAt(u, k)] = "Used"
      BY <1>2, <2>1
    <3>2. ~(k > level)
      BY <3>1 DEF IsDeepestUsed
    <3>3. QED BY <2>3, <3>1, <3>2
  <2>5. QED BY <2>1, <2>2, <2>4
<1>4. (CHOOSE l \in used : \A k \in used : k <= l) = level
  <2>1. \A l \in used : l \in Nat
    BY <1>3, Sizes
  <2>2. ASSUME NEW l \in used, \A k \in used : k <= l PROVE l = level
    BY <1>3, <2>1, <2>2
  <2>3. QED BY <1>3, <2>2
<1>5. PICK c : IsInserted(c, b, u, level)
  BY DEF IsInserted
<1>6. Prototype!unique_id(level, Prototype!get_index(level, Ptr(u))) = IdOf(BlockAt(u, level))
  <2>1. Prototype!get_index(level, Ptr(u)) = u \div Size[level]
    BY SameIndices
  <2>2. BlockAt(u, level) = <<level, u \div Size[level]>>
    BY Blocks
  <2>3. QED BY <2>1, <2>2 DEF IdOf
<1>7. c = [b EXCEPT
         !.free_lists[level] = Ptr(u),
         !.prev = [Prototype!SetPointer(@, b.free_lists[level], Ptr(u)) EXCEPT ![Ptr(u)] = Nil],
         !.next[Ptr(u)] = b.free_lists[level],
         !.block_statuses[Prototype!unique_id(level, Prototype!get_index(level, Ptr(u)))] = "free"]
  BY <1>5, <1>6 DEF IsInserted
<1>8. used # {}
  BY <1>3
<1>9. Prototype!free(b, Ptr(u)) = Prototype!MergeUp(c, level, Ptr(u))
  BY <1>1, <1>4, <1>7, <1>8 DEF Prototype!free
<1>10. QED BY <1>5, <1>9

\* free() frees and joins the same, unless it leaves a list that is linked one way only.
LEMMA SameIsFreed ==
  ASSUME NEW statuses, NEW lists, NEW u, NEW level, NEW top,
         CanJoin(statuses, lists, u, level, top), IsDeepestUsed(statuses, u, level),
         top # 0 => statuses[Buddy(BlockAt(u, top))] # "Free",
         NEW b, Mirrors(b, statuses, lists),
         NEW c, c = Prototype!free(b, Ptr(u)), Prototype!IsDoublyLinked(c)
  PROVE  Mirrors(c, MergedStatuses(statuses, u, level, top), MergedLists(lists, u, level, top))
<1>1. /\ u \in Unit /\ level \in Level /\ top \in Level /\ top <= level
      /\ level \in Nat /\ top \in Nat
      /\ statuses \in [Block -> Status] /\ lists \in [Level -> Seq(Unit)]
      /\ u = Start(BlockAt(u, level)) /\ CanMerge(statuses, u, level, top)
  BY Sizes DEF CanJoin, CanMerge
<1>2. CanJoin(statuses, lists, u, level, level)
  <2>1. level \in top..level
    BY <1>1
  <2>2. QED BY <2>1, CanJoinLess
<1>3. PICK inserted : /\ IsInserted(inserted, b, u, level)
                      /\ c = Prototype!MergeUp(inserted, level, Ptr(u))
  <2>1. SameStatuses(b.block_statuses, statuses)
    BY DEF Mirrors
  <2>2. QED BY <1>1, <2>1, SameIsFound
<1>4. PICK s, t : /\ s = MergedStatuses(statuses, u, level, level)
                  /\ t = JoinedLists(lists, u, level, level)
  OBVIOUS
<1>5. t = lists
  <2>1. \A l \in Level : l \notin (level + 1)..level
    BY <1>1
  <2>2. t = [l \in Level |-> lists[l]]
    BY <1>4, <2>1 DEF JoinedLists
  <2>3. QED BY <1>1, <2>2
<1>6. IsUpdate(s, statuses, BlockAt(u, level), "Free")
  <2>1. \A k \in Block : k[1] \notin (level + 1)..level
    BY <1>1
  <2>2. s = [k \in Block |-> IF k = BlockAt(u, level) THEN "Free" ELSE statuses[k]]
    BY <1>4, <2>1 DEF MergedStatuses
  <2>3. s = [statuses EXCEPT ![BlockAt(u, level)] = "Free"]
    BY <1>1, <2>2
  <2>4. QED BY <2>3 DEF IsUpdate
<1>7. Apart(lists) /\ NoneIn(lists, u)
  BY <1>1, <1>2, <1>4, <1>5, JoinedIsApart
<1>8. Joining(inserted, s, lists, level, u, Ptr(u))
  BY <1>1, <1>3, <1>6, <1>7, FreedIsInFront
<1>9. Joining(inserted, MergedStatuses(statuses, u, level, level), JoinedLists(lists, u, level, level),
              level, Start(BlockAt(u, level)), Ptr(u))
  BY <1>1, <1>4, <1>5, <1>8
<1>10. PICK last : Joining(Prototype!MergeUp(inserted, level, Ptr(u)),
                           MergedStatuses(statuses, u, level, top),
                           JoinedLists(lists, u, level, top), top,
                           Start(BlockAt(u, top)), last)
  BY <1>9, MergeUpEnds
<1>11. PICK s2, t2, block, more :
         /\ s2 = MergedStatuses(statuses, u, level, top) /\ t2 = JoinedLists(lists, u, level, top)
         /\ block = Start(BlockAt(u, top)) /\ more = MergedLists(lists, u, level, top)
  OBVIOUS
<1>12. /\ t2 \in [Level -> Seq(Unit)] /\ Apart(t2) /\ NoneIn(t2, block)
       /\ IsUpdate(more, t2, top, <<block>> \o t2[top])
  BY <1>11, JoinedIsApart
<1>13. block \in Unit
  BY <1>1, <1>11, Starts
<1>14. Joining(c, s2, t2, top, block, last)
  BY <1>3, <1>10, <1>11
<1>15. Mirrors(c, s2, more)
  BY <1>1, <1>12, <1>13, <1>14, DoublyLinkedEnds
<1>16. QED BY <1>11, <1>15

-----------------------------------------------------------------------------
(* The two beside each other *)

\* The object of a prototype that may have run out of memory is what the statuses
\* and lists of the kernel's allocator say.
Follows(b, statuses, lists) ==
  /\ b \in Object /\ b.raised \in {"nothing", "OutOfMemory"}
  /\ SameStatuses(b.block_statuses, statuses)
  /\ Linked(b, lists)

\* It is ready for the next call.
LEMMA ReadyMirrors ==
  ASSUME NEW b, NEW statuses, NEW lists, Follows(b, statuses, lists)
  PROVE  Mirrors([b EXCEPT !.raised = "nothing"], statuses, lists)
<1>1. PICK c : c = [b EXCEPT !.raised = "nothing"]
  OBVIOUS
<1>2. /\ c \in Object /\ c.raised = "nothing" /\ c.block_statuses = b.block_statuses
      /\ c.free_lists = b.free_lists /\ c.prev = b.prev /\ c.next = b.next
  BY <1>1 DEF Follows, Object, Exception
<1>3. Linked(c, lists)
  BY <1>2 DEF Follows, Linked
<1>4. SameStatuses(c.block_statuses, statuses)
  BY <1>2 DEF Follows
<1>5. QED BY <1>1, <1>2, <1>3, <1>4 DEF Mirrors

\* A call that raises OutOfMemory changes nothing else.
LEMMA RaisedFollows ==
  ASSUME NEW b, NEW statuses, NEW lists, Mirrors(b, statuses, lists)
  PROVE  Follows(Prototype!Raise(b, "OutOfMemory"), statuses, lists)
<1>1. PICK c : c = [b EXCEPT !.raised = "OutOfMemory"]
  OBVIOUS
<1>2. /\ c \in Object /\ c.raised = "OutOfMemory" /\ c.block_statuses = b.block_statuses
      /\ c.free_lists = b.free_lists /\ c.prev = b.prev /\ c.next = b.next
  BY <1>1 DEF Mirrors, Object, Exception
<1>3. Linked(c, lists)
  BY <1>2 DEF Mirrors, Linked
<1>4. SameStatuses(c.block_statuses, statuses)
  BY <1>2 DEF Mirrors
<1>5. QED BY <1>1, <1>2, <1>3, <1>4 DEF Follows, Prototype!Raise

\* The walk finds every list.
LEMMA ListsAreWalked ==
  ASSUME NEW b, NEW lists \in [Level -> Seq(Unit)], Apart(lists), Linked(b, lists), NEW l \in Level
  PROVE  Prototype!FreeList(b, l) = [i \in 1..Len(lists[l]) |-> Ptr(lists[l][i])]
<1>1. PICK list \in Seq(Unit) : list = lists[l] /\ IsInjective(list)
  BY ApartIsInjective
<1>2. Chain(b.free_lists[l], b.prev, b.next, list)
  BY <1>1 DEF Linked
<1>3. NextChain(b.free_lists[l], b.next, list)
  BY <1>2 DEF Chain, NextChain
<1>4. Prototype!FreeList(b, l) = [i \in 1..Len(list) |-> Ptr(list[i])]
  BY <1>1, <1>3, WalkedList
<1>5. QED BY <1>1, <1>4

\* What is written over blocks that are in no list changes no list.
LEMMA OverwrittenFollows ==
  ASSUME NEW b, NEW statuses, NEW lists \in [Level -> Seq(Unit)], Apart(lists),
         Follows(b, statuses, lists)
  PROVE  Follows(Overwritten(b), statuses, lists)
<1>1. /\ b \in Object /\ b.raised \in {"nothing", "OutOfMemory"}
      /\ SameStatuses(b.block_statuses, statuses) /\ Linked(b, lists)
  BY DEF Follows
<1>2. PICK listed : listed = UNION {Range(Prototype!FreeList(b, l)) : l \in Level}
  OBVIOUS
<1>3. ASSUME NEW l \in Level, NEW i \in 1..Len(lists[l]) PROVE Ptr(lists[l][i]) \in listed
  <2>1. PICK walk : walk = Prototype!FreeList(b, l)
    OBVIOUS
  <2>2. PICK list : list = lists[l]
    OBVIOUS
  <2>3. walk = [j \in 1..Len(list) |-> Ptr(list[j])]
    BY <1>1, <2>1, <2>2, ListsAreWalked
  <2>4. i \in DOMAIN walk /\ walk[i] = Ptr(list[i])
    BY <2>2, <2>3
  <2>5. Ptr(list[i]) \in Range(walk)
    BY <2>4 DEF Range
  <2>6. QED BY <1>2, <2>1, <2>2, <2>5
<1>4. /\ b.prev \in [Prototype!Address -> Pointer] /\ b.next \in [Prototype!Address -> Pointer]
      /\ b.free_lists \in [Level -> Pointer] /\ b.block_statuses \in [Ids -> PStatus]
      /\ b.raised \in Exception
  BY <1>1 DEF Object
<1>5. PICK prev, next :
        /\ prev = [a \in Prototype!Address |-> IF a \in listed THEN b.prev[a] ELSE Uninitialized]
        /\ next = [a \in Prototype!Address |-> IF a \in listed THEN b.next[a] ELSE Uninitialized]
  OBVIOUS
<1>6. prev \in [Prototype!Address -> Pointer] /\ next \in [Prototype!Address -> Pointer]
  <2>1. Uninitialized \in Pointer
    BY DEF Pointer
  <2>2. QED BY <1>4, <1>5, <2>1
<1>7. PICK c : c = [b EXCEPT !.prev = prev, !.next = next]
  OBVIOUS
<1>8. c = Overwritten(b)
  <2>1. DOMAIN b.prev = Prototype!Address /\ DOMAIN b.next = Prototype!Address
    BY <1>4
  <2>2. QED BY <1>2, <1>5, <1>7, <2>1 DEF Overwritten
<1>9. /\ c \in Object /\ c.raised = b.raised /\ c.block_statuses = b.block_statuses
      /\ c.free_lists = b.free_lists /\ c.prev = prev /\ c.next = next
  BY <1>1, <1>6, <1>7 DEF Object
<1>10. ASSUME NEW l \in Level PROVE Chain(c.free_lists[l], c.prev, c.next, lists[l])
  <2>1. PICK list \in Seq(Unit) : list = lists[l]
    OBVIOUS
  <2>2. Chain(b.free_lists[l], b.prev, b.next, list)
    BY <1>1, <2>1 DEF Linked
  <2>3. ASSUME NEW i \in 1..Len(list)
        PROVE  prev[Ptr(list[i])] = b.prev[Ptr(list[i])] /\ next[Ptr(list[i])] = b.next[Ptr(list[i])]
    <3>1. Ptr(list[i]) \in listed
      BY <1>3, <2>1
    <3>2. Ptr(list[i]) \in Prototype!Address
      BY Places
    <3>3. QED BY <1>5, <3>1, <3>2
  <2>4. PICK first, prev0, next0 : first = b.free_lists[l] /\ prev0 = b.prev /\ next0 = b.next
    OBVIOUS
  <2>5. Chain(first, prev, next, list)
    BY <2>2, <2>3, <2>4, ChainIsKept
  <2>6. QED BY <1>9, <2>1, <2>4, <2>5
<1>11. Linked(c, lists)
  BY <1>10 DEF Linked
<1>12. SameStatuses(c.block_statuses, statuses)
  BY <1>1, <1>9
<1>13. QED BY <1>1, <1>8, <1>9, <1>11, <1>12 DEF Follows

\* Buddy.__init__() makes what Init says.
LEMMA NewFollows ==
  ASSUME Init
  PROVE  Follows(Prototype!NewBuddy, block_statuses, free_blocks)
<1>1. PICK b : b = Prototype!NewBuddy
  OBVIOUS
<1>2. PICK pointers : pointers = [a \in Prototype!Address |-> IF a = start THEN Nil ELSE Uninitialized]
  OBVIOUS
<1>3. /\ b.free_lists = [level \in Level |-> IF level = 0 THEN start ELSE Nil]
      /\ b.prev = pointers /\ b.next = pointers
      /\ b.block_statuses = [id \in Ids |-> IF id = 0 THEN "free" ELSE "invalid"]
      /\ b.raised = "nothing"
      /\ b = [free_lists |-> b.free_lists, prev |-> b.prev, next |-> b.next,
              block_statuses |-> b.block_statuses, raised |-> b.raised]
  BY <1>1, <1>2, SameLevels DEF Prototype!NewBuddy, Ids
<1>4. 0 \in Unit /\ Ptr(0) = start /\ start \in Prototype!Address
  <2>1. 0 \in Unit
    BY Sizes DEF Unit
  <2>2. Ptr(0) = start + (4 * 0) /\ Ptr(0) \in Prototype!Address
    BY <2>1, Pointers
  <2>3. start \in Nat
    BY Minimum
  <2>4. QED BY <2>1, <2>2, <2>3
<1>5. b \in Object
  <2>1. Nil \in Pointer /\ Uninitialized \in Pointer /\ start \in Pointer
    BY <1>4 DEF Pointer, Optional
  <2>2. b.free_lists \in [Level -> Pointer]
    BY <1>3, <2>1
  <2>3. pointers \in [Prototype!Address -> Pointer]
    BY <1>2, <2>1
  <2>4. b.block_statuses \in [Ids -> PStatus]
    BY <1>3 DEF PStatus
  <2>5. b.raised \in Exception
    BY <1>3 DEF Exception
  <2>6. QED BY <1>3, <2>2, <2>3, <2>4, <2>5 DEF Object
<1>6. SameStatuses(b.block_statuses, block_statuses)
  <2>1. PICK root : root = BlockAt(0, 0)
    OBVIOUS
  <2>2. root \in Block /\ root = <<0, 0>>
    <3>1. 0 \div Size[0] = 0
      <4>1. PICK s \in Nat \ {0} : s = Size[0]
        BY Sizes
      <4>2. ((0 * s) + 0) \div s = 0
        BY <4>1, Quotient
      <4>3. QED BY <4>1, <4>2
    <3>2. QED BY <1>4, <2>1, <3>1, Blocks, Sizes
  <2>3. IdOf(root) = 0
    <3>1. 2 ^ 0 = 1
      OBVIOUS
    <3>2. root[1] = 0 /\ root[2] = 0
      BY <2>2
    <3>3. QED BY <3>1, <3>2 DEF IdOf, Prototype!unique_id
  <2>4. ASSUME NEW c \in Block PROVE b.block_statuses[IdOf(c)] = Lower(block_statuses[c])
    <3>1. IdOf(c) \in Ids
      BY OwnIds
    <3>2. CASE c[1] = 0
      <4>1. c = root
        <5>1. c[2] \in Nat /\ c[2] < 2 ^ c[1] /\ c = <<c[1], c[2]>>
          BY BlockIndices
        <5>2. 2 ^ 0 = 1
          OBVIOUS
        <5>3. c[2] = 0
          BY <3>2, <5>1, <5>2
        <5>4. QED BY <2>2, <3>2, <5>1, <5>3
      <4>2. block_statuses[c] = "Free"
        BY <3>2 DEF Init
      <4>3. QED BY <1>3, <2>3, <3>1, <4>1, <4>2 DEF Lower
    <3>3. CASE c[1] # 0
      <4>1. c # root
        BY <2>2, <3>3
      <4>2. IdOf(c) # 0
        BY <2>2, <2>3, <4>1, OwnIds
      <4>3. block_statuses[c] = "Invalid"
        BY <3>3 DEF Init
      <4>4. QED BY <1>3, <3>1, <4>2, <4>3 DEF Lower
    <3>4. QED BY <3>2, <3>3
  <2>5. QED BY <2>4 DEF SameStatuses
<1>7. ASSUME NEW l \in Level PROVE Chain(b.free_lists[l], b.prev, b.next, free_blocks[l])
  <2>1. PICK list : list = free_blocks[l]
    OBVIOUS
  <2>2. CASE l = 0
    <3>1. list = <<0>> /\ Len(list) = 1 /\ list[1] = 0
      BY <2>1, <2>2 DEF Init
    <3>2. b.free_lists[l] = start
      BY <1>3, <2>2
    <3>3. At(list, 1) = Ptr(0) /\ At(list, 2) = Nil /\ At(list, 0) = Nil
      BY <3>1 DEF At
    <3>4. b.prev[start] = Nil /\ b.next[start] = Nil
      BY <1>2, <1>3, <1>4
    <3>5. \A i \in 1..Len(list) : i = 1
      BY <3>1
    <3>6. b.next[Ptr(list[1])] = At(list, 1 + 1) /\ b.prev[Ptr(list[1])] = At(list, 1 - 1)
      BY <1>4, <3>1, <3>3, <3>4
    <3>7. Chain(b.free_lists[l], b.prev, b.next, list)
      BY <1>4, <3>2, <3>3, <3>5, <3>6 DEF Chain
    <3>8. QED BY <2>1, <3>7
  <2>3. CASE l # 0
    <3>1. list = <<>> /\ Len(list) = 0
      BY <2>1, <2>3 DEF Init
    <3>2. b.free_lists[l] = Nil
      BY <1>3, <2>3
    <3>3. 1..Len(list) = {}
      BY <3>1
    <3>4. At(list, 1) = Nil
      BY <3>3 DEF At
    <3>5. Chain(b.free_lists[l], b.prev, b.next, list)
      BY <3>2, <3>3, <3>4 DEF Chain
    <3>6. QED BY <2>1, <3>5
  <2>4. QED BY <2>2, <2>3
<1>8. Linked(b, free_blocks)
  BY <1>7 DEF Linked
<1>9. QED BY <1>1, <1>3, <1>5, <1>6, <1>8 DEF Follows

\* For as long as it is called, the prototype is where the kernel's allocator is.
IsBeside ==
  inStep => /\ Follows(buddy, block_statuses, free_blocks)
            /\ given = {Ptr(Start(b)) : b \in held}

\* The heap is sound, and the prototype beside it.
LockInv == HeapInv /\ inStep \in BOOLEAN /\ IsBeside

\* Lists of a sound heap have no unit twice.
LEMMA HeapIsApart ==
  ASSUME HeapInv
  PROVE  /\ free_blocks \in [Level -> Seq(Unit)] /\ Apart(free_blocks)
         /\ block_statuses \in [Block -> Status]
<1>1. /\ free_blocks \in [Level -> Seq(Unit)] /\ block_statuses \in [Block -> Status]
      /\ IsTree(block_statuses) /\ IsListed(block_statuses, free_blocks)
  BY DEF HeapInv, TypeOK, Status
<1>2. QED BY <1>1, ListedIsApart

\* What alloc() of the kernel takes can be split.
LEMMA SourceCanSplit ==
  ASSUME HeapInv, NEW from \in Level, NEW target \in Level, Source(from, target),
         NEW origin, origin = Head(free_blocks[from])
  PROVE  CanSplit(block_statuses, free_blocks, origin, from, target)
<1>1. /\ free_blocks \in [Level -> Seq(Unit)] /\ block_statuses \in [Block -> Status]
      /\ IsTree(block_statuses) /\ IsListed(block_statuses, free_blocks)
  BY DEF HeapInv, TypeOK, Status
<1>2. PICK list \in Seq(Unit) : list = free_blocks[from]
  BY <1>1
<1>3. list # <<>> /\ from <= target /\ \A l \in (from + 1)..target : free_blocks[l] = <<>>
  BY <1>2 DEF Source
<1>4. 1 \in 1..Len(list) /\ origin = list[1]
  BY <1>2, <1>3, TailIsWithout
<1>5. origin \in Unit /\ block_statuses[BlockAt(origin, from)] = "Free"
  BY <1>1, <1>2, <1>4, ListedAreFree
<1>6. IsPlace(origin, free_blocks[from], 1)
  BY <1>2, <1>4 DEF IsPlace
<1>7. QED BY <1>1, <1>3, <1>5, <1>6 DEF CanSplit, CanCarve

\* When there is no level to take a block from, all lists that would do are empty.
LEMMA NoSource ==
  ASSUME NEW target \in Level, \A from \in Level : ~Source(from, target),
         NEW l \in Level, l <= target
  PROVE  free_blocks[l] = <<>>
<1>1. target \in Nat /\ Levels \in Nat /\ Level = 0..(Levels - 1)
  BY Sizes DEF Level
<1>2. PICK S : S = {k \in 0..target : free_blocks[k] # <<>>}
  OBVIOUS
<1>3. SUFFICES ASSUME S # {} PROVE FALSE
  BY <1>1, <1>2
<1>4. PICK m \in S : \A k \in S : k <= m
  <2>1. S \in SUBSET (0..target)
    BY <1>2
  <2>2. QED BY <1>1, <1>3, <2>1, Greatest
<1>5. m \in Level /\ m <= target /\ free_blocks[m] # <<>>
  BY <1>1, <1>2, <1>4
<1>6. ASSUME NEW k \in (m + 1)..target PROVE free_blocks[k] = <<>>
  <2>1. k \in 0..target /\ ~(k <= m)
    BY <1>1, <1>5
  <2>2. k \notin S
    BY <1>4, <2>1
  <2>3. QED BY <1>2, <2>1, <2>2
<1>7. Source(m, target)
  BY <1>5, <1>6 DEF Source
<1>8. QED BY <1>5, <1>7

\* What a call does when the prototype's object goes where the kernel's does.
LEMMA CallIsBeside ==
  ASSUME HeapInv', NEW outcome, NEW addresses, Calls(outcome, addresses), inStep \in BOOLEAN,
         inStep /\ Prototype!IsDoublyLinked(outcome) =>
           /\ Follows(outcome, block_statuses', free_blocks')
           /\ addresses = {Ptr(Start(b)) : b \in held'}
  PROVE  inStep' \in BOOLEAN /\ IsBeside'
<1>1. CASE inStep /\ Prototype!IsDoublyLinked(outcome)
  <2>1. buddy' = Overwritten(outcome) /\ given' = addresses /\ inStep' = inStep
    BY <1>1 DEF Calls
  <2>2. PICK statuses, lists : statuses = block_statuses' /\ lists = free_blocks'
    OBVIOUS
  <2>3. lists \in [Level -> Seq(Unit)] /\ Apart(lists)
    <3>1. /\ free_blocks' \in [Level -> Seq(Unit)] /\ block_statuses' \in [Block -> Status]
          /\ IsTree(block_statuses') /\ IsListed(block_statuses', free_blocks')
      BY DEF HeapInv, TypeOK, Status
    <3>2. QED BY <2>2, <3>1, ListedIsApart
  <2>4. Follows(Overwritten(outcome), statuses, lists)
    BY <1>1, <2>2, <2>3, OverwrittenFollows
  <2>5. QED BY <1>1, <2>1, <2>2, <2>4 DEF IsBeside
<1>2. CASE ~(inStep /\ Prototype!IsDoublyLinked(outcome))
  <2>1. NotCalled
    BY <1>2 DEF Calls
  <2>2. inStep' = FALSE
    BY <2>1 DEF NotCalled
  <2>3. QED BY <2>2 DEF IsBeside
<1>3. QED BY <1>1, <1>2

\* alloc() of both, when the kernel's finds a block.
LEMMA AllocIsBeside ==
  ASSUME LockInv, inStep, NEW n \in 1..Size[0], NEW bytes, IsRequest(bytes, n), Alloc(n),
         NEW outcome, outcome = Prototype!alloc(Prototype!Ready, bytes)
  PROVE  /\ Follows(outcome[1], block_statuses', free_blocks')
         /\ given \cup ({outcome[2]} \ {Nil}) = {Ptr(Start(b)) : b \in held'}
<1>1. /\ HeapInv /\ Follows(buddy, block_statuses, free_blocks)
      /\ given = {Ptr(Start(b)) : b \in held}
  BY DEF LockInv, IsBeside
<1>2. PICK target \in Level : target = LevelFor(n)
  BY LevelForRequest
<1>3. PICK from \in Level :
        LET origin == Head(free_blocks[from])
        IN /\ Source(from, target) /\ Carve(origin, from, target)
           /\ held' = held \cup {BlockAt(origin, target)}
  BY <1>2 DEF Alloc
<1>4. PICK origin : origin = Head(free_blocks[from])
  OBVIOUS
<1>5. CanSplit(block_statuses, free_blocks, origin, from, target)
  BY <1>1, <1>3, <1>4, SourceCanSplit
<1>6. PICK b : b = Prototype!Ready
  OBVIOUS
<1>7. Mirrors(b, block_statuses, free_blocks)
  BY <1>1, <1>6, ReadyMirrors DEF Prototype!Ready
<1>8. PICK c : /\ Prototype!alloc(b, bytes) = <<c, Ptr(origin)>>
               /\ Mirrors(c, CarvedStatuses(block_statuses, origin, from, target),
                             CarvedLists(free_blocks, origin, from, target))
  BY <1>2, <1>5, <1>7, SameIsCarved
<1>9. outcome[1] = c /\ outcome[2] = Ptr(origin)
  BY <1>6, <1>8
<1>10. Follows(c, block_statuses', free_blocks')
  BY <1>3, <1>4, <1>8 DEF Carve, Mirrors, Follows
<1>11. origin \in Unit /\ Start(BlockAt(origin, target)) = origin
  <2>1. /\ origin \in Unit /\ from <= target /\ IsListed(block_statuses, free_blocks)
        /\ free_blocks \in [Level -> Seq(Unit)] /\ IsPlace(origin, free_blocks[from], 1)
    BY <1>5 DEF CanSplit, CanCarve
  <2>2. PICK list \in Seq(Unit) : list = free_blocks[from]
    BY <2>1
  <2>3. 1 \in 1..Len(list) /\ list[1] = origin
    BY <2>1, <2>2 DEF IsPlace
  <2>4. origin % Size[from] = 0
    BY <2>1, <2>2, <2>3, ListedAreFree
  <2>5. QED BY <2>1, <2>4, AlignedBelow
<1>12. Ptr(origin) # Nil
  BY <1>11, Pointers, LockstepAssumption
<1>13. given \cup ({outcome[2]} \ {Nil}) = {Ptr(Start(d)) : d \in held'}
  <2>1. given \cup ({outcome[2]} \ {Nil}) = given \cup {Ptr(origin)}
    BY <1>9, <1>12
  <2>2. {Ptr(Start(d)) : d \in held \cup {BlockAt(origin, target)}} =
          {Ptr(Start(d)) : d \in held} \cup {Ptr(origin)}
    BY <1>11
  <2>3. QED BY <1>1, <1>3, <1>4, <2>1, <2>2
<1>14. QED BY <1>9, <1>10, <1>13

\* alloc() of both, when there is nothing to be had.
LEMMA FailureIsBeside ==
  ASSUME LockInv, inStep, NEW n \in 1..Size[0], NEW bytes, IsRequest(bytes, n),
         \A from \in Level : ~Source(from, LevelFor(n)), UNCHANGED vars,
         NEW outcome, outcome = Prototype!alloc(Prototype!Ready, bytes)
  PROVE  /\ Follows(outcome[1], block_statuses', free_blocks')
         /\ given \cup ({outcome[2]} \ {Nil}) = {Ptr(Start(b)) : b \in held'}
<1>1. /\ HeapInv /\ Follows(buddy, block_statuses, free_blocks)
      /\ given = {Ptr(Start(b)) : b \in held}
  BY DEF LockInv, IsBeside
<1>2. PICK target \in Level : target = LevelFor(n)
  BY LevelForRequest
<1>3. \A l \in Level : l <= target => free_blocks[l] = <<>>
  BY <1>2, NoSource
<1>4. PICK b : b = Prototype!Ready
  OBVIOUS
<1>5. Mirrors(b, block_statuses, free_blocks)
  BY <1>1, <1>4, ReadyMirrors DEF Prototype!Ready
<1>6. outcome = <<Prototype!Raise(b, "OutOfMemory"), Nil>>
  <2>1. free_blocks \in [Level -> Seq(Unit)]
    BY <1>1, HeapIsApart
  <2>2. Linked(b, free_blocks)
    BY <1>5 DEF Mirrors
  <2>3. PICK lists : lists = free_blocks
    OBVIOUS
  <2>4. /\ lists \in [Level -> Seq(Unit)] /\ Linked(b, lists)
        /\ \A l \in Level : l <= LevelFor(n) => lists[l] = <<>>
    BY <1>2, <1>3, <2>1, <2>2, <2>3
  <2>5. Prototype!alloc(b, bytes) = <<Prototype!Raise(b, "OutOfMemory"), Nil>>
    BY <2>4, NothingIsFound
  <2>6. QED BY <1>4, <2>5
<1>7. PICK c : c = Prototype!Raise(b, "OutOfMemory")
  OBVIOUS
<1>8. Follows(c, block_statuses, free_blocks)
  BY <1>5, <1>7, RaisedFollows
<1>9. outcome[1] = c /\ outcome[2] = Nil
  BY <1>6, <1>7
<1>10. /\ block_statuses' = block_statuses /\ free_blocks' = free_blocks /\ held' = held
  BY DEF vars
<1>11. QED BY <1>1, <1>8, <1>9, <1>10

\* free() of both.
LEMMA FreeIsBeside ==
  ASSUME LockInv, inStep, NEW u \in FreeableAddresses, Free(u),
         NEW outcome, outcome = Prototype!free(Prototype!Ready, Ptr(u)),
         Prototype!IsDoublyLinked(outcome)
  PROVE  /\ Follows(outcome, block_statuses', free_blocks')
         /\ given \ {Ptr(u)} = {Ptr(Start(b)) : b \in held'}
<1>1. /\ HeapInv /\ Follows(buddy, block_statuses, free_blocks)
      /\ given = {Ptr(Start(b)) : b \in held}
  BY DEF LockInv, IsBeside
<1>2. PICK block \in held : u = Start(block)
  BY DEF FreeableAddresses
<1>3. PICK level \in Level, top \in Level :
        /\ FreedLevel(u, level) /\ MergedLevel(u, level, top)
        /\ block_statuses' = MergedStatuses(block_statuses, u, level, top)
        /\ free_blocks' = MergedLists(free_blocks, u, level, top)
        /\ held' = held \ {BlockAt(u, level)}
  BY DEF Free
<1>4. u \in Unit /\ BlockAt(u, level) = block /\ u = Start(BlockAt(u, level))
  BY <1>1, <1>2, <1>3, FreedIsHeld
<1>5. block_statuses[BlockAt(u, level)] = "Used"
  BY <1>1, <1>2, <1>4 DEF HeapInv
<1>6. CanJoin(block_statuses, free_blocks, u, level, top)
  <2>1. /\ block_statuses \in [Block -> Status] /\ IsTree(block_statuses) /\ IsMerged(block_statuses)
        /\ free_blocks \in [Level -> Seq(Unit)] /\ IsListed(block_statuses, free_blocks)
    BY <1>1 DEF HeapInv, TypeOK, Status
  <2>2. top <= level /\ \A l \in (top + 1)..level : block_statuses[Buddy(BlockAt(u, l))] = "Free"
    BY <1>3 DEF MergedLevel
  <2>3. QED BY <1>4, <1>5, <2>1, <2>2 DEF CanJoin, CanMerge
<1>7. IsDeepestUsed(block_statuses, u, level)
  BY <1>3, <1>5 DEF FreedLevel, IsDeepestUsed
<1>8. top # 0 => block_statuses[Buddy(BlockAt(u, top))] # "Free"
  BY <1>3 DEF MergedLevel
<1>9. PICK b : b = Prototype!Ready
  OBVIOUS
<1>10. Mirrors(b, block_statuses, free_blocks)
  BY <1>1, <1>9, ReadyMirrors DEF Prototype!Ready
<1>11. outcome = Prototype!free(b, Ptr(u))
  BY <1>9
<1>12. Mirrors(outcome, MergedStatuses(block_statuses, u, level, top),
               MergedLists(free_blocks, u, level, top))
  BY <1>6, <1>7, <1>8, <1>10, <1>11, SameIsFreed
<1>13. Follows(outcome, block_statuses', free_blocks')
  BY <1>3, <1>12 DEF Mirrors, Follows
<1>14. ASSUME NEW d \in held, Ptr(Start(d)) = Ptr(u) PROVE d = block
  <2>1. d \in Block
    BY <1>1 DEF HeapInv, TypeOK
  <2>2. Start(d) \in Unit
    BY <2>1, BlockIndices
  <2>3. Start(d) = u
    BY <1>4, <1>14, <2>2, Pointers
  <2>4. FreedLevel(Start(d), level)
    BY <1>3, <2>3
  <2>5. BlockAt(Start(d), level) = d
    BY <1>1, <2>4, FreedIsHeld
  <2>6. QED BY <1>4, <2>3, <2>5
<1>15. given \ {Ptr(u)} = {Ptr(Start(d)) : d \in held'}
  BY <1>1, <1>2, <1>3, <1>4, <1>14
<1>16. QED BY <1>13, <1>15

\* Every call keeps the prototype beside the kernel's allocator, or leaves it.
LEMMA LockNextKeeps ==
  ASSUME LockInv, LockNext
  PROVE  LockInv'
<1>1. HeapInv /\ inStep \in BOOLEAN
  BY DEF LockInv
<1>2. CASE LockAlloc
  <2>1. PICK n \in 1..Size[0], bytes \in Request :
          LET outcome == Prototype!alloc(Prototype!Ready, bytes)
          IN /\ bytes \in (Bytes(n - 1) + 1)..Bytes(n)
             /\ \/ Alloc(n)
                \/ (\A from \in Level : ~Source(from, LevelFor(n))) /\ UNCHANGED vars
             /\ Calls(outcome[1], given \cup ({outcome[2]} \ {Nil}))
    BY <1>2 DEF LockAlloc
  <2>2. IsRequest(bytes, n)
    BY <2>1 DEF IsRequest
  <2>3. PICK outcome : outcome = Prototype!alloc(Prototype!Ready, bytes)
    OBVIOUS
  <2>4. HeapInv'
    <3>1. CASE Alloc(n)
      BY <1>1, <3>1, AllocKeepsHeap
    <3>2. CASE UNCHANGED vars
      BY <1>1, <3>2 DEF vars, HeapInv, TypeOK
    <3>3. QED BY <2>1, <3>1, <3>2
  <2>5. PICK first, addresses : first = outcome[1] /\ addresses = given \cup ({outcome[2]} \ {Nil})
    OBVIOUS
  <2>6. inStep => /\ Follows(outcome[1], block_statuses', free_blocks')
                  /\ given \cup ({outcome[2]} \ {Nil}) = {Ptr(Start(b)) : b \in held'}
    BY <2>1, <2>2, <2>3, AllocIsBeside, FailureIsBeside
  <2>7. Calls(first, addresses)
    BY <2>1, <2>3, <2>5
  <2>8. inStep' \in BOOLEAN /\ IsBeside'
    BY <1>1, <2>4, <2>5, <2>6, <2>7, CallIsBeside
  <2>9. QED BY <2>4, <2>8 DEF LockInv
<1>3. CASE LockReserve
  <2>1. HeapInv'
    BY <1>1, <1>3, ReserveKeepsHeap DEF LockReserve
  <2>2. inStep' = FALSE
    BY <1>3 DEF LockReserve, NotCalled
  <2>3. QED BY <2>1, <2>2 DEF LockInv, IsBeside
<1>4. CASE LockFree
  <2>1. PICK u \in FreeableAddresses :
          /\ Free(u)
          /\ Calls(Prototype!free(Prototype!Ready, Ptr(u)), given \ {Ptr(u)})
    BY <1>4 DEF LockFree, Ptr
  <2>2. HeapInv'
    BY <1>1, <2>1, FreeKeepsHeap
  <2>3. PICK outcome, addresses :
          /\ outcome = Prototype!free(Prototype!Ready, Ptr(u)) /\ addresses = given \ {Ptr(u)}
    OBVIOUS
  <2>4. inStep /\ Prototype!IsDoublyLinked(outcome) =>
          /\ Follows(outcome, block_statuses', free_blocks')
          /\ addresses = {Ptr(Start(b)) : b \in held'}
    BY <2>1, <2>3, FreeIsBeside
  <2>5. Calls(outcome, addresses)
    BY <2>1, <2>3
  <2>6. inStep' \in BOOLEAN /\ IsBeside'
    BY <1>1, <2>2, <2>4, <2>5, CallIsBeside
  <2>7. QED BY <2>2, <2>6 DEF LockInv
<1>5. QED BY <1>2, <1>3, <1>4 DEF LockNext

\* What is beside it agrees with it.
LEMMA BesideAgrees ==
  ASSUME LockInv
  PROVE  AgreesWithPrototype
<1>1. SUFFICES ASSUME inStep PROVE
        /\ buddy.raised \in {"nothing", "OutOfMemory"}
        /\ given = {start + Bytes(Start(b)) : b \in held}
        /\ \A l \in Level :
             Prototype!FreeList(buddy, l) =
               [i \in DOMAIN free_blocks[l] |-> start + Bytes(free_blocks[l][i])]
        /\ \A b \in Block :
             <<block_statuses[b], buddy.block_statuses[Prototype!unique_id(b[1], b[2])]>> \in
               {<<"Invalid", "invalid">>, <<"Split", "split">>, <<"Free", "free">>, <<"Used", "used">>}
  BY DEF AgreesWithPrototype
<1>2. /\ HeapInv /\ Follows(buddy, block_statuses, free_blocks)
      /\ given = {Ptr(Start(b)) : b \in held}
  BY <1>1 DEF LockInv, IsBeside
<1>3. /\ free_blocks \in [Level -> Seq(Unit)] /\ Apart(free_blocks)
      /\ block_statuses \in [Block -> Status]
  BY <1>2, HeapIsApart
<1>4. ASSUME NEW l \in Level
      PROVE  Prototype!FreeList(buddy, l) =
               [i \in DOMAIN free_blocks[l] |-> start + Bytes(free_blocks[l][i])]
  <2>1. Linked(buddy, free_blocks)
    BY <1>2 DEF Follows
  <2>2. PICK lists : lists = free_blocks
    OBVIOUS
  <2>3. Prototype!FreeList(buddy, l) = [i \in 1..Len(lists[l]) |-> Ptr(lists[l][i])]
    BY <1>3, <2>1, <2>2, ListsAreWalked
  <2>4. DOMAIN lists[l] = 1..Len(lists[l])
    BY <1>3, <2>2
  <2>5. QED BY <2>2, <2>3, <2>4 DEF Ptr
<1>5. ASSUME NEW b \in Block
      PROVE  <<block_statuses[b], buddy.block_statuses[Prototype!unique_id(b[1], b[2])]>> \in
               {<<"Invalid", "invalid">>, <<"Split", "split">>, <<"Free", "free">>, <<"Used", "used">>}
  <2>1. buddy.block_statuses[Prototype!unique_id(b[1], b[2])] = Lower(block_statuses[b])
    BY <1>2 DEF Follows, SameStatuses, IdOf
  <2>2. block_statuses[b] \in Status
    BY <1>3
  <2>3. QED BY <2>1, <2>2 DEF Lower, Status
<1>6. buddy.raised \in {"nothing", "OutOfMemory"}
  BY <1>2 DEF Follows
<1>7. given = {start + Bytes(Start(b)) : b \in held}
  BY <1>2 DEF Ptr
<1>8. QED BY <1>4, <1>5, <1>6, <1>7

\* The kernel's allocator and the prototype are one algorithm: for an area of any
\* size and any requests, the same calls give the same addresses, the same
\* statuses and the same lists, for as long as the prototype's lists are whole
\* (Buddy.alloc and free of the prototype; BuddyAllocator.alloc and free).
THEOREM PrototypeAgrees == LockSpec => []AgreesWithPrototype
<1>1. LockInit => LockInv
  <2>1. SUFFICES ASSUME LockInit PROVE LockInv
    OBVIOUS
  <2>2. Init /\ buddy = Prototype!NewBuddy /\ given = {} /\ inStep = TRUE
    BY <2>1 DEF LockInit, Prototype!Init
  <2>3. HeapInv
    BY <2>2, HeapStarts
  <2>4. Follows(buddy, block_statuses, free_blocks)
    BY <2>2, NewFollows
  <2>5. given = {Ptr(Start(b)) : b \in held}
    BY <2>2 DEF Init
  <2>6. QED BY <2>2, <2>3, <2>4, <2>5 DEF LockInv, IsBeside
<1>2. LockInv /\ [LockNext]_lockVars => LockInv'
  <2>1. ASSUME LockInv, UNCHANGED lockVars PROVE LockInv'
    BY <2>1 DEF lockVars, vars, LockInv, HeapInv, TypeOK, IsBeside
  <2>2. QED BY <2>1, LockNextKeeps
<1>3. LockInv => AgreesWithPrototype
  BY BesideAgrees
<1>4. QED BY <1>1, <1>2, <1>3, PTL DEF LockSpec
=============================================================================
