----------------------------- MODULE FilesProofs -----------------------------
(***************************************************************************)
(* What the virtual file system keeps true of its nodes, its open files    *)
(* and the pages of a file, for any names, any paths, any number of        *)
(* processes and files, and any calls.                                     *)
(***************************************************************************)
EXTENDS Files, FiniteSetTheorems, SequenceTheorems, NaturalsInduction, WellFoundedInduction, TLAPS

\* The nodes of the RAM disk are those of one tree: each directory names live nodes, of
\* which it is the parent, each under one name; only directories name any.
TreeInv ==
  /\ RamRoot \in Live /\ nodes[RamRoot].kind = "directory" /\ nodes[RamRoot].parent = RamRoot
  /\ \A d \in Live : \A x \in DOMAIN nodes[d].nodes :
       /\ nodes[d].nodes[x] \in Live \ {RamRoot}
       /\ nodes[nodes[d].nodes[x]].parent = d
       /\ \A y \in DOMAIN nodes[d].nodes : nodes[d].nodes[x] = nodes[d].nodes[y] => x = y
  /\ \A n \in Live \ {RamRoot} :
       /\ nodes[n].parent \in Live
       /\ \E x \in DOMAIN nodes[nodes[n].parent].nodes : nodes[nodes[n].parent].nodes[x] = n
  /\ \A d \in Live : nodes[d].kind = "file" => DOMAIN nodes[d].nodes = {}

\* Following parents leads out of every set of nodes without the root.
NoLoops ==
  \A s \in SUBSET (Live \ {RamRoot}) : s # {} => \E n \in s : nodes[n].parent \notin s

\* An id in use has been given out, and is of a node that is there or was unlinked.
OpenInv ==
  /\ \A p \in Process : \A id \in Ids(p) :
       id < next_file_id[p] /\ open_files[p][id].node \in Live \cup Disk \cup {NULL}
  /\ CountCoversContexts

\* The types, and no file longer than the bound.
FileTypes == TypeOK /\ \A n \in Live : nodes[n].file.total_written <= MaxLength

FilesInv == FileTypes /\ TreeInv /\ NoLoops /\ OpenInv
-----------------------------------------------------------------------------
(* Numbers, and functions that are defined by recursion on them *)

\* Numbers have a least one.
LEMMA Least ==
  ASSUME NEW S \in SUBSET Nat, S # {}
  PROVE  \E m \in S : \A k \in S : m <= k
<1> DEFINE R == {p \in Nat \X Nat : p[1] < p[2]}
<1>1. OpToRel(<, Nat) = R
  BY Zenon DEF OpToRel
<1>2. IsWellFoundedOn(R, Nat)
  BY <1>1, NatLessThanWellFounded, Zenon
<1>3. \E m \in S : \A k \in S : <<k, m>> \notin R
  <2> HIDE DEF R
  <2>1. QED BY <1>2, WFMin
<1>4. ASSUME NEW m \in Nat, NEW k \in Nat, <<k, m>> \notin R
      PROVE  m <= k
  <2>1. ~(k < m)
    BY <1>4
  <2>2. QED BY <2>1
<1>5. QED BY <1>3, <1>4

\* A set that has 0, and with a number the next one, has them all.
LEMMA AllNumbers ==
  ASSUME NEW S, 0 \in S, \A n \in Nat : n \in S => n + 1 \in S
  PROVE  Nat \subseteq S
<1> DEFINE T == {n \in Nat : n \notin S}
<1>1. SUFFICES ASSUME T # {} PROVE FALSE
  OBVIOUS
<1>2. T \in SUBSET Nat
  OBVIOUS
<1>3. PICK m \in T : \A k \in T : m <= k
  <2> HIDE DEF T
  <2>1. QED BY <1>1, <1>2, Least
<1>4. m \in Nat \ {0} /\ m - 1 \in Nat /\ (m - 1) + 1 = m
  OBVIOUS
<1>5. m - 1 \notin T
  BY <1>3, <1>4
<1>6. QED BY <1>4, <1>5

\* What holds at 0, and with a number at the next one up to n, holds at n.
LEMMA UpTo ==
  ASSUME NEW n \in Nat, NEW S, 0 \in S, \A i \in 0..(n - 1) : i \in S => i + 1 \in S
  PROVE  0..n \subseteq S
<1> DEFINE T == {i \in Nat : i <= n => i \in S}
<1>1. 0 \in T
  OBVIOUS
<1>2. ASSUME NEW i \in Nat, i \in T PROVE i + 1 \in T
  BY <1>2
<1>3. Nat \subseteq T
  <2> HIDE DEF T
  <2>1. QED BY <1>1, <1>2, AllNumbers
<1>4. QED BY <1>3

\* f is made of its first value by a step for each number.
Made(f, n, V, first, step) ==
  /\ f \in [0..n -> V]
  /\ f[0] = first
  /\ \A i \in 1..n : f[i] = step[i][f[i - 1]]

\* There is a function for any first value and steps.
LEMMA Recursion ==
  ASSUME NEW n \in Nat, NEW V, NEW first \in V, NEW step \in [1..n -> [V -> V]]
  PROVE  \E f : Made(f, n, V, first, step)
<1> DEFINE S == {m \in 0..n : \E f : Made(f, m, V, first, step)}
<1>1. 0 \in S
  <2> DEFINE f == [i \in 0..0 |-> first]
  <2>1. Made(f, 0, V, first, step)
    BY DEF Made
  <2> HIDE DEF f
  <2>2. QED BY <2>1
<1>2. ASSUME NEW m \in 0..(n - 1), m \in S PROVE m + 1 \in S
  <2>1. PICK f : Made(f, m, V, first, step)
    BY <1>2
  <2> DEFINE g == [i \in 0..(m + 1) |-> IF i <= m THEN f[i] ELSE step[m + 1][f[m]]]
  <2>2. m + 1 \in 1..n /\ f[m] \in V
    BY <2>1 DEF Made
  <2>3. g \in [0..(m + 1) -> V]
    BY <2>1, <2>2 DEF Made
  <2>4. ASSUME NEW i \in 1..(m + 1) PROVE g[i] = step[i][g[i - 1]]
    <3>1. CASE i = m + 1
      BY <3>1
    <3>2. CASE i # m + 1
      <4>1. i \in 1..m /\ g[i] = f[i] /\ g[i - 1] = f[i - 1]
        BY <3>2
      <4>2. QED BY <2>1, <4>1 DEF Made
    <3>3. QED BY <3>1, <3>2
  <2>5. Made(g, m + 1, V, first, step)
    <3>1. g[0] = first
      BY <2>1 DEF Made
    <3> HIDE DEF g
    <3>2. QED BY <2>3, <2>4, <3>1 DEF Made
  <2>6. m + 1 \in 0..n
    BY <2>2
  <2> HIDE DEF g
  <2>7. QED BY <2>5, <2>6
<1>3. n \in S
  <2> HIDE DEF S
  <2>1. 0..n \subseteq S
    BY <1>1, <1>2, UpTo
  <2>2. QED BY <2>1
<1>4. QED BY <1>3
-----------------------------------------------------------------------------
(* Where a path leads *)

Names == Component \cup {".."}

\* The outcomes of a walk.
Walks ==
  [node : Live \cup Disk, canonical : Seq(Component),
   error : {"none", "NotADirectory", "FileNotFound"}]

\* A live node is a record of its kind.
LEMMA LiveNode ==
  ASSUME TypeOK, NEW n \in Live
  PROVE  /\ n \in RamNode /\ nodes[n] # NULL /\ nodes[n] \in NodeRecord
         /\ nodes[n].kind \in {"file", "directory"} /\ nodes[n].parent \in RamNode
         /\ DOMAIN nodes[n].nodes \subseteq Component
         /\ nodes[n].nodes \in [DOMAIN nodes[n].nodes -> RamNode]
<1>1. n \in RamNode /\ nodes[n] # NULL /\ nodes[n] \in NodeRecord
  BY DEF Live, TypeOK
<1>2. QED BY <1>1 DEF NodeRecord

\* No node of the RAM disk is one of the disk or none.
LEMMA DisksApart ==
  /\ DiskRoot \notin RamNode /\ MountPoint \notin RamNode /\ DiskRoot # MountPoint
  /\ NULL \notin RamNode /\ NULL # DiskRoot /\ NULL # MountPoint
  /\ \A n : n \in Live => n \in RamNode
BY FilesAssumption DEF Disk, Node, Live

\* What is mounted on a node that is there, is there, and cannot be a mount point.
LEMMA ContentIsThere ==
  ASSUME TreeInv, NEW n \in Live \cup Disk
  PROVE  Content(n) \in Live \cup {DiskRoot}
BY DisksApart DEF Content, Disk, TreeInv

\* Names lead from a directory to nodes that are there, or to none.
LEMMA FindsLive ==
  ASSUME TypeOK, TreeInv, NEW d \in Live \cup {DiskRoot}, NEW name \in Names
  PROVE  Find(d, name) \in Live \cup Disk \cup {NULL}
<1>1. CASE d = DiskRoot
  BY <1>1, DisksApart, FilesAssumption DEF Find, Disk, Component
<1>2. CASE d \in Live
  <2>1. d \in RamNode /\ d # DiskRoot
    BY <1>2, DisksApart
  <2>2. CASE name = ".."
    BY <1>2, <2>1, <2>2, FilesAssumption DEF Find, TreeInv
  <2>3. CASE name # ".." /\ name \in DOMAIN nodes[d].nodes
    BY <1>2, <2>1, <2>3 DEF Find, TreeInv
  <2>4. CASE name # ".." /\ name \notin DOMAIN nodes[d].nodes
    BY <2>1, <2>4 DEF Find
  <2>5. QED BY <2>2, <2>3, <2>4
<1>3. QED BY <1>1, <1>2

\* The canonical path without its last name.
LEMMA FrontIsPath ==
  ASSUME NEW S, NEW c \in Seq(S), c # <<>>
  PROVE  /\ Front(c) \in Seq(S) /\ Last(c) \in S
         /\ Len(Front(c)) = Len(c) - 1 /\ Last(c) = c[Len(c)]
         /\ \A i \in 1..(Len(c) - 1) : Front(c)[i] = c[i]
<1>1. Len(c) \in Nat \ {0} /\ \A i \in 1..Len(c) : c[i] \in S
  OBVIOUS
<1>2. \A i \in 1..(Len(c) - 1) : c[i] \in S
  BY <1>1
<1>3. /\ SubSeq(c, 1, Len(c) - 1) \in Seq(S)
      /\ Len(SubSeq(c, 1, Len(c) - 1)) = Len(c) - 1
      /\ \A i \in 1..(Len(c) - 1) : SubSeq(c, 1, Len(c) - 1)[i] = c[i]
  <2> DEFINE k == Len(c) - 1
  <2>1. k \in Int /\ (1 <= k => k - 1 + 1 = k) /\ k >= 0
    BY <1>1
  <2>2. /\ SubSeq(c, 1, k) \in Seq(S)
        /\ Len(SubSeq(c, 1, k)) = IF 1 <= k THEN k - 1 + 1 ELSE 0
        /\ \A i \in 1..(k - 1 + 1) : SubSeq(c, 1, k)[i] = c[1 + i - 1]
    <3> HIDE DEF k
    <3>1. QED BY <1>2, <2>1, SubSeqProperties DEF k
  <2>3. k \in Nat
    BY <1>1
  <2>4. (IF 1 <= k THEN k - 1 + 1 ELSE 0) = k /\ k - 1 + 1 = k /\ \A i \in 1..k : 1 + i - 1 = i
    <3> HIDE DEF k
    <3>1. QED BY <2>3
  <2>5. QED BY <2>2, <2>4
<1>4. QED BY <1>1, <1>3 DEF Front, Last

\* Each turn of a walk gives another.
LEMMA StepWalks ==
  ASSUME TypeOK, TreeInv, NEW w \in Walks, NEW name \in Names
  PROVE  Step(w, name) \in Walks
<1> DEFINE d == Content(w.node)
<1>1. w.node \in Live \cup Disk /\ w.canonical \in Seq(Component)
  BY DEF Walks
<1>2. Find(d, name) \in Live \cup Disk \cup {NULL}
  BY <1>1, ContentIsThere, FindsLive
<1>3. (IF name # ".." THEN Append(w.canonical, name)
       ELSE IF w.canonical = <<>> THEN <<>> ELSE Front(w.canonical)) \in Seq(Component)
  BY <1>1, FrontIsPath DEF Names
<1>4. CASE w.error # "none"
  BY <1>4 DEF Step
<1>5. CASE w.error = "none" /\ ~IsDirectory(d)
  BY <1>5 DEF Step, Walks
<1>6. CASE w.error = "none" /\ IsDirectory(d) /\ Find(d, name) = NULL
  BY <1>6 DEF Step, Walks
<1>7. CASE w.error = "none" /\ IsDirectory(d) /\ Find(d, name) # NULL
  BY <1>2, <1>3, <1>7 DEF Step, Walks, Walked
<1>8. QED BY <1>4, <1>5, <1>6, <1>7

\* A walk begins at the root of the disk and takes a turn for each name.
LEMMA TurnsWalk ==
  ASSUME TypeOK, TreeInv, NEW names \in Seq(Names)
  PROVE  /\ Turns(names) \in [0..Len(names) -> Walks]
         /\ Turns(names)[0] = Walked(DiskRoot, <<>>, "none")
         /\ \A i \in 1..Len(names) : Turns(names)[i] = Step(Turns(names)[i - 1], names[i])
<1> DEFINE n == Len(names)
           first == Walked(DiskRoot, <<>>, "none")
           step == [i \in 1..n |-> [w \in Walks |-> Step(w, names[i])]]
           F(f) == f = [i \in 0..n |-> IF i = 0 THEN first ELSE Step(f[i - 1], names[i])]
<1>1. first \in Walks
  BY DEF Walked, Walks, Disk
<1>n. n \in Nat
  OBVIOUS
<1>2. \A i \in 1..n : names[i] \in Names
  OBVIOUS
<1>3. step \in [1..n -> [Walks -> Walks]]
  BY <1>2, StepWalks
<1>4. PICK f : Made(f, n, Walks, first, step)
  <2> HIDE DEF first, step, n
  <2>1. QED BY <1>1, <1>n, <1>3, Recursion
<1>5. F(f)
  <2>1. ASSUME NEW i \in 0..n, i # 0 PROVE f[i] = Step(f[i - 1], names[i])
    <3>1. i \in 1..n /\ i - 1 \in 0..n /\ f[i - 1] \in Walks
      <4> HIDE DEF first, step, n
      <4>1. i \in 1..n /\ i - 1 \in 0..n
        BY <1>n, <2>1
      <4>2. QED BY <1>4, <4>1 DEF Made
    <3>2. step[i][f[i - 1]] = Step(f[i - 1], names[i])
      BY <3>1
    <3>3. QED
      <4> HIDE DEF first, step, n
      <4>1. QED BY <1>4, <3>1, <3>2 DEF Made
  <2> HIDE DEF first, step
  <2>2. QED BY <1>4, <2>1 DEF Made
<1>6. F(Turns(names))
  BY <1>5 DEF Turns
<1>7. /\ Turns(names)[0] = first
      /\ \A i \in 1..n : Turns(names)[i] = Step(Turns(names)[i - 1], names[i])
  <2> HIDE DEF first
  <2>1. QED BY <1>2, <1>6
<1>8. \A i \in 0..n : Turns(names)[i] \in Walks
  <2> DEFINE S == {i \in 0..n : Turns(names)[i] \in Walks}
  <2>1. 0 \in S
    BY <1>1, <1>n, <1>2, <1>7
  <2>2. ASSUME NEW i \in 0..(n - 1), i \in S PROVE i + 1 \in S
    <3>1. i + 1 \in 1..n /\ (i + 1) - 1 = i
      BY <1>n, <1>2
    <3>2. Turns(names)[i + 1] = Step(Turns(names)[i], names[i + 1]) /\ Turns(names)[i] \in Walks
      BY <1>7, <2>2, <3>1
    <3>3. QED BY <1>n, <1>2, <3>1, <3>2, StepWalks
  <2>3. 0..n \subseteq S
    <3> HIDE DEF S, n
    <3>1. QED BY <1>n, <1>2, <2>1, <2>2, UpTo
  <2>4. QED BY <2>3
<1>9. DOMAIN Turns(names) = 0..n /\ Turns(names) = [i \in 0..n |-> Turns(names)[i]]
  BY <1>6
<1>10. QED BY <1>7, <1>8, <1>9

\* A walk that is over is one of its outcomes.
LEMMA WalkEnds ==
  ASSUME TypeOK, TreeInv, NEW names \in Seq(Names)
  PROVE  Walk(names) \in Walks
<1>1. Len(names) \in 0..Len(names)
  OBVIOUS
<1>2. QED BY <1>1, TurnsWalk DEF Walk

\* A path that a program passes, from where it is.
LEMMA AbsoluteIsPath ==
  ASSUME TypeOK, NEW p \in Process, NEW path \in Path
  PROVE  Absolute(p, path) \in Seq(Names)
<1>1. path.components \in Seq(Names) /\ cwd[p] \in Seq(Names)
  BY FilesAssumption DEF TypeOK, Names
<1>2. ToList(path) \in Seq(Names)
  <2> DEFINE c == path.components
             I == {i \in 1..Len(c) : c[i] # ".."}
             named == SelectInSeq(c, LAMBDA name : name # "..")
  <2>1. CASE I = {}
    <3>1. named = 0
      BY <2>1 DEF SelectInSeq
    <3>2. QED BY <1>1, <3>1 DEF ToList
  <2>2. CASE I # {}
    <3>1. I \in SUBSET Nat
      OBVIOUS
    <3>2. \E m \in I : \A i \in I : m <= i
      <4> HIDE DEF I
      <4>1. QED BY <2>2, <3>1, Least
    <3>3. Min(I) \in I
      <4> HIDE DEF I
      <4>1. QED BY <3>2 DEF Min
    <3>4. named = Min(I)
      BY <2>2 DEF SelectInSeq
    <3>5. named \in 1..Len(c)
      BY <3>3, <3>4
    <3>6. SubSeq(c, named, Len(c)) \in Seq(Names)
      <4>1. \A i \in named..Len(c) : c[i] \in Names
        BY <1>1, <3>5
      <4>2. named \in Int /\ Len(c) \in Int
        BY <1>1, <3>5
      <4> HIDE DEF named, c
      <4>3. QED BY <4>1, <4>2, SubSeqProperties
    <3>7. named # 0
      BY <3>5
    <3>8. QED BY <1>1, <3>6, <3>7 DEF ToList
  <2>3. QED BY <2>1, <2>2
<1>3. QED BY <1>1, <1>2 DEF Absolute

\* The directory in which a path creates or removes, and the name there.
LEMMA ParentIsThere ==
  ASSUME TypeOK, TreeInv, NEW p \in Process, NEW path \in Path
  PROVE  /\ ResolveParent(p, path) \in Walks
         /\ Content(ResolveParent(p, path).node) \in Live \cup {DiskRoot}
         /\ Absolute(p, path) = <<>> => ResolveParent(p, path).node = DiskRoot
         /\ Absolute(p, path) # <<>> => ChildName(p, path) \in Names
<1> DEFINE names == Absolute(p, path)
           front == IF names = <<>> THEN <<>> ELSE Front(names)
<1>1. names \in Seq(Names)
  BY AbsoluteIsPath
<1>2. front \in Seq(Names)
  BY <1>1, FrontIsPath
<1>3. ResolveParent(p, path) = Walk(front)
  BY DEF ResolveParent
<1>4. ResolveParent(p, path) \in Walks
  <2> HIDE DEF front
  <2>1. QED BY <1>2, <1>3, WalkEnds
<1>5. names = <<>> => ResolveParent(p, path).node = DiskRoot
  <2>1. Turns(<<>>)[0] = Walked(DiskRoot, <<>>, "none")
    <3>1. <<>> \in Seq(Names)
      OBVIOUS
    <3>2. QED BY <3>1, TurnsWalk
  <2>2. QED BY <1>3, <2>1 DEF Walk, Walked
<1>6. names # <<>> => ChildName(p, path) \in Names
  BY <1>1, FrontIsPath DEF ChildName
<1>7. Content(ResolveParent(p, path).node) \in Live \cup {DiskRoot}
  BY <1>4, ContentIsThere DEF Walks
<1>8. QED BY <1>4, <1>5, <1>6, <1>7

\* The node a path leads to.
LEMMA ResolvesLive ==
  ASSUME TypeOK, TreeInv, NEW p \in Process, NEW path \in Path
  PROVE  /\ Resolve(p, path).node \in Live \cup Disk
         /\ ResolveFile(p, path).node \in Live \cup Disk
         /\ ResolveDirectory(p, path).node \in Live \cup Disk
         /\ ResolveDirectory(p, path).canonical \in Seq(Component)
<1>1. Walk(Absolute(p, path)) \in Walks
  BY AbsoluteIsPath, WalkEnds
<1>2. QED BY <1>1 DEF Resolve, ResolveFile, ResolveDirectory, Walks
-----------------------------------------------------------------------------
(* The tree *)

\* What changes no more than files leaves the tree as it is.
LEMMA SameTree ==
  ASSUME TreeInv, NoLoops, Live' = Live,
         \A n \in Live : /\ nodes'[n].kind = nodes[n].kind
                         /\ nodes'[n].parent = nodes[n].parent
                         /\ nodes'[n].nodes = nodes[n].nodes
  PROVE  TreeInv' /\ NoLoops'
<1>1. TreeInv'
  <2>1. RamRoot \in Live' /\ nodes'[RamRoot].kind = "directory" /\ nodes'[RamRoot].parent = RamRoot
    BY DEF TreeInv
  <2>2. ASSUME NEW d \in Live, NEW x \in DOMAIN nodes[d].nodes
        PROVE  /\ nodes[d].nodes[x] \in Live \ {RamRoot}
               /\ nodes'[nodes[d].nodes[x]].parent = d
               /\ \A y \in DOMAIN nodes[d].nodes : nodes[d].nodes[x] = nodes[d].nodes[y] => x = y
    BY DEF TreeInv
  <2>3. ASSUME NEW n \in Live \ {RamRoot}
        PROVE  /\ nodes'[n].parent \in Live
               /\ \E x \in DOMAIN nodes'[nodes'[n].parent].nodes : nodes'[nodes'[n].parent].nodes[x] = n
    BY DEF TreeInv
  <2>4. \A d \in Live : nodes'[d].kind = "file" => DOMAIN nodes'[d].nodes = {}
    BY DEF TreeInv
  <2>5. QED BY <2>1, <2>2, <2>3, <2>4 DEF TreeInv
<1>2. NoLoops'
  BY DEF NoLoops
<1>3. QED BY <1>1, <1>2

\* create_node() makes a node in a directory of the RAM disk, under a name it does not have.
LEMMA CreatesInDirectory ==
  ASSUME TypeOK, TreeInv, NEW p \in Process, NEW path \in Path, CreateError(p, path) = "none"
  PROVE  LET d == Content(ResolveParent(p, path).node)
         IN /\ d \in Live /\ nodes[d].kind = "directory"
            /\ ChildName(p, path) \in Component \ DOMAIN nodes[d].nodes
<1> DEFINE w == ResolveParent(p, path)
           d == Content(w.node)
           x == ChildName(p, path)
<1>1. d \in Live \cup {DiskRoot}
  BY ParentIsThere
<1>2. w.error = "none" /\ IsDirectory(d) /\ Find(d, x) = NULL /\ d # DiskRoot
  BY DEF CreateError
<1>3. d \in Live /\ d \in RamNode /\ d \notin Disk
  BY <1>1, <1>2, DisksApart DEF Disk
<1>4. nodes[d].kind = "directory"
  BY <1>2, <1>3 DEF IsDirectory
<1>5. x \in Names
  <2>1. Absolute(p, path) # <<>>
    BY <1>2, ParentIsThere, DisksApart DEF Content
  <2>2. QED BY <2>1, ParentIsThere
<1>6. x # ".."
  BY <1>2, <1>3, DisksApart, LiveNode DEF Find
<1>7. x \notin DOMAIN nodes[d].nodes
  <2>1. SUFFICES ASSUME x \in DOMAIN nodes[d].nodes PROVE FALSE
    OBVIOUS
  <2>2. Find(d, x) = nodes[d].nodes[x]
    BY <1>3, <1>6, <2>1, DisksApart DEF Find
  <2>3. nodes[d].nodes[x] \in RamNode
    BY <1>3, <2>1, DisksApart DEF TreeInv
  <2>4. QED BY <1>2, <2>2, <2>3, DisksApart
<1>8. QED BY <1>3, <1>4, <1>5, <1>6, <1>7 DEF Names

\* What Added does to each node.
LEMMA AddedNodes ==
  ASSUME TypeOK, TreeInv, NEW p \in Process, NEW path \in Path, CreateError(p, path) = "none",
         NEW kind \in {"file", "directory"}, NEW n \in RamNode, Added(p, path, kind, n),
         NEW d, d = Content(ResolveParent(p, path).node)
  PROVE  /\ n \notin Live /\ d \in Live /\ n # d
         /\ nodes' \in [RamNode -> NodeRecord \cup {NULL}]
         /\ Live' = Live \cup {n}
         /\ nodes'[n] = NewNode(kind, d)
         /\ nodes'[d] = [nodes[d] EXCEPT !.nodes = With(nodes[d].nodes, ChildName(p, path), n)]
         /\ \A m \in Live \ {d} : nodes'[m] = nodes[m]
<1> DEFINE x == ChildName(p, path)
<1>1. d \in Live /\ nodes[d].kind = "directory" /\ x \in Component \ DOMAIN nodes[d].nodes
  BY CreatesInDirectory
<1>2. /\ n \in RamNode \ Live
      /\ nodes' = [nodes EXCEPT ![n] = NewNode(kind, d), ![d].nodes = With(@, x, n)]
  BY DEF Added
<1>3. n # d /\ d \in RamNode /\ nodes \in [RamNode -> NodeRecord \cup {NULL}]
  BY <1>1, <1>2, DisksApart DEF TypeOK
<1>4. /\ nodes'[n] = NewNode(kind, d)
      /\ nodes'[d] = [nodes[d] EXCEPT !.nodes = With(nodes[d].nodes, x, n)]
      /\ \A m \in RamNode \ {n, d} : nodes'[m] = nodes[m]
      /\ nodes' = [m \in RamNode |-> nodes'[m]]
  BY <1>2, <1>3
<1>5. NewNode(kind, d) \in NodeRecord
  BY <1>3 DEF NewNode, NodeRecord, NewPageFile
<1>6. nodes'[d] \in NodeRecord
  <2>1. nodes[d] \in NodeRecord
    BY <1>1, LiveNode
  <2>2. With(nodes[d].nodes, x, n) \in [DOMAIN nodes[d].nodes \cup {x} -> RamNode]
    BY <1>1, LiveNode DEF With
  <2>3. DOMAIN nodes[d].nodes \cup {x} \in SUBSET Component
    BY <1>1, LiveNode
  <2>4. With(nodes[d].nodes, x, n) \in UNION {[names -> RamNode] : names \in SUBSET Component}
    BY <2>2, <2>3
  <2>5. QED BY <1>4, <2>1, <2>4 DEF NodeRecord
<1>7. nodes' \in [RamNode -> NodeRecord \cup {NULL}]
  BY <1>3, <1>4, <1>5, <1>6
<1>8. NULL \notin NodeRecord
  BY FilesAssumption
<1>9. Live' = Live \cup {n}
  BY <1>1, <1>2, <1>3, <1>4, <1>5, <1>6, <1>8 DEF Live
<1>10. QED BY <1>1, <1>2, <1>3, <1>4, <1>7, <1>9, DisksApart

\* A new node in a directory leaves a tree.
LEMMA AddedKeepsTree ==
  ASSUME TypeOK, TreeInv, NoLoops, NEW p \in Process, NEW path \in Path,
         CreateError(p, path) = "none", NEW kind \in {"file", "directory"},
         NEW n \in RamNode, Added(p, path, kind, n)
  PROVE  TreeInv' /\ NoLoops'
<1> DEFINE d == Content(ResolveParent(p, path).node)
           x == ChildName(p, path)
<1>1. /\ n \notin Live /\ d \in Live /\ n # d /\ Live' = Live \cup {n}
      /\ nodes'[n] = NewNode(kind, d)
      /\ nodes'[d] = [nodes[d] EXCEPT !.nodes = With(nodes[d].nodes, x, n)]
      /\ \A m \in Live \ {d} : nodes'[m] = nodes[m]
  BY AddedNodes
<1>2. d \in Live /\ nodes[d].kind = "directory" /\ x \in Component \ DOMAIN nodes[d].nodes
  BY CreatesInDirectory
<1> HIDE DEF d, x
<1>3. /\ nodes'[n].kind = kind /\ nodes'[n].parent = d /\ DOMAIN nodes'[n].nodes = {}
  BY <1>1 DEF NewNode
<1>4. /\ nodes'[d].kind = nodes[d].kind /\ nodes'[d].parent = nodes[d].parent
      /\ DOMAIN nodes'[d].nodes = DOMAIN nodes[d].nodes \cup {x}
      /\ nodes'[d].nodes[x] = n
      /\ \A y \in DOMAIN nodes[d].nodes : y # x /\ nodes'[d].nodes[y] = nodes[d].nodes[y]
  <2>1. nodes[d] \in NodeRecord
    BY <1>2, LiveNode
  <2>2. /\ nodes'[d].kind = nodes[d].kind /\ nodes'[d].parent = nodes[d].parent
        /\ nodes'[d].nodes = With(nodes[d].nodes, x, n)
    BY <1>1, <2>1 DEF NodeRecord
  <2>3. QED BY <1>2, <2>2 DEF With
<1>5. \A m \in Live : nodes'[m].kind = nodes[m].kind /\ nodes'[m].parent = nodes[m].parent
  BY <1>1, <1>4
<1>6. RamRoot \in Live /\ RamRoot # n
  BY <1>1 DEF TreeInv
<1>7. ASSUME NEW c \in Live', NEW y \in DOMAIN nodes'[c].nodes
      PROVE  /\ nodes'[c].nodes[y] \in Live' \ {RamRoot}
             /\ nodes'[nodes'[c].nodes[y]].parent = c
             /\ \A z \in DOMAIN nodes'[c].nodes : nodes'[c].nodes[y] = nodes'[c].nodes[z] => y = z
  <2>1. \A z \in DOMAIN nodes[c].nodes : c \in Live => nodes[c].nodes[z] \in Live \ {RamRoot}
    BY DEF TreeInv
  <2>2. CASE c = n
    BY <1>3, <2>2
  <2>3. CASE c = d /\ y = x
    <3>1. \A z \in DOMAIN nodes[d].nodes : nodes'[d].nodes[z] # n
      BY <1>1, <1>2, <1>4, <2>1, <2>3
    <3>2. nodes'[c].nodes[y] = n
      BY <1>4, <2>3
    <3>3. ASSUME NEW z \in DOMAIN nodes'[c].nodes, nodes'[c].nodes[z] = n PROVE z = y
      <4>1. z \in DOMAIN nodes[d].nodes \cup {x}
        BY <1>4, <2>3
      <4>2. QED BY <2>3, <3>1, <3>3, <4>1
    <3>4. QED BY <1>1, <1>3, <1>6, <2>3, <3>2, <3>3
  <2>4. CASE c = d /\ y # x
    <3>1. y \in DOMAIN nodes[d].nodes /\ nodes'[d].nodes[y] = nodes[d].nodes[y]
      BY <1>4, <2>4
    <3>2. nodes[d].nodes[y] \in Live \ {RamRoot} /\ nodes[nodes[d].nodes[y]].parent = d
      BY <1>2, <3>1 DEF TreeInv
    <3>3. \A z \in DOMAIN nodes[d].nodes : nodes[d].nodes[y] = nodes[d].nodes[z] => y = z
      BY <1>2, <3>1 DEF TreeInv
    <3>4. QED BY <1>1, <1>4, <1>5, <2>4, <3>1, <3>2, <3>3, ZenonT(40)
  <2>5. CASE c \in Live \ {d}
    <3>1. nodes'[c] = nodes[c]
      BY <1>1, <2>5
    <3>2. /\ nodes[c].nodes[y] \in Live \ {RamRoot} /\ nodes[nodes[c].nodes[y]].parent = c
          /\ \A z \in DOMAIN nodes[c].nodes : nodes[c].nodes[y] = nodes[c].nodes[z] => y = z
      BY <2>5, <3>1 DEF TreeInv
    <3>3. QED BY <1>1, <1>5, <3>1, <3>2
  <2>6. QED BY <1>1, <2>2, <2>3, <2>4, <2>5
<1>8. ASSUME NEW m \in Live' \ {RamRoot}
      PROVE  /\ nodes'[m].parent \in Live'
             /\ \E y \in DOMAIN nodes'[nodes'[m].parent].nodes : nodes'[nodes'[m].parent].nodes[y] = m
  <2>1. CASE m = n
    BY <1>1, <1>3, <1>4, <2>1
  <2>2. CASE m # n
    <3>1. m \in Live \ {RamRoot} /\ nodes'[m].parent = nodes[m].parent
      BY <1>1, <1>5, <2>2
    <3>2. PICK y \in DOMAIN nodes[nodes[m].parent].nodes : nodes[nodes[m].parent].nodes[y] = m
      BY <3>1 DEF TreeInv
    <3>3. nodes[m].parent \in Live
      BY <3>1 DEF TreeInv
    <3>4. y \in DOMAIN nodes'[nodes[m].parent].nodes /\ nodes'[nodes[m].parent].nodes[y] = m
      BY <1>1, <1>4, <3>2, <3>3
    <3>5. QED BY <1>1, <3>1, <3>3, <3>4
  <2>3. QED BY <2>1, <2>2
<1>9. \A c \in Live' : nodes'[c].kind = "file" => DOMAIN nodes'[c].nodes = {}
  <2>1. \A c \in Live : nodes[c].kind = "file" => DOMAIN nodes[c].nodes = {}
    BY DEF TreeInv
  <2>2. \A c \in Live \ {d} : nodes'[c].kind = "file" => DOMAIN nodes'[c].nodes = {}
    BY <1>1, <2>1
  <2>3. nodes'[d].kind # "file"
    BY <1>2, <1>4
  <2>4. QED BY <1>1, <1>3, <2>2, <2>3
<1>10. TreeInv'
  <2>1. RamRoot \in Live' /\ nodes'[RamRoot].kind = "directory" /\ nodes'[RamRoot].parent = RamRoot
    BY <1>1, <1>5, <1>6 DEF TreeInv
  <2>2. QED BY <2>1, <1>7, <1>8, <1>9 DEF TreeInv
<1>11. NoLoops'
  <2>1. SUFFICES ASSUME NEW s \in SUBSET (Live' \ {RamRoot}), s # {}
                 PROVE  \E m \in s : nodes'[m].parent \notin s
    BY Zenon DEF NoLoops
  <2>2. CASE s = {n}
    BY <1>1, <1>3, <2>2
  <2>3. CASE s # {n}
    <3>1. s \ {n} \in SUBSET (Live \ {RamRoot}) /\ s \ {n} # {}
      BY <1>1, <2>1, <2>3
    <3>2. PICK m \in s \ {n} : nodes[m].parent \notin s \ {n}
      BY <3>1 DEF NoLoops
    <3>3. nodes[m].parent \in Live
      BY <3>1, <3>2 DEF TreeInv
    <3>4. nodes'[m].parent = nodes[m].parent
      BY <1>5, <3>1, <3>2
    <3>5. QED BY <1>1, <3>2, <3>3, <3>4
  <2>4. QED BY <2>2, <2>3
<1>12. QED BY <1>10, <1>11

\* unlink() takes from a directory of the RAM disk a node that names none.
LEMMA UnlinksEmpty ==
  ASSUME TypeOK, TreeInv, NEW p \in Process, NEW path \in Path,
         UnlinkError(p, path) = "none", ChildName(p, path) # ".."
  PROVE  LET d == Content(ResolveParent(p, path).node)
             x == ChildName(p, path)
             t == Target(p, path)
         IN /\ d \in Live /\ x \in DOMAIN nodes[d].nodes /\ t = nodes[d].nodes[x]
            /\ t \in Live \ {RamRoot, d} /\ DOMAIN nodes[t].nodes = {}
<1> DEFINE w == ResolveParent(p, path)
           d == Content(w.node)
           x == ChildName(p, path)
           t == Target(p, path)
<1>1. d \in Live \cup {DiskRoot}
  BY ParentIsThere
<1>2. /\ w.error = "none" /\ IsDirectory(d) /\ t # NULL /\ d # DiskRoot
      /\ IsDirectory(t) => IsEmpty(Content(t))
  BY DEF UnlinkError
<1>3. d \in Live /\ d \in RamNode /\ d \notin Disk
  BY <1>1, <1>2, DisksApart DEF Disk
<1>4. t = Find(d, x)
  BY DEF Target
<1>5. x \in DOMAIN nodes[d].nodes /\ t = nodes[d].nodes[x]
  BY <1>2, <1>3, <1>4, DisksApart DEF Find
<1>6. t \in Live \ {RamRoot} /\ nodes[t].parent = d
  BY <1>3, <1>5 DEF TreeInv
<1>7. t \in RamNode /\ t # MountPoint /\ Content(t) = t
  BY <1>6, DisksApart DEF Content
<1>8. DOMAIN nodes[t].nodes = {}
  <2>1. CASE nodes[t].kind = "file"
    BY <1>6, <2>1 DEF TreeInv
  <2>2. CASE nodes[t].kind = "directory"
    BY <1>2, <1>6, <1>7, <2>2 DEF IsDirectory, IsEmpty
  <2>3. QED BY <1>6, <2>1, <2>2, LiveNode
<1>9. t # d
  BY <1>5, <1>8
<1>10. QED BY <1>3, <1>5, <1>6, <1>8, <1>9

\* What Unlink does to each node.
LEMMA UnlinkNodes ==
  ASSUME TypeOK, TreeInv, NEW p \in Process, NEW path \in Path, Unlink(p, path),
         NEW d, d = Content(ResolveParent(p, path).node), NEW t, t = Target(p, path)
  PROVE  /\ d \in Live' /\ t \in Live \ {RamRoot, d}
         /\ nodes' \in [RamNode -> NodeRecord \cup {NULL}]
         /\ Live' = Live \ {t}
         /\ nodes'[d].kind = nodes[d].kind /\ nodes'[d].parent = nodes[d].parent
         /\ nodes'[d].file = nodes[d].file
         /\ DOMAIN nodes'[d].nodes = DOMAIN nodes[d].nodes \ {ChildName(p, path)}
         /\ \A y \in DOMAIN nodes'[d].nodes : nodes'[d].nodes[y] = nodes[d].nodes[y]
         /\ \A m \in Live \ {d, t} : nodes'[m] = nodes[m]
<1> DEFINE x == ChildName(p, path)
           less == [y \in DOMAIN nodes[d].nodes \ {x} |-> nodes[d].nodes[y]]
<1>1. /\ d \in Live /\ x \in DOMAIN nodes[d].nodes /\ t = nodes[d].nodes[x]
      /\ t \in Live \ {RamRoot, d}
  BY UnlinksEmpty DEF Unlink
<1>2. nodes' = [nodes EXCEPT ![t] = NULL,
                             ![d].nodes = [y \in DOMAIN @ \ {ChildName(p, path)} |-> @[y]]]
  BY DEF Unlink
<1>3. d \in RamNode /\ t \in RamNode /\ nodes \in [RamNode -> NodeRecord \cup {NULL}]
  BY <1>1, DisksApart DEF TypeOK
<1>4. /\ nodes'[t] = NULL
      /\ nodes'[d] = [nodes[d] EXCEPT !.nodes = less]
      /\ \A m \in RamNode \ {t, d} : nodes'[m] = nodes[m]
      /\ nodes' = [m \in RamNode |-> nodes'[m]]
  BY <1>1, <1>2, <1>3
<1>5. nodes[d] \in NodeRecord /\ less \in [DOMAIN nodes[d].nodes \ {x} -> RamNode]
  BY <1>1, LiveNode
<1>6. nodes'[d] \in NodeRecord
  <2>1. DOMAIN nodes[d].nodes \ {x} \in SUBSET Component
    BY <1>1, LiveNode
  <2>2. less \in UNION {[names -> RamNode] : names \in SUBSET Component}
    BY <1>5, <2>1
  <2> HIDE DEF less
  <2>3. QED BY <1>4, <1>5, <2>2 DEF NodeRecord
<1>7. nodes' \in [RamNode -> NodeRecord \cup {NULL}]
  BY <1>3, <1>4, <1>6
<1>8. NULL \notin NodeRecord
  BY FilesAssumption
<1>9. Live' = Live \ {t}
  BY <1>1, <1>3, <1>4, <1>6, <1>8 DEF Live
<1>10. /\ nodes'[d].kind = nodes[d].kind /\ nodes'[d].parent = nodes[d].parent
       /\ nodes'[d].file = nodes[d].file /\ nodes'[d].nodes = less
  <2> HIDE DEF less
  <2>1. QED BY <1>4, <1>5 DEF NodeRecord
<1>11. QED BY <1>1, <1>3, <1>4, <1>7, <1>9, <1>10, DisksApart

\* A tree without one of its leaves is a tree.
LEMMA UnlinkKeepsTree ==
  ASSUME TypeOK, TreeInv, NoLoops, NEW p \in Process, NEW path \in Path, Unlink(p, path)
  PROVE  TreeInv' /\ NoLoops'
<1> DEFINE d == Content(ResolveParent(p, path).node)
           t == Target(p, path)
           x == ChildName(p, path)
<1>1. /\ t \in Live \ {RamRoot, d}
      /\ Live' = Live \ {t}
      /\ nodes'[d].kind = nodes[d].kind /\ nodes'[d].parent = nodes[d].parent
      /\ DOMAIN nodes'[d].nodes = DOMAIN nodes[d].nodes \ {x}
      /\ \A y \in DOMAIN nodes'[d].nodes : nodes'[d].nodes[y] = nodes[d].nodes[y]
      /\ \A m \in Live \ {d, t} : nodes'[m] = nodes[m]
  BY UnlinkNodes
<1>2. d \in Live /\ x \in DOMAIN nodes[d].nodes /\ t = nodes[d].nodes[x] /\ DOMAIN nodes[t].nodes = {}
  BY UnlinksEmpty DEF Unlink
<1> HIDE DEF d, t, x
<1>3. \A m \in Live' : nodes'[m].kind = nodes[m].kind /\ nodes'[m].parent = nodes[m].parent
  BY <1>1
<1>4. \A c \in Live' : \A y \in DOMAIN nodes'[c].nodes :
        /\ y \in DOMAIN nodes[c].nodes /\ nodes'[c].nodes[y] = nodes[c].nodes[y]
        /\ c = d => y # x
  BY <1>1
<1>5. nodes[t].parent = d
  BY <1>2 DEF TreeInv
<1>6. ASSUME NEW c \in Live', NEW y \in DOMAIN nodes'[c].nodes
      PROVE  /\ nodes'[c].nodes[y] \in Live' \ {RamRoot}
             /\ nodes'[nodes'[c].nodes[y]].parent = c
             /\ \A z \in DOMAIN nodes'[c].nodes : nodes'[c].nodes[y] = nodes'[c].nodes[z] => y = z
  <2>1. /\ c \in Live /\ y \in DOMAIN nodes[c].nodes /\ nodes'[c].nodes[y] = nodes[c].nodes[y]
        /\ c = d => y # x
    BY <1>1, <1>4
  <2>2. /\ nodes[c].nodes[y] \in Live \ {RamRoot} /\ nodes[nodes[c].nodes[y]].parent = c
        /\ \A z \in DOMAIN nodes[c].nodes : nodes[c].nodes[y] = nodes[c].nodes[z] => y = z
    BY <2>1 DEF TreeInv
  <2>3. nodes[c].nodes[y] # t
    BY <1>2, <1>5, <2>1, <2>2
  <2>4. nodes[c].nodes[y] \in Live'
    BY <1>1, <2>2, <2>3
  <2>5. \A z \in DOMAIN nodes'[c].nodes : nodes'[c].nodes[y] = nodes'[c].nodes[z] => y = z
    BY <1>4, <2>1, <2>2
  <2>6. QED BY <1>3, <2>1, <2>2, <2>4, <2>5
<1>7. ASSUME NEW m \in Live' \ {RamRoot}
      PROVE  /\ nodes'[m].parent \in Live'
             /\ \E y \in DOMAIN nodes'[nodes'[m].parent].nodes : nodes'[nodes'[m].parent].nodes[y] = m
  <2>1. m \in Live \ {RamRoot} /\ m # t /\ nodes'[m].parent = nodes[m].parent
    BY <1>1, <1>3
  <2>2. nodes[m].parent \in Live
    BY <2>1 DEF TreeInv
  <2>3. PICK y \in DOMAIN nodes[nodes[m].parent].nodes : nodes[nodes[m].parent].nodes[y] = m
    BY <2>1 DEF TreeInv
  <2>4. nodes[m].parent # t
    BY <1>2, <2>3
  <2>5. y \in DOMAIN nodes'[nodes[m].parent].nodes /\ nodes'[nodes[m].parent].nodes[y] = m
    <3>1. CASE nodes[m].parent = d
      BY <1>1, <1>2, <2>1, <2>3, <3>1
    <3>2. CASE nodes[m].parent # d
      BY <1>1, <2>2, <2>3, <2>4, <3>2
    <3>3. QED BY <3>1, <3>2
  <2>6. QED BY <1>1, <2>1, <2>2, <2>4, <2>5
<1>8. ASSUME NEW c \in Live', nodes'[c].kind = "file" PROVE DOMAIN nodes'[c].nodes = {}
  <2>1. DOMAIN nodes[c].nodes = {}
    BY <1>1, <1>3, <1>8 DEF TreeInv
  <2>2. QED BY <1>4, <2>1
<1>9. RamRoot \in Live' /\ nodes'[RamRoot].kind = "directory" /\ nodes'[RamRoot].parent = RamRoot
  BY <1>1, <1>3 DEF TreeInv
<1>10. TreeInv'
  BY <1>6, <1>7, <1>8, <1>9 DEF TreeInv
<1>11. NoLoops'
  <2>1. SUFFICES ASSUME NEW s \in SUBSET (Live' \ {RamRoot}), s # {}
                 PROVE  \E m \in s : nodes'[m].parent \notin s
    BY Zenon DEF NoLoops
  <2>2. s \in SUBSET (Live \ {RamRoot})
    BY <1>1, <2>1
  <2>3. PICK m \in s : nodes[m].parent \notin s
    BY <2>1, <2>2 DEF NoLoops
  <2>4. QED BY <1>3, <2>1, <2>3
<1>12. QED BY <1>10, <1>11

-----------------------------------------------------------------------------
(* Open files *)

\* There are finitely many contexts.
LEMMA ContextsAreFinite ==
  ASSUME NEW n
  PROVE  /\ IsFiniteSet(ContextsOf(n)) /\ Cardinality(ContextsOf(n)) \in Nat
         /\ IsFiniteSet(ContextsOf(n)') /\ Cardinality(ContextsOf(n)') \in Nat
<1>1. IsFiniteSet(Process) /\ IsFiniteSet(0..MaxIds)
  BY FilesAssumption, FS_Interval
<1>2. IsFiniteSet(Process \X (0..MaxIds))
  BY <1>1, FS_Product
<1>3. ContextsOf(n) \subseteq Process \X (0..MaxIds) /\ ContextsOf(n)' \subseteq Process \X (0..MaxIds)
  BY DEF ContextsOf
<1>4. QED BY <1>2, <1>3, FS_Subset, FS_CardinalityType

\* Fewer contexts of a node are covered by the same count.
LEMMA FewerContexts ==
  ASSUME NEW n \in Node, context_rc \in [Node -> Nat], CountCoversContexts,
         ContextsOf(n)' \subseteq ContextsOf(n), context_rc'[n] = context_rc[n]
  PROVE  context_rc'[n] >= Cardinality(ContextsOf(n)')
<1>1. Cardinality(ContextsOf(n)') <= Cardinality(ContextsOf(n))
  BY ContextsAreFinite, FS_Subset
<1>2. context_rc[n] >= Cardinality(ContextsOf(n)) /\ context_rc[n] \in Nat
  BY DEF CountCoversContexts
<1>3. Cardinality(ContextsOf(n)) \in Nat /\ Cardinality(ContextsOf(n)') \in Nat
  BY ContextsAreFinite
<1>4. QED BY <1>1, <1>2, <1>3
\* The same ids, with contexts of the same nodes.
SameContexts(files) ==
  \A q \in Process : /\ DOMAIN files[q] = Ids(q)
                     /\ \A i \in Ids(q) : files[q][i].node = open_files[q][i].node

\* An open file is a context.
LEMMA OpenContext ==
  ASSUME TypeOK, NEW q \in Process, NEW i \in Ids(q)
  PROVE  /\ i \in 0..MaxIds /\ open_files[q][i] \in ContextRecord
         /\ open_files[q][i].node \in Node \cup {NULL}
         /\ open_files[q][i].pos \in 0..MaxLength
         /\ open_files[q][i].listing \in {"none", "fresh", "stale"}
<1>1. i \in 0..MaxIds /\ open_files[q][i] \in ContextRecord
  BY DEF TypeOK, AreContexts, Ids
<1>2. QED BY <1>1 DEF ContextRecord

\* A node that is not there has no contexts.
LEMMA NoContexts ==
  ASSUME TypeOK, OpenInv, NEW n \in RamNode \ Live
  PROVE  ContextsOf(n) = {}
<1>1. n \notin Live \cup Disk \cup {NULL}
  BY DisksApart DEF Disk
<1>2. QED BY <1>1, Zenon DEF ContextsOf, OpenInv

\* Iterators that are out of date are of the same nodes.
LEMMA OutdatedKeeps ==
  ASSUME TypeOK, NEW d
  PROVE  AreContexts(Outdated(d)) /\ SameContexts(Outdated(d))
<1>1. ASSUME NEW q \in Process
      PROVE  DOMAIN Outdated(d)[q] = Ids(q) /\ Outdated(d)[q] = [i \in Ids(q) |-> Outdated(d)[q][i]]
  BY DEF Outdated, Ids
<1>2. ASSUME NEW q \in Process, NEW i \in Ids(q)
      PROVE  /\ Outdated(d)[q][i] \in ContextRecord
             /\ Outdated(d)[q][i].node = open_files[q][i].node
  <2>1. \/ Outdated(d)[q][i] = open_files[q][i]
        \/ Outdated(d)[q][i] = [open_files[q][i] EXCEPT !.listing = "stale"]
    BY DEF Outdated, Ids
  <2>2. open_files[q][i] \in ContextRecord
    BY OpenContext
  <2>3. QED BY <2>1, <2>2 DEF ContextRecord
<1>3. Outdated(d) = [q \in Process |-> Outdated(d)[q]]
  BY DEF Outdated
<1>4. \A q \in Process : Ids(q) \subseteq 0..MaxIds
  BY DEF TypeOK, AreContexts, Ids
<1>5. AreContexts(Outdated(d))
  BY <1>1, <1>2, <1>3, <1>4 DEF AreContexts
<1>6. QED BY <1>1, <1>2, <1>5 DEF SameContexts

\* Contexts that stay of their nodes, or lose them, are covered by the counts they had.
LEMMA CoveredStill ==
  ASSUME TypeOK, OpenInv, NEW S \in SUBSET Node,
         \A q \in Process : \A i \in Ids(q)' :
           /\ i \in Ids(q)
           /\ open_files'[q][i].node \in {open_files[q][i].node, NULL},
         \A n \in Node \ S : context_rc'[n] = context_rc[n]
  PROVE  \A n \in Node \ S : context_rc'[n] >= Cardinality(ContextsOf(n)')
<1>1. ASSUME NEW n \in Node \ S PROVE context_rc'[n] >= Cardinality(ContextsOf(n)')
  <2>1. n # NULL
    BY FilesAssumption
  <2>2. ContextsOf(n)' \subseteq ContextsOf(n)
    BY <2>1 DEF ContextsOf
  <2>3. QED BY <2>2, FewerContexts DEF TypeOK, OpenInv
<1>2. QED BY <1>1

\* A new context has an id of its own and is counted, whether it gets that far or not.
LEMMA AttachKeeps ==
  ASSUME TypeOK, OpenInv, NEW p \in Process, NEW n \in Live' \cup Disk, Live \subseteq Live',
         NEW rc \in Nat, rc >= Cardinality(ContextsOf(n)),
         NEW files, AreContexts(files), SameContexts(files),
         next_file_id[p] < MaxIds, Attach(p, n, rc, files)
  PROVE  /\ AreContexts(open_files') /\ OpenInv'
         /\ context_rc' \in [Node -> Nat] /\ next_file_id' \in [Process -> 0..MaxIds]
<1> DEFINE id == next_file_id[p]
<1>1. n \in Node
  BY DEF Live, Node
<1>2. /\ next_file_id \in [Process -> 0..MaxIds] /\ context_rc \in [Node -> Nat]
      /\ id \in Nat /\ id + 1 \in 0..MaxIds /\ MaxIds \in Nat
  BY FilesAssumption DEF TypeOK
<1>3. /\ context_rc' \in [Node -> Nat] /\ context_rc'[n] = rc + 1
      /\ \A m \in Node \ {n} : context_rc'[m] = context_rc[m]
  BY <1>1, <1>2 DEF Attach
<1>4. /\ next_file_id' \in [Process -> 0..MaxIds] /\ next_file_id'[p] = id + 1
      /\ \A q \in Process \ {p} : next_file_id'[q] = next_file_id[q]
  BY <1>2 DEF Attach
<1>5. Context(n) \in ContextRecord /\ Context(n).node = n
  BY <1>1, FilesAssumption DEF Context, ContextRecord
<1>6. id \notin Ids(p)
  BY <1>2 DEF OpenInv
<1>7. \/ open_files' = [files EXCEPT ![p] = With(@, id, Context(n))]
      \/ open_files' = files
  BY DEF Attach
<1>8. /\ files = [q \in Process |-> files[q]]
      /\ \A q \in Process : /\ DOMAIN files[q] = Ids(q) /\ Ids(q) \subseteq 0..MaxIds
                            /\ files[q] \in [Ids(q) -> ContextRecord]
  BY DEF AreContexts, SameContexts
<1>9. ASSUME open_files' # files
      PROVE  /\ open_files' = [q \in Process |-> open_files'[q]]
             /\ \A q \in Process \ {p} : open_files'[q] = files[q]
             /\ open_files'[p] \in [Ids(p) \cup {id} -> ContextRecord]
             /\ Ids(p)' = Ids(p) \cup {id} /\ open_files'[p][id] = Context(n)
             /\ \A i \in Ids(p) : open_files'[p][i] = files[p][i]
  <2>1. /\ open_files' = [q \in Process |-> open_files'[q]]
        /\ \A q \in Process \ {p} : open_files'[q] = files[q]
        /\ open_files'[p] = With(files[p], id, Context(n))
    BY <1>7, <1>8, <1>9
  <2>2. /\ files[p] \in [Ids(p) -> ContextRecord] /\ Context(n) \in ContextRecord
    BY <1>5, <1>8
  <2>3. /\ With(files[p], id, Context(n)) \in [Ids(p) \cup {id} -> ContextRecord]
        /\ DOMAIN With(files[p], id, Context(n)) = Ids(p) \cup {id}
        /\ With(files[p], id, Context(n))[id] = Context(n)
        /\ \A i \in Ids(p) \ {id} : With(files[p], id, Context(n))[i] = files[p][i]
    BY <2>2 DEF With
  <2>4. QED BY <1>6, <2>1, <2>3 DEF Ids
<1>10. AreContexts(open_files')
  <2>1. CASE open_files' = files
    BY <2>1
  <2>2. CASE open_files' # files
    <3>1. ASSUME NEW q \in Process
          PROVE  /\ DOMAIN open_files'[q] \subseteq 0..MaxIds
                 /\ open_files'[q] \in [DOMAIN open_files'[q] -> ContextRecord]
      <4>1. CASE q = p
        BY <1>2, <1>8, <1>9, <2>2, <4>1
      <4>2. CASE q # p
        BY <1>8, <1>9, <2>2, <4>2
      <4>3. QED BY <4>1, <4>2
    <3>2. QED BY <1>9, <2>2, <3>1 DEF AreContexts
  <2>3. QED BY <2>1, <2>2
<1>11. ASSUME NEW q \in Process, NEW i \in Ids(q)'
       PROVE  \/ i \in Ids(q) /\ open_files'[q][i].node = open_files[q][i].node
              \/ q = p /\ i = id /\ open_files'[q][i].node = n
  <2>1. CASE open_files' = files
    BY <1>8, <2>1 DEF SameContexts, Ids
  <2>2. CASE open_files' # files
    BY <1>5, <1>8, <1>9, <2>2 DEF SameContexts, Ids
  <2>3. QED BY <2>1, <2>2
<1>12. ASSUME NEW q \in Process, NEW i \in Ids(q)'
       PROVE  i < next_file_id'[q] /\ open_files'[q][i].node \in Live' \cup Disk \cup {NULL}
  <2>1. CASE i \in Ids(q) /\ open_files'[q][i].node = open_files[q][i].node
    <3>1. i < next_file_id[q] /\ open_files[q][i].node \in Live \cup Disk \cup {NULL}
      BY <2>1 DEF OpenInv
    <3>2. i \in Nat /\ next_file_id[q] \in Nat
      BY <1>2, <2>1, OpenContext
    <3>3. i < next_file_id'[q]
      BY <1>2, <1>4, <3>1, <3>2
    <3>4. QED BY <2>1, <3>1, <3>3
  <2>2. CASE q = p /\ i = id /\ open_files'[q][i].node = n
    BY <1>2, <1>4, <2>2
  <2>3. QED BY <1>11, <2>1, <2>2
<1>13. ASSUME NEW m \in Node PROVE context_rc'[m] >= Cardinality(ContextsOf(m)')
  <2>1. CASE m = n
    <3>1. ContextsOf(n)' \subseteq ContextsOf(n) \cup {<<p, id>>}
      BY <1>11 DEF ContextsOf
    <3>2. /\ IsFiniteSet(ContextsOf(n)) /\ Cardinality(ContextsOf(n)) \in Nat
          /\ Cardinality(ContextsOf(n)') \in Nat
      BY ContextsAreFinite
    <3>3. /\ IsFiniteSet(ContextsOf(n) \cup {<<p, id>>})
          /\ Cardinality(ContextsOf(n) \cup {<<p, id>>}) \in
               {Cardinality(ContextsOf(n)), Cardinality(ContextsOf(n)) + 1}
      BY <3>2, FS_AddElement
    <3>4. Cardinality(ContextsOf(n)') <= Cardinality(ContextsOf(n) \cup {<<p, id>>})
      BY <3>1, <3>3, FS_Subset
    <3>5. QED BY <1>3, <2>1, <3>2, <3>3, <3>4
  <2>2. CASE m # n
    <3>1. ContextsOf(m)' \subseteq ContextsOf(m)
      BY <1>11, <2>2 DEF ContextsOf
    <3>2. QED BY <1>3, <2>2, <3>1, FewerContexts DEF TypeOK, OpenInv
  <2>3. QED BY <2>1, <2>2
<1>14. OpenInv'
  BY <1>12, <1>13 DEF OpenInv, CountCoversContexts
<1>15. QED BY <1>3, <1>4, <1>10, <1>14

\* A call that changes no more than where its file is read or how it is listed.
LEMMA MovedContext ==
  ASSUME TypeOK, OpenInv, Live' = Live, UNCHANGED <<context_rc, next_file_id>>,
         NEW p \in Process, NEW id \in Ids(p), NEW c \in ContextRecord,
         c.node = open_files[p][id].node,
         open_files' = [open_files EXCEPT ![p][id] = c]
  PROVE  AreContexts(open_files') /\ OpenInv'
<1>1. /\ open_files' = [q \in Process |-> open_files'[q]]
      /\ \A q \in Process \ {p} : open_files'[q] = open_files[q]
      /\ open_files'[p] = [open_files[p] EXCEPT ![id] = c]
  BY DEF TypeOK, AreContexts
<1>2. \A q \in Process : /\ Ids(q) \subseteq 0..MaxIds /\ open_files[q] \in [Ids(q) -> ContextRecord]
  BY DEF TypeOK, AreContexts, Ids
<1>3. \A q \in Process : Ids(q)' = Ids(q) /\ open_files'[q] \in [Ids(q) -> ContextRecord]
  BY <1>1, <1>2 DEF Ids
<1>4. AreContexts(open_files')
  BY <1>1, <1>2, <1>3 DEF AreContexts, Ids
<1>5. \A q \in Process : \A i \in Ids(q) : open_files'[q][i].node = open_files[q][i].node
  BY <1>1, <1>2
<1>6. \A n \in Node : context_rc'[n] >= Cardinality(ContextsOf(n)')
  <2>1. /\ {} \in SUBSET Node /\ Node \ {} = Node
        /\ \A n \in Node : context_rc'[n] = context_rc[n]
    OBVIOUS
  <2>2. \A q \in Process : \A i \in Ids(q)' :
          i \in Ids(q) /\ open_files'[q][i].node \in {open_files[q][i].node, NULL}
    BY <1>3, <1>5
  <2>3. QED BY <2>1, <2>2, CoveredStill
<1>7. \A q \in Process : \A i \in Ids(q)' :
        i < next_file_id'[q] /\ open_files'[q][i].node \in Live' \cup Disk \cup {NULL}
  BY <1>3, <1>5 DEF OpenInv
<1>8. QED BY <1>4, <1>6, <1>7 DEF OpenInv, CountCoversContexts

\* A context that is closed is counted down once.
LEMMA CloseKeeps ==
  ASSUME TypeOK, OpenInv, NEW p \in Process, NEW id, Close(p, id)
  PROVE  AreContexts(open_files') /\ OpenInv' /\ context_rc' \in [Node -> Nat]
<1>0. PICK n : n = open_files[p][id].node
  OBVIOUS
<1>1. id \in Ids(p) /\ n \in Node
  BY <1>0, OpenContext DEF Close, Usable
<1>2. /\ context_rc \in [Node -> Nat]
      /\ context_rc' = [context_rc EXCEPT ![n] = IF @ > 0 THEN @ - 1 ELSE @]
      /\ open_files' = [open_files EXCEPT ![p] = [i \in Ids(p) \ {id} |-> @[i]]]
      /\ UNCHANGED <<nodes, next_file_id>>
  BY <1>0 DEF Close, TypeOK
<1>3. /\ context_rc' \in [Node -> Nat]
      /\ \A m \in Node \ {n} : context_rc'[m] = context_rc[m]
      /\ context_rc'[n] = IF context_rc[n] > 0 THEN context_rc[n] - 1 ELSE context_rc[n]
  <2>1. (IF context_rc[n] > 0 THEN context_rc[n] - 1 ELSE context_rc[n]) \in Nat
    BY <1>1, <1>2
  <2>2. QED BY <1>1, <1>2, <2>1
<1>4. /\ open_files' = [q \in Process |-> open_files'[q]]
      /\ \A q \in Process \ {p} : open_files'[q] = open_files[q]
      /\ open_files'[p] = [i \in Ids(p) \ {id} |-> open_files[p][i]]
  BY <1>2 DEF TypeOK, AreContexts
<1>5. \A q \in Process : /\ Ids(q) \subseteq 0..MaxIds /\ open_files[q] \in [Ids(q) -> ContextRecord]
  BY DEF TypeOK, AreContexts, Ids
<1>6. /\ \A q \in Process \ {p} : Ids(q)' = Ids(q)
      /\ Ids(p)' = Ids(p) \ {id}
      /\ \A q \in Process : \A i \in Ids(q)' : open_files'[q][i] = open_files[q][i]
  BY <1>4 DEF Ids
<1>7. AreContexts(open_files')
  <2>1. ASSUME NEW q \in Process
        PROVE  /\ DOMAIN open_files'[q] \subseteq 0..MaxIds
               /\ open_files'[q] \in [DOMAIN open_files'[q] -> ContextRecord]
    <3>1. CASE q = p
      BY <1>4, <1>5, <3>1
    <3>2. CASE q # p
      BY <1>4, <1>5, <3>2 DEF Ids
    <3>3. QED BY <3>1, <3>2
  <2>2. QED BY <1>4, <2>1 DEF AreContexts
<1>8. \A m \in Node \ {n} : context_rc'[m] >= Cardinality(ContextsOf(m)')
  <2>1. {n} \in SUBSET Node
    BY <1>1
  <2>2. \A q \in Process : \A i \in Ids(q)' :
          i \in Ids(q) /\ open_files'[q][i].node \in {open_files[q][i].node, NULL}
    BY <1>6
  <2>3. QED BY <1>3, <2>1, <2>2, CoveredStill
<1>9. context_rc'[n] >= Cardinality(ContextsOf(n)')
  <2>1. ContextsOf(n)' = ContextsOf(n) \ {<<p, id>>} /\ <<p, id>> \in ContextsOf(n)
    <3>1. <<p, id>> \in ContextsOf(n)
      BY <1>0, <1>1, <1>5 DEF ContextsOf
    <3>2. ASSUME NEW c PROVE c \in ContextsOf(n)' <=> c \in ContextsOf(n) \ {<<p, id>>}
      BY <1>6 DEF ContextsOf
    <3>3. QED BY <3>1, <3>2
  <2>2. IsFiniteSet(ContextsOf(n)) /\ Cardinality(ContextsOf(n)) \in Nat
    BY ContextsAreFinite
  <2>3. Cardinality(ContextsOf(n)') = Cardinality(ContextsOf(n)) - 1
    <3>1. QED BY <2>1, <2>2, FS_RemoveElement
  <2>4. context_rc[n] >= Cardinality(ContextsOf(n)) /\ context_rc[n] \in Nat
    BY <1>1, <1>2 DEF OpenInv, CountCoversContexts
  <2>5. Cardinality(ContextsOf(n)) - 1 \in Nat
    <3>1. ContextsOf(n) # {}
      BY <2>1
    <3>2. Cardinality(ContextsOf(n)) # 0
      BY <2>2, <3>1, FS_EmptySet
    <3>3. QED BY <2>2, <3>2
  <2>6. QED BY <1>3, <2>2, <2>3, <2>4, <2>5
<1>10. \A q \in Process : \A i \in Ids(q)' :
         i < next_file_id'[q] /\ open_files'[q][i].node \in Live' \cup Disk \cup {NULL}
  <2>1. Live' = Live
    BY <1>2 DEF Live
  <2>2. \A q \in Process : \A i \in Ids(q)' : i \in Ids(q)
    BY <1>6
  <2>3. QED BY <1>2, <1>6, <2>1, <2>2 DEF OpenInv
<1>11. \A m \in Node : context_rc'[m] >= Cardinality(ContextsOf(m)')
  BY <1>8, <1>9
<1>12. QED BY <1>3, <1>7, <1>10, <1>11 DEF OpenInv, CountCoversContexts

\* Who has an unlinked node open has none.
LEMMA UnlinkKeepsOpen ==
  ASSUME TypeOK, TreeInv, OpenInv, NEW p \in Process, NEW path \in Path, Unlink(p, path)
  PROVE  AreContexts(open_files') /\ OpenInv' /\ context_rc' \in [Node -> Nat]
<1> DEFINE d == Content(ResolveParent(p, path).node)
           files == Outdated(d)
<1>0. PICK t : t = Target(p, path)
  OBVIOUS
<1>1. t \in Live /\ t \in Node /\ Live' = Live \ {t}
  BY <1>0, UnlinkNodes DEF Live, Node
<1>2. /\ open_files' = Dangling(files, t)
      /\ context_rc' = [context_rc EXCEPT ![t] = 0]
      /\ next_file_id' = next_file_id /\ context_rc \in [Node -> Nat]
  BY <1>0 DEF Unlink, TypeOK
<1>3. AreContexts(files) /\ SameContexts(files)
  BY OutdatedKeeps
<1> HIDE DEF d, files
<1>4. ASSUME NEW q \in Process
      PROVE  DOMAIN open_files'[q] = Ids(q) /\ open_files'[q] = [i \in Ids(q) |-> open_files'[q][i]]
  BY <1>2, <1>3 DEF Dangling, SameContexts
<1>5. ASSUME NEW q \in Process, NEW i \in Ids(q)
      PROVE  /\ open_files'[q][i] \in ContextRecord
             /\ open_files'[q][i].node =
                  IF open_files[q][i].node = t THEN NULL ELSE open_files[q][i].node
  <2>1. open_files'[q][i] = IF files[q][i].node = t THEN [files[q][i] EXCEPT !.node = NULL]
                            ELSE files[q][i]
    BY <1>2, <1>3 DEF Dangling, SameContexts
  <2>2. files[q][i] \in ContextRecord /\ files[q][i].node = open_files[q][i].node
    BY <1>3 DEF AreContexts, SameContexts
  <2>3. QED BY <2>1, <2>2 DEF ContextRecord
<1>6. AreContexts(open_files')
  <2>1. open_files' = [q \in Process |-> open_files'[q]]
    BY <1>2 DEF Dangling
  <2>2. \A q \in Process : Ids(q) \subseteq 0..MaxIds
    BY DEF TypeOK, AreContexts, Ids
  <2>3. QED BY <1>4, <1>5, <2>1, <2>2 DEF AreContexts
<1>7. \A q \in Process : Ids(q)' = Ids(q)
  BY <1>4 DEF Ids
<1>8. \A q \in Process : \A i \in Ids(q)' :
        i < next_file_id'[q] /\ open_files'[q][i].node \in Live' \cup Disk \cup {NULL}
  BY <1>1, <1>2, <1>5, <1>7 DEF OpenInv
<1>9. \A n \in Node \ {t} : context_rc'[n] >= Cardinality(ContextsOf(n)')
  <2>1. {t} \in SUBSET Node /\ \A n \in Node \ {t} : context_rc'[n] = context_rc[n]
    BY <1>1, <1>2
  <2>2. QED BY <1>5, <1>7, <2>1, CoveredStill
<1>10. context_rc'[t] >= Cardinality(ContextsOf(t)')
  <2>1. ContextsOf(t)' = {}
    <3>1. t # NULL
      BY <1>1, FilesAssumption
    <3>2. QED BY <1>5, <1>7, <3>1 DEF ContextsOf
  <2>2. Cardinality(ContextsOf(t)') = 0
    BY <2>1, FS_EmptySet
  <2>3. QED BY <1>1, <1>2, <2>2
<1>11. context_rc' \in [Node -> Nat]
  BY <1>1, <1>2
<1>12. \A n \in Node : context_rc'[n] >= Cardinality(ContextsOf(n)')
  BY <1>9, <1>10
<1>13. QED BY <1>6, <1>8, <1>11, <1>12 DEF OpenInv, CountCoversContexts

\* A new node has no contexts.
LEMMA CreateKeepsOpen ==
  ASSUME TypeOK, TreeInv, OpenInv, NEW n \in RamNode \ Live, NEW d,
         Live' = Live \cup {n}, context_rc' = [context_rc EXCEPT ![n] = 0],
         open_files' = Outdated(d), next_file_id' = next_file_id
  PROVE  AreContexts(open_files') /\ OpenInv' /\ context_rc' \in [Node -> Nat]
<1>1. AreContexts(open_files') /\ SameContexts(open_files')
  BY OutdatedKeeps
<1>2. \A q \in Process : /\ Ids(q)' = Ids(q)
                         /\ \A i \in Ids(q) : open_files'[q][i].node = open_files[q][i].node
  BY <1>1 DEF SameContexts, Ids
<1>3. n \in Node /\ context_rc \in [Node -> Nat]
  BY DEF Node, TypeOK
<1>4. /\ context_rc' \in [Node -> Nat] /\ context_rc'[n] = 0
      /\ \A m \in Node \ {n} : context_rc'[m] = context_rc[m]
  BY <1>3
<1>5. \A m \in Node \ {n} : context_rc'[m] >= Cardinality(ContextsOf(m)')
  <2>1. {n} \in SUBSET Node
    BY <1>3
  <2>2. \A q \in Process : \A i \in Ids(q)' :
          i \in Ids(q) /\ open_files'[q][i].node \in {open_files[q][i].node, NULL}
    BY <1>2
  <2>3. QED BY <1>4, <2>1, <2>2, CoveredStill
<1>6. context_rc'[n] >= Cardinality(ContextsOf(n)')
  <2>1. ContextsOf(n)' = ContextsOf(n)
    BY <1>2 DEF ContextsOf
  <2>2. Cardinality(ContextsOf(n)') = 0
    BY <2>1, NoContexts, FS_EmptySet
  <2>3. QED BY <1>4, <2>2
<1>7. \A q \in Process : \A i \in Ids(q)' :
        i < next_file_id'[q] /\ open_files'[q][i].node \in Live' \cup Disk \cup {NULL}
  BY <1>2 DEF OpenInv
<1>8. \A m \in Node : context_rc'[m] >= Cardinality(ContextsOf(m)')
  BY <1>5, <1>6
<1>9. QED BY <1>1, <1>4, <1>7, <1>8 DEF OpenInv, CountCoversContexts
-----------------------------------------------------------------------------
(* The pages of a file *)

\* How many bytes the pages have up to each one.
AreSizes(size, pages) ==
  /\ size \in [0..Len(pages) -> Nat]
  /\ size[0] = 0
  /\ \A i \in 1..Len(pages) : size[i] = size[i - 1] + Len(pages[i])

\* Any pages have such sizes.
LEMMA PagesHaveSizes ==
  ASSUME NEW S, NEW pages \in Seq(Seq(S))
  PROVE  \E size : AreSizes(size, pages)
<1> DEFINE n == Len(pages)
           step == [i \in 1..n |-> [v \in Nat |-> v + Len(pages[i])]]
<1>1. n \in Nat /\ \A i \in 1..n : Len(pages[i]) \in Nat
  OBVIOUS
<1>2. step \in [1..n -> [Nat -> Nat]]
  BY <1>1
<1>3. PICK f : Made(f, n, Nat, 0, step)
  <2> HIDE DEF n, step
  <2>1. QED BY <1>1, <1>2, Recursion
<1>4. \A i \in 1..n : f[i - 1] \in Nat /\ f[i] = step[i][f[i - 1]]
  <2>1. \A i \in 1..n : i - 1 \in 0..n
    BY <1>1
  <2> HIDE DEF n, step
  <2>2. QED BY <1>3, <2>1 DEF Made
<1>5. \A i \in 1..n : f[i] = f[i - 1] + Len(pages[i])
  BY <1>4
<1>6. f \in [0..n -> Nat] /\ f[0] = 0
  <2> HIDE DEF n, step
  <2>1. QED BY <1>3 DEF Made
<1>7. QED BY <1>5, <1>6 DEF AreSizes

\* Two functions that go on from the same value in the same way are the same.
LEMMA SameSizes ==
  ASSUME NEW n \in Nat, NEW f, NEW g, f[0] = g[0],
         \A i \in 1..n : f[i - 1] = g[i - 1] => f[i] = g[i]
  PROVE  \A i \in 0..n : f[i] = g[i]
<1> DEFINE T == {i \in 0..n : f[i] = g[i]}
<1>1. 0 \in T
  OBVIOUS
<1>2. ASSUME NEW i \in 0..(n - 1), i \in T PROVE i + 1 \in T
  <2>1. i + 1 \in 1..n /\ (i + 1) - 1 = i
    OBVIOUS
  <2>2. QED BY <1>2, <2>1
<1>3. 0..n \subseteq T
  <2> HIDE DEF T
  <2>1. QED BY <1>1, <1>2, UpTo
<1>4. QED BY <1>3

\* SeenBefore counts the bytes of the pages before one.
LEMMA SeenIsSize ==
  ASSUME NEW S, NEW pages \in Seq(Seq(S)), NEW size, AreSizes(size, pages),
         NEW i \in 1..Len(pages)
  PROVE  SeenBefore(pages, i) = size[i - 1]
<1> DEFINE n == i - 1
           F(f) == f = [k \in 0..n |-> IF k = 0 THEN 0 ELSE f[k - 1] + Len(pages[k])]
<1>1. n \in 0..Len(pages) /\ n \in Nat /\ \A k \in 1..n : k \in 1..Len(pages)
  OBVIOUS
<1>2. F([k \in 0..n |-> size[k]])
  <2>1. \A k \in 0..n : k # 0 => k \in 1..Len(pages) /\ k - 1 \in 0..n
    BY <1>1
  <2> HIDE DEF n
  <2>2. QED BY <2>1 DEF AreSizes
<1>3. PICK seen : F(seen) /\ SeenBefore(pages, i) = seen[n]
  BY <1>2 DEF SeenBefore
<1>4. seen[0] = size[0]
  BY <1>1, <1>3 DEF AreSizes
<1>5. ASSUME NEW k \in 1..n, seen[k - 1] = size[k - 1] PROVE seen[k] = size[k]
  <2>1. k \in 0..n /\ k # 0 /\ k \in 1..Len(pages)
    BY <1>1
  <2> HIDE DEF n
  <2>2. QED BY <1>3, <1>5, <2>1 DEF AreSizes
<1>6. seen[n] = size[n]
  <2> HIDE DEF n, F
  <2>1. \A k \in 0..n : seen[k] = size[k]
    <3>1. \A k \in 1..n : seen[k - 1] = size[k - 1] => seen[k] = size[k]
      BY <1>5
    <3>2. n \in Nat
      BY <1>1
    <3>3. QED BY <1>4, <3>1, <3>2, SameSizes, ZenonT(60)
  <2>2. QED BY <1>1, <2>1
<1>7. QED BY <1>3, <1>6

\* Sizes grow from page to page.
LEMMA SizesGrow ==
  ASSUME NEW S, NEW pages \in Seq(Seq(S)), NEW size, AreSizes(size, pages),
         NEW i \in 0..Len(pages)
  PROVE  \A k \in i..Len(pages) : size[i] <= size[k]
<1> DEFINE n == Len(pages) - i
           T == {j \in 0..n : size[i] <= size[i + j]}
<1>1. n \in Nat /\ i \in Nat /\ Len(pages) \in Nat
  OBVIOUS
<1>2. 0 \in T
  BY <1>1 DEF AreSizes
<1>3. ASSUME NEW j \in 0..(n - 1), j \in T PROVE j + 1 \in T
  <2>1. i + j \in 0..Len(pages) /\ i + (j + 1) \in 1..Len(pages) /\ (i + (j + 1)) - 1 = i + j
    BY <1>1
  <2>2. size[i + (j + 1)] = size[i + j] + Len(pages[i + (j + 1)])
    BY <2>1 DEF AreSizes
  <2>3. Len(pages[i + (j + 1)]) \in Nat /\ size[i] \in Nat /\ size[i + j] \in Nat
    <3> HIDE DEF n, T
    <3>1. pages[i + (j + 1)] \in Seq(S)
      BY <2>1
    <3>2. size \in [0..Len(pages) -> Nat]
      BY DEF AreSizes
    <3>3. QED BY <2>1, <3>1, <3>2, LenProperties
  <2>4. size[i] <= size[i + j]
    BY <1>3
  <2>5. size[i] <= size[i + (j + 1)]
    <3> HIDE DEF n, T
    <3>1. QED BY <2>2, <2>3, <2>4
  <2>6. QED BY <1>1, <2>5
<1>4. 0..n \subseteq T
  <2> HIDE DEF n, T
  <2>1. QED BY <1>1, <1>2, <1>3, UpTo
<1>5. ASSUME NEW k \in i..Len(pages) PROVE size[i] <= size[k]
  <2>1. k - i \in 0..n /\ i + (k - i) = k
    BY <1>1
  <2>2. k - i \in T
    BY <1>4, <2>1
  <2>3. QED BY <2>1, <2>2
<1>6. QED BY <1>5

\* All bytes together are as many as those up to the last page, and those of each page are

\* behind those of the pages before.
LEMMA TextIsLong ==
  ASSUME NEW S, NEW pages \in Seq(Seq(S)), NEW size, AreSizes(size, pages)
  PROVE  /\ Concatenated(pages) \in Seq(S)
         /\ Len(Concatenated(pages)) = size[Len(pages)]
         /\ \A m \in 1..Len(pages) : \A j \in 1..Len(pages[m]) :
              Concatenated(pages)[size[m - 1] + j] = pages[m][j]
<1> DEFINE n == Len(pages)
           F(f) == f = [i \in 0..n |-> IF i = 0 THEN <<>> ELSE f[i - 1] \o pages[i]]
           step == [i \in 1..n |-> [v \in Seq(S) |-> v \o pages[i]]]
           Has(t, m) == \A j \in 1..Len(pages[m]) : t[size[m - 1] + j] = pages[m][j]
           T(f) == {i \in 0..n : /\ f[i] \in Seq(S) /\ Len(f[i]) = size[i]
                                 /\ \A m \in 1..i : Has(f[i], m)}
<1>1. n \in Nat /\ \A i \in 1..n : pages[i] \in Seq(S) /\ Len(pages[i]) \in Nat
  OBVIOUS
<1>2. step \in [1..n -> [Seq(S) -> Seq(S)]]
  <2>1. \A i \in 1..n : \A v \in Seq(S) : v \o pages[i] \in Seq(S)
    BY <1>1, ConcatProperties
  <2>2. QED BY <2>1
<1>3. PICK f : Made(f, n, Seq(S), <<>>, step)
  <2>1. <<>> \in Seq(S)
    OBVIOUS
  <2> HIDE DEF n, step
  <2>2. QED BY <1>1, <1>2, <2>1, Recursion
<1>4. F(f)
  <2>1. \A i \in 0..n : i # 0 => i \in 1..n /\ i - 1 \in 0..n
    BY <1>1
  <2>2. \A i \in 1..n : f[i - 1] \in Seq(S) /\ f[i] = step[i][f[i - 1]]
    <3>1. \A i \in 1..n : i - 1 \in 0..n
      BY <1>1
    <3> HIDE DEF n, step
    <3>2. QED BY <1>3, <3>1 DEF Made
  <2>3. \A i \in 1..n : f[i] = f[i - 1] \o pages[i]
    BY <2>2
  <2>4. f = [i \in 0..n |-> f[i]] /\ f[0] = <<>>
    <3> HIDE DEF n, step
    <3>1. QED BY <1>3 DEF Made
  <2> HIDE DEF n, step
  <2>5. QED BY <2>1, <2>3, <2>4
<1>5. PICK text : F(text) /\ Concatenated(pages) = text[n]
  BY <1>4 DEF Concatenated
<1>6. 0 \in T(text)
  BY <1>1, <1>5 DEF AreSizes
<1>7. ASSUME NEW i \in 0..(n - 1), i \in T(text) PROVE i + 1 \in T(text)
  <2>1. i + 1 \in 1..n /\ i + 1 \in 0..n /\ (i + 1) - 1 = i /\ i + 1 # 0
    BY <1>1
  <2>2. text[i + 1] = text[i] \o pages[i + 1]
    <3> HIDE DEF n
    <3>1. QED BY <1>5, <2>1
  <2>3. text[i] \in Seq(S) /\ Len(text[i]) = size[i] /\ pages[i + 1] \in Seq(S)
    BY <1>1, <1>7, <2>1
  <2>4. text[i + 1] \in Seq(S) /\ Len(text[i + 1]) = size[i] + Len(pages[i + 1])
    <3>1. \A u, v \in Seq(S) : u \o v \in Seq(S) /\ Len(u \o v) = Len(u) + Len(v)
      BY ConcatProperties
    <3> HIDE DEF n, F, T
    <3>2. QED BY <2>2, <2>3, <3>1
  <2>5. size[i + 1] = size[i] + Len(pages[i + 1])
    BY <2>1 DEF AreSizes
  <2>6. ASSUME NEW m \in 1..(i + 1) PROVE Has(text[i + 1], m)
    <3> DEFINE u == text[i]
               v == pages[i + 1]
    <3>1. /\ u \in Seq(S) /\ v \in Seq(S) /\ Len(u) = size[i]
          /\ \A k \in 1..(Len(u) + Len(v)) : (u \o v)[k] = IF k <= Len(u) THEN u[k] ELSE v[k - Len(u)]
      BY <2>3, ConcatProperties
    <3>2. size[i] \in Nat /\ size[i + 1] \in Nat /\ Len(v) \in Nat
      BY <2>1, <2>3 DEF AreSizes
    <3>3. CASE m = i + 1
      <4>1. ASSUME NEW j \in 1..Len(v) PROVE (u \o v)[size[i] + j] = v[j]
        <5>1. size[i] + j \in 1..(size[i] + Len(v)) /\ ~(size[i] + j <= size[i]) /\ (size[i] + j) - size[i] = j
          <6> HIDE DEF u, v
          <6>1. QED BY <3>2
        <5> HIDE DEF u, v
        <5>2. QED BY <3>1, <5>1
      <4>2. QED BY <2>1, <2>2, <3>3, <4>1
    <3>4. CASE m # i + 1
      <4>1. m \in 1..i /\ m \in 1..n /\ m \in 0..n /\ m - 1 \in 0..n /\ i \in m..n
        BY <1>1, <3>4
      <4>2. Has(u, m)
        BY <1>7, <4>1
      <4>3. size[m] <= size[i] /\ size[m] = size[m - 1] + Len(pages[m]) /\ size[m - 1] \in Nat
            /\ Len(pages[m]) \in Nat
        <5>1. size[m] <= size[i]
          BY <4>1, SizesGrow
        <5>2. pages[m] \in Seq(S)
          BY <1>1, <4>1
        <5>3. QED BY <4>1, <5>1, <5>2, LenProperties DEF AreSizes
      <4>4. ASSUME NEW j \in 1..Len(pages[m])
            PROVE  (u \o v)[size[m - 1] + j] = u[size[m - 1] + j]
        <5>1. size[m - 1] + j \in 1..(size[i] + Len(v)) /\ size[m - 1] + j <= size[i]
          <6> DEFINE l == Len(pages[m])
                     b == Len(v)
                     k == size[m - 1]
          <6>1. j \in 1..l /\ l \in Nat /\ b \in Nat /\ k \in Nat /\ k + l <= size[i] /\ size[i] \in Nat
            BY <3>2, <4>3
          <6> HIDE DEF l, b, k, u, v, n, T, F, Has, step
          <6>2. k + j \in 1..(size[i] + b) /\ k + j <= size[i]
            BY <6>1
          <6>3. QED BY <6>2 DEF k, b
        <5> HIDE DEF u, v
        <5>2. QED BY <3>1, <5>1
      <4>5. QED BY <2>2, <4>2, <4>4
    <3>5. QED BY <3>3, <3>4
  <2>7. QED
    <3>1. /\ i + 1 \in 0..n /\ text[i + 1] \in Seq(S) /\ Len(text[i + 1]) = size[i + 1]
          /\ \A m \in 1..(i + 1) : Has(text[i + 1], m)
      BY <2>1, <2>4, <2>5, <2>6
    <3> HIDE DEF Has, n, F
    <3>2. QED BY <3>1
<1>8. n \in T(text)
  <2> HIDE DEF n, F, T
  <2>1. 0..n \subseteq T(text)
    BY <1>1, <1>6, <1>7, UpTo
  <2>2. QED BY <1>1, <2>1
<1>9. QED BY <1>5, <1>8

\* get_page() finds a page in which the position is, or just behind its last byte.
LEMMA PageHolds ==
  ASSUME NEW S, NEW pages \in Seq(Seq(S)), NEW size, AreSizes(size, pages),
         \A i \in DOMAIN pages : Len(pages[i]) \in 1..PageSize,
         NEW pos \in Nat, GetPage(pages, pos) # 0
  PROVE  /\ GetPage(pages, pos) \in 1..Len(pages)
         /\ pos - SeenBefore(pages, GetPage(pages, pos)) \in 0..(PageSize - 1)
         /\ pos - SeenBefore(pages, GetPage(pages, pos)) <= Len(pages[GetPage(pages, pos)])
<1> DEFINE held == {i \in DOMAIN pages : Holds(pages, pos, i)}
           g == GetPage(pages, pos)
<1>1. held # {} /\ held \in SUBSET Nat
  BY DEF GetPage
<1>2. g \in held /\ \A j \in held : g <= j
  <2>1. \E i \in held : \A j \in held : i <= j
    <3> HIDE DEF held
    <3>1. QED BY <1>1, Least
  <2>2. g = CHOOSE i \in held : \A j \in held : i <= j
    BY <1>1 DEF GetPage
  <2> HIDE DEF held, g
  <2>3. QED BY <2>1, <2>2
<1>3. /\ g \in 1..Len(pages) /\ g - 1 \in 0..Len(pages)
      /\ SeenBefore(pages, g) = size[g - 1] /\ size[g - 1] \in Nat
  <2>1. g \in 1..Len(pages)
    BY <1>2
  <2> HIDE DEF g, held
  <2>2. g - 1 \in 0..Len(pages)
    BY <2>1
  <2>3. SeenBefore(pages, g) = size[g - 1]
    BY <2>1, SeenIsSize
  <2>4. QED BY <2>1, <2>2, <2>3 DEF AreSizes
<1>4. size[g - 1] + Len(pages[g]) >= pos /\ pos < size[g - 1] + PageSize
  BY <1>2, <1>3 DEF Holds
<1>5. size[g - 1] <= pos
  <2>1. CASE g = 1
    <3>1. size[g - 1] = 0
      BY <2>1 DEF AreSizes
    <3>2. QED BY <3>1
  <2>2. CASE g # 1
    <3> DEFINE h == g - 1
    <3>1. h \in 1..Len(pages) /\ h \in DOMAIN pages /\ h < g
      BY <1>3, <2>2
    <3>2. h \notin held
      BY <1>2, <3>1
    <3>3. SeenBefore(pages, h) = size[h - 1] /\ size[h - 1] \in Nat
      <4> HIDE DEF h
      <4>1. h - 1 \in 0..Len(pages)
        BY <3>1
      <4>2. QED BY <3>1, <4>1, SeenIsSize DEF AreSizes
    <3>4. ~(size[h - 1] + Len(pages[h]) >= pos /\ pos < size[h - 1] + PageSize)
      BY <3>1, <3>2, <3>3 DEF Holds
    <3>5. size[h] = size[h - 1] + Len(pages[h]) /\ Len(pages[h]) \in Nat /\ Len(pages[h]) <= PageSize
      <4>1. Len(pages[h]) \in 1..PageSize /\ PageSize \in Nat
        BY <3>1, PageFileAssumption
      <4> HIDE DEF h
      <4>2. QED BY <3>1, <4>1 DEF AreSizes
    <3> HIDE DEF held
    <3>6. QED BY <3>3, <3>4, <3>5, PageFileAssumption
  <2>3. QED BY <2>1, <2>2
<1>6. Len(pages[g]) \in Nat /\ PageSize \in Nat
  BY <1>3, PageFileAssumption
<1> HIDE DEF held, g
<1>7. g \in 1..Len(pages) /\ pos - SeenBefore(pages, g) \in 0..(PageSize - 1)
      /\ pos - SeenBefore(pages, g) <= Len(pages[g])
  BY <1>3, <1>4, <1>5, <1>6
<1>8. QED BY <1>7 DEF g

\* Every byte is in one of the pages.
LEMMA ByteIsInPage ==
  ASSUME NEW S, NEW pages \in Seq(Seq(S)), NEW size, AreSizes(size, pages),
         NEW k \in 1..size[Len(pages)]
  PROVE  \E i \in 1..Len(pages) : \E j \in 1..Len(pages[i]) : k = size[i - 1] + j
<1> DEFINE n == Len(pages)
           R == {i \in 1..n : k <= size[i]}
<1>1. n \in Nat /\ size \in [0..n -> Nat] /\ size[0] = 0 /\ k \in Nat \ {0}
  BY DEF AreSizes
<1>2. n \in R
  <2>1. size[n] \in Nat /\ k <= size[n]
    BY <1>1
  <2>2. n # 0
    BY <1>1, <2>1
  <2>3. QED BY <1>1, <2>1, <2>2
<1>3. R \in SUBSET Nat
  OBVIOUS
<1>4. PICK i \in R : \A j \in R : i <= j
  <2> HIDE DEF R, n
  <2>1. QED BY <1>2, <1>3, Least
<1>5. i \in 1..n /\ k <= size[i] /\ i - 1 \in 0..n
  BY <1>1, <1>4
<1>6. size[i - 1] < k
  <2>1. CASE i = 1
    BY <1>1, <2>1
  <2>2. CASE i # 1
    <3>1. i - 1 \in 1..n /\ i - 1 < i
      BY <1>5, <2>2
    <3>2. ~(k <= size[i - 1])
      BY <1>4, <3>1
    <3>3. size[i - 1] \in Nat /\ k \in Nat
      BY <1>1, <1>5
    <3> HIDE DEF R, n
    <3>4. QED BY <3>2, <3>3
  <2>3. QED BY <2>1, <2>2
<1>7. size[i] = size[i - 1] + Len(pages[i]) /\ size[i - 1] \in Nat /\ Len(pages[i]) \in Nat
  <2>1. pages[i] \in Seq(S)
    BY <1>5
  <2>2. QED BY <1>1, <1>5, <2>1, LenProperties DEF AreSizes
<1> HIDE DEF R
<1>8. i \in 1..Len(pages)
  BY <1>5
<1> HIDE DEF n
<1>9. PICK j \in 1..Len(pages[i]) : k = size[i - 1] + j
  <2>1. k - size[i - 1] \in 1..Len(pages[i]) /\ k = size[i - 1] + (k - size[i - 1])
    BY <1>1, <1>5, <1>6, <1>7, SMTT(30)
  <2>2. QED BY <2>1, Zenon
<1>10. QED BY <1>8, <1>9, Zenon

\* All pages but the last are full.
FullPages(pages) == \A i \in 1..(Len(pages) - 1) : Full(pages[i])

\* get_page() finds no page only behind the end, and one that ends there only at the end.
LEMMA PageBeforeEnd ==
  ASSUME NEW S, NEW pages \in Seq(Seq(S)), NEW size, AreSizes(size, pages),
         \A i \in DOMAIN pages : Len(pages[i]) \in 1..PageSize,
         NEW pos \in Nat, pos < size[Len(pages)], FullPages(pages)
  PROVE  /\ GetPage(pages, pos) # 0
         /\ pos - SeenBefore(pages, GetPage(pages, pos)) < Len(pages[GetPage(pages, pos)])
<1> DEFINE n == Len(pages)
           g == GetPage(pages, pos)
<1>1. n \in Nat /\ size \in [0..n -> Nat] /\ PageSize \in Nat
  BY PageFileAssumption DEF AreSizes
<1>2. g # 0
  <2>1. pos + 1 \in 1..size[Len(pages)]
    <3>1. size[n] \in Nat
      BY <1>1
    <3>2. QED BY <3>1
  <2>2. PICK i \in 1..Len(pages) : \E j \in 1..Len(pages[i]) : pos + 1 = size[i - 1] + j
    BY <2>1, ByteIsInPage
  <2>3. PICK j \in 1..Len(pages[i]) : pos + 1 = size[i - 1] + j
    BY <2>2
  <2>4. SeenBefore(pages, i) = size[i - 1] /\ size[i - 1] \in Nat /\ Len(pages[i]) \in 1..PageSize
        /\ i \in DOMAIN pages
    <3>1. i - 1 \in 0..n
      BY <1>1
    <3>2. SeenBefore(pages, i) = size[i - 1]
      BY SeenIsSize
    <3>3. i \in DOMAIN pages
      OBVIOUS
    <3>4. size[i - 1] \in Nat
      BY <1>1, <3>1
    <3>5. QED BY <3>2, <3>3, <3>4
  <2>5. Holds(pages, pos, i)
    <3>1. size[i - 1] + Len(pages[i]) >= pos /\ pos < size[i - 1] + PageSize
      BY <1>1, <2>3, <2>4, SMTT(30)
    <3>2. QED BY <2>4, <3>1 DEF Holds
  <2> DEFINE held == {m \in DOMAIN pages : Holds(pages, pos, m)}
  <2>6. i \in held
    BY <2>4, <2>5
  <2>7. held \in SUBSET (Nat \ {0})
    BY <1>1
  <2>8. \E m \in held : \A k \in held : m <= k
    <3>1. held \in SUBSET Nat /\ held # {}
      BY <2>6, <2>7
    <3> HIDE DEF held
    <3>2. QED BY <3>1, Least
  <2>9. g = CHOOSE m \in held : \A k \in held : m <= k
    BY <2>6 DEF GetPage
  <2>10. g \in held
    <3> HIDE DEF held, g
    <3>1. QED BY <2>8, <2>9
  <2> HIDE DEF held, g
  <2>11. QED BY <2>7, <2>10
<1>3. /\ g \in 1..n /\ pos - SeenBefore(pages, g) \in 0..(PageSize - 1)
      /\ pos - SeenBefore(pages, g) <= Len(pages[g])
  BY <1>2, PageHolds
<1> HIDE DEF g
<1>4. pos - SeenBefore(pages, g) < Len(pages[g])
  <2>1. CASE g # n
    <3>1. g \in 1..(n - 1)
      BY <1>1, <1>3, <2>1
    <3>2. Len(pages[g]) = PageSize
      BY <3>1 DEF FullPages, Full
    <3>3. QED BY <1>1, <1>3, <3>2
  <2>2. CASE g = n
    <3>1. n \in 1..n /\ n - 1 \in 0..n /\ n \in 0..n
      BY <1>1, <1>3, <2>2
    <3>2. SeenBefore(pages, n) = size[n - 1] /\ size[n] = size[n - 1] + Len(pages[n])
          /\ size[n - 1] \in Nat /\ size[n] \in Nat /\ Len(pages[n]) \in Nat
      <4>1. SeenBefore(pages, n) = size[n - 1]
        BY <3>1, SeenIsSize
      <4>2. size[n] = size[n - 1] + Len(pages[n])
        BY <3>1 DEF AreSizes
      <4>3. pages[n] \in Seq(S)
        BY <3>1
      <4>4. QED BY <1>1, <3>1, <4>1, <4>2, <4>3, LenProperties
    <3> DEFINE l == Len(pages[n])
    <3>3. pos < size[n - 1] + l
      BY <3>2
    <3> HIDE DEF l
    <3>4. l \in Nat /\ size[n - 1] \in Nat
      BY <3>2 DEF l
    <3>5. pos - size[n - 1] < l
      BY <3>3, <3>4
    <3>6. QED BY <2>2, <3>2, <3>5 DEF l
  <2>3. QED BY <2>1, <2>2
<1>5. QED BY <1>2, <1>4 DEF g

\* copy_from() makes a page longer by what goes beyond its end.
LEMMA OverwriteLength ==
  ASSUME NEW S, NEW page \in Seq(S), NEW bytes \in Seq(S), NEW offset \in 0..(PageSize - 1),
         offset <= Len(page), Len(page) <= PageSize
  PROVE  /\ Fitting(offset, bytes) \in 0..Len(bytes) /\ offset + Fitting(offset, bytes) <= PageSize
         /\ Overwrite(page, offset, bytes) \in Seq(S)
         /\ Len(Overwrite(page, offset, bytes)) =
              IF offset + Fitting(offset, bytes) <= Len(page) THEN Len(page)
              ELSE offset + Fitting(offset, bytes)
<1> DEFINE n == Fitting(offset, bytes)
<1>1. /\ PageSize \in Nat \ {0} /\ Len(page) \in Nat /\ Len(bytes) \in Nat
      /\ offset \in Nat /\ n \in Nat /\ n <= Len(bytes) /\ offset + n <= PageSize
  BY PageFileAssumption DEF Fitting
<1> HIDE DEF n
<1> DEFINE a == SubSeq(page, 1, offset)
           b == SubSeq(bytes, 1, n)
           c == SubSeq(page, offset + n + 1, Len(page))
<1>2. Overwrite(page, offset, bytes) = a \o b \o c
  BY DEF Overwrite, n
<1>3. a \in Seq(S) /\ Len(a) = offset
  <2>1. \A i \in 1..offset : page[i] \in S
    BY <1>1
  <2>2. a \in Seq(S) /\ Len(a) = IF 1 <= offset THEN offset - 1 + 1 ELSE 0
    BY <1>1, <2>1, SubSeqProperties
  <2> HIDE DEF a
  <2>3. QED BY <1>1, <2>2
<1>4. b \in Seq(S) /\ Len(b) = n
  <2>1. \A i \in 1..n : bytes[i] \in S
    BY <1>1
  <2>2. b \in Seq(S) /\ Len(b) = IF 1 <= n THEN n - 1 + 1 ELSE 0
    BY <1>1, <2>1, SubSeqProperties
  <2> HIDE DEF b
  <2>3. QED BY <1>1, <2>2
<1>5. /\ c \in Seq(S)
      /\ offset + n <= Len(page) => Len(c) = Len(page) - (offset + n)
      /\ ~(offset + n <= Len(page)) => Len(c) = 0
  <2> DEFINE m == offset + n + 1
  <2>1. m \in Int /\ \A i \in m..Len(page) : page[i] \in S
    BY <1>1
  <2>2. SubSeq(page, m, Len(page)) \in Seq(S)
        /\ Len(SubSeq(page, m, Len(page))) = IF m <= Len(page) THEN Len(page) - m + 1 ELSE 0
    <3> HIDE DEF m
    <3>1. QED BY <1>1, <2>1, SubSeqProperties
  <2> HIDE DEF c
  <2>3. c \in Seq(S) /\ Len(c) = IF m <= Len(page) THEN Len(page) - m + 1 ELSE 0
    BY <2>2 DEF c
  <2>4. CASE offset + n < Len(page)
    <3>1. m <= Len(page) /\ Len(page) - m + 1 = Len(page) - (offset + n)
      BY <1>1, <2>4
    <3> HIDE DEF m
    <3>2. Len(c) = Len(page) - (offset + n)
      BY <2>3, <3>1
    <3>3. offset + n <= Len(page)
      BY <1>1, <2>4
    <3>4. c \in Seq(S)
      BY <2>3
    <3> HIDE DEF m, a, b
    <3>5. QED BY <3>2, <3>3, <3>4, Zenon
  <2>5. CASE ~(offset + n < Len(page))
    <3>1. ~(m <= Len(page))
      BY <1>1, <2>5
    <3> HIDE DEF m
    <3>2. Len(c) = 0
      BY <2>3, <3>1
    <3>3. offset + n <= Len(page) => Len(page) - (offset + n) = 0
      BY <1>1, <2>5
    <3>4. c \in Seq(S)
      BY <2>3
    <3> HIDE DEF m, a, b
    <3>5. QED BY <3>2, <3>3, <3>4, Zenon
  <2>6. QED BY <2>4, <2>5
<1> HIDE DEF a, b, c
<1>6. \A u, v \in Seq(S) : u \o v \in Seq(S) /\ Len(u \o v) = Len(u) + Len(v)
  BY ConcatProperties
<1>7. a \o b \in Seq(S) /\ Len(a \o b) = offset + n
  BY <1>3, <1>4, <1>6
<1>8. a \o b \o c \in Seq(S) /\ Len(a \o b \o c) = offset + n + Len(c)
  BY <1>5, <1>6, <1>7
<1>9. Len(Overwrite(page, offset, bytes)) = offset + n + Len(c)
  BY <1>2, <1>8
<1> HIDE DEF n
<1>10. Len(Overwrite(page, offset, bytes)) = IF offset + n <= Len(page) THEN Len(page) ELSE offset + n
  <2>1. CASE offset + n <= Len(page)
    <3>1. Len(Overwrite(page, offset, bytes)) = Len(page)
      BY <1>1, <1>5, <1>9, <2>1
    <3>2. QED BY <2>1, <3>1
  <2>2. CASE ~(offset + n <= Len(page))
    <3>1. Len(c) = 0
      BY <1>5, <2>2
    <3>2. offset + n \in Nat
      BY <1>1
    <3>3. Len(Overwrite(page, offset, bytes)) = offset + n
      BY <1>9, <3>1, <3>2
    <3>4. QED BY <2>2, <3>3
  <2>3. QED BY <2>1, <2>2
<1>11. Overwrite(page, offset, bytes) \in Seq(S) /\ n \in 0..Len(bytes)
  BY <1>1, <1>2, <1>8
<1>12. QED BY <1>1, <1>10, <1>11 DEF n

\* A part of a sequence, from behind its first m to its first k.
LEMMA PartOf ==
  ASSUME NEW S, NEW s \in Seq(S), NEW m \in Nat, NEW k \in Nat, k <= Len(s)
  PROVE  /\ SubSeq(s, m + 1, k) \in Seq(S)
         /\ m <= k => Len(SubSeq(s, m + 1, k)) = k - m
         /\ k <= m => SubSeq(s, m + 1, k) = <<>>
         /\ \A i \in 1..(k - m) : SubSeq(s, m + 1, k)[i] = s[m + i]
<1> DEFINE a == m + 1
           p == SubSeq(s, a, k)
<1>1. a \in Int /\ \A i \in a..k : s[i] \in S
  BY DEF a
<1>2. /\ p \in Seq(S)
      /\ Len(p) = IF a <= k THEN k - a + 1 ELSE 0
      /\ \A i \in 1..(k - a + 1) : p[i] = s[a + i - 1]
  <2> HIDE DEF a
  <2>1. QED BY <1>1, SubSeqProperties
<1>3. m <= k => Len(p) = k - m
  <2>1. (IF a <= k THEN k - a + 1 ELSE 0) = IF m < k THEN k - m ELSE 0
    OBVIOUS
  <2> HIDE DEF p, a
  <2>2. QED BY <1>2, <2>1
<1>4. k <= m => p = <<>>
  <2>1. k <= m => ~(a <= k)
    OBVIOUS
  <2> HIDE DEF p, a
  <2>2. k <= m => Len(p) = 0
    BY <1>2, <2>1
  <2>3. QED BY <1>2, <2>2, EmptySeq
<1>5. \A i \in 1..(k - m) : p[i] = s[m + i]
  <2>1. \A i \in 1..(k - m) : i \in 1..(k - a + 1) /\ a + i - 1 = m + i
    OBVIOUS
  <2> HIDE DEF p, a
  <2>2. QED BY <1>2, <2>1
<1>6. QED BY <1>2, <1>3, <1>4, <1>5

\* copy_from() leaves the bytes around those it copies.
LEMMA OverwriteBytes ==
  ASSUME NEW S, NEW page \in Seq(S), NEW bytes \in Seq(S), NEW offset \in 0..(PageSize - 1),
         offset <= Len(page), Len(page) <= PageSize
  PROVE  \A j \in 1..Len(Overwrite(page, offset, bytes)) :
           Overwrite(page, offset, bytes)[j] =
             IF j \in (offset + 1)..(offset + Fitting(offset, bytes))
             THEN bytes[j - offset] ELSE page[j]
<1> DEFINE n == Fitting(offset, bytes)
           e == offset + n
           new == Overwrite(page, offset, bytes)
           a == SubSeq(page, 1, offset)
           b == SubSeq(bytes, 1, n)
           c == SubSeq(page, e + 1, Len(page))
<1>1. /\ PageSize \in Nat \ {0} /\ Len(page) \in Nat /\ Len(bytes) \in Nat
      /\ offset \in Nat /\ n \in Nat /\ n <= Len(bytes) /\ e \in Nat
  BY PageFileAssumption DEF Fitting
<1>2. Len(new) = IF e <= Len(page) THEN Len(page) ELSE e
  BY OverwriteLength
<1>3. new = a \o b \o c
  BY DEF Overwrite
<1> HIDE DEF n, e, new
<1>4. a \in Seq(S) /\ Len(a) = offset /\ \A i \in 1..offset : a[i] = page[i]
  <2>1. 0 <= offset /\ 0 + 1 = 1 /\ offset - 0 = offset /\ \A i \in 1..offset : 0 + i = i
    BY <1>1
  <2>2. /\ SubSeq(page, 0 + 1, offset) \in Seq(S)
        /\ 0 <= offset => Len(SubSeq(page, 0 + 1, offset)) = offset - 0
        /\ \A i \in 1..(offset - 0) : SubSeq(page, 0 + 1, offset)[i] = page[0 + i]
    BY <1>1, PartOf
  <2>3. QED BY <2>1, <2>2
<1>5. b \in Seq(S) /\ Len(b) = n /\ \A i \in 1..n : b[i] = bytes[i]
  <2>1. 0 <= n /\ 0 + 1 = 1 /\ n - 0 = n /\ \A i \in 1..n : 0 + i = i
    BY <1>1
  <2>2. /\ SubSeq(bytes, 0 + 1, n) \in Seq(S)
        /\ 0 <= n => Len(SubSeq(bytes, 0 + 1, n)) = n - 0
        /\ \A i \in 1..(n - 0) : SubSeq(bytes, 0 + 1, n)[i] = bytes[0 + i]
    BY <1>1, PartOf
  <2>3. QED BY <2>1, <2>2
<1>6. /\ c \in Seq(S)
      /\ e <= Len(page) => Len(c) = Len(page) - e
      /\ Len(page) <= e => Len(c) = 0
      /\ \A i \in 1..(Len(page) - e) : c[i] = page[e + i]
  <2>1. Len(page) <= Len(page)
    BY <1>1
  <2>2. Len(<<>>) = 0
    OBVIOUS
  <2>3. QED BY <1>1, <2>1, <2>2, PartOf
<1> HIDE DEF a, b, c
<1>7. \A u, v \in Seq(S) :
        /\ u \o v \in Seq(S) /\ Len(u \o v) = Len(u) + Len(v)
        /\ \A i \in 1..(Len(u) + Len(v)) : (u \o v)[i] = IF i <= Len(u) THEN u[i] ELSE v[i - Len(u)]
  BY ConcatProperties
<1>8. /\ a \o b \in Seq(S) /\ Len(a \o b) = e
      /\ \A i \in 1..e : (a \o b)[i] = IF i <= offset THEN a[i] ELSE b[i - offset]
  BY <1>4, <1>5, <1>7 DEF e
<1>9. \A i \in 1..(e + Len(c)) : new[i] = IF i <= e THEN (a \o b)[i] ELSE c[i - e]
  BY <1>3, <1>6, <1>7, <1>8
<1>10. Len(c) \in Nat
  BY <1>6, LenProperties
<1>11. ASSUME NEW j \in 1..Len(new)
       PROVE  new[j] = IF j \in (offset + 1)..e THEN bytes[j - offset] ELSE page[j]
  <2>1. j \in Nat \ {0} /\ e = offset + n
    BY DEF e
  <2>2. j \in 1..(e + Len(c))
    BY <1>1, <1>2, <1>6, <2>1
  <2>3. CASE j <= offset
    <3>1. j \in 1..offset /\ j \in 1..e /\ j <= e /\ j \notin (offset + 1)..e
      BY <1>1, <2>1, <2>3
    <3>2. QED BY <1>4, <1>8, <1>9, <2>2, <2>3, <3>1
  <2>4. CASE j > offset /\ j <= e
    <3>1. ~(j <= offset) /\ j \in 1..e /\ j - offset \in 1..n /\ j \in (offset + 1)..e
      BY <1>1, <2>1, <2>4
    <3>2. QED BY <1>5, <1>8, <1>9, <2>2, <2>4, <3>1
  <2>5. CASE j > e
    <3>1. ~(j <= e) /\ j \notin (offset + 1)..e
      BY <1>1, <2>1, <2>5
    <3>2. Len(page) > e /\ j - e \in 1..(Len(page) - e) /\ e + (j - e) = j
      BY <1>1, <1>2, <2>1, <2>5
    <3>3. QED BY <1>6, <1>9, <2>2, <3>1, <3>2
  <2>6. QED BY <1>1, <2>1, <2>3, <2>4, <2>5
<1>12. QED BY <1>11 DEF new, e, n

FileRecords == [pages : Seq(Seq(Byte)), total_written : Nat]

\* A page that is changed in its place changes the total by what it is longer.
LEMMA ReplacedPage ==
  ASSUME NEW file \in FileRecords, PagesOK(file), NEW i \in 1..Len(file.pages),
         NEW page \in Seq(Byte), Len(page) \in 1..PageSize
  PROVE  /\ Replaced(file, i, page) \in FileRecords /\ PagesOK(Replaced(file, i, page))
         /\ Replaced(file, i, page).total_written =
              file.total_written - Len(file.pages[i]) + Len(page)
<1> DEFINE pages == file.pages
           new == [pages EXCEPT ![i] = page]
           n == Len(pages)
<1>1. /\ pages \in Seq(Seq(Byte)) /\ n \in Nat /\ file.total_written \in Nat
      /\ Len(pages[i]) \in Nat /\ Len(page) \in Nat
  BY DEF FileRecords
<1>2. new \in Seq(Seq(Byte)) /\ Len(new) = n /\ new[i] = page /\ \A k \in 1..n \ {i} : new[k] = pages[k]
  BY <1>1
<1>3. PICK size : AreSizes(size, pages)
  BY <1>1, PagesHaveSizes
<1>4. file.total_written = size[n]
  BY <1>1, <1>3, TextIsLong DEF PagesOK
<1> DEFINE s == [k \in 0..n |-> IF k < i THEN size[k] ELSE size[k] - Len(pages[i]) + Len(page)]
<1>5. size[i] = size[i - 1] + Len(pages[i]) /\ size[i] \in Nat /\ size[i - 1] \in Nat
  <2>1. i - 1 \in 0..n /\ i \in 0..n
    BY <1>1
  <2>2. QED BY <1>3, <2>1 DEF AreSizes
<1>6. \A k \in 0..n : size[k] \in Nat
  BY <1>3 DEF AreSizes
<1>7. \A k \in i..n : size[i] <= size[k]
  <2>1. i \in 0..n
    BY <1>1
  <2>2. QED BY <1>1, <1>3, <2>1, SizesGrow
<1>8. AreSizes(s, new)
  <2>1. ASSUME NEW k \in 0..n PROVE s[k] \in Nat
    <3>1. CASE k < i
      BY <1>6, <3>1
    <3>2. CASE ~(k < i)
      <4>1. size[i] <= size[k] /\ size[k] \in Nat
        BY <1>1, <1>6, <1>7, <3>2
      <4>2. s[k] = size[k] - Len(pages[i]) + Len(page)
        BY <3>2
      <4>3. size[i - 1] \in Nat /\ size[i] = size[i - 1] + Len(pages[i]) /\ Len(pages[i]) \in Nat
        BY <1>1, <1>5
      <4> HIDE DEF s, pages, n, new
      <4>4. size[k] - Len(pages[i]) \in Nat
        BY <4>1, <4>3
      <4>5. QED BY <1>1, <4>2, <4>4
    <3>3. QED BY <3>1, <3>2
  <2>2. s[0] = 0
    BY <1>1, <1>3 DEF AreSizes
  <2>3. ASSUME NEW k \in 1..n PROVE s[k] = s[k - 1] + Len(new[k])
    <3>1. /\ size[k] = size[k - 1] + Len(pages[k]) /\ size[k - 1] \in Nat /\ size[k] \in Nat
          /\ k - 1 \in 0..n /\ k \in 0..n /\ Len(pages[k]) \in Nat
      <4>1. k - 1 \in 0..n /\ k \in 0..n
        BY <1>1
      <4>2. pages[k] \in Seq(Byte)
        BY <1>1
      <4>3. size[k] = size[k - 1] + Len(pages[k])
        BY <1>3 DEF AreSizes
      <4> HIDE DEF s, new, pages, n
      <4>4. QED BY <1>6, <4>1, <4>2, <4>3, LenProperties
    <3>2. /\ s[k] = IF k < i THEN size[k] ELSE size[k] - Len(pages[i]) + Len(page)
          /\ s[k - 1] = IF k - 1 < i THEN size[k - 1] ELSE size[k - 1] - Len(pages[i]) + Len(page)
      BY <3>1
    <3>3. Len(new[k]) = IF k = i THEN Len(page) ELSE Len(pages[k])
      BY <1>2
    <3>4. k \in Nat /\ i \in Nat
      OBVIOUS
    <3> HIDE DEF s, new, pages, n
    <3>5. CASE k < i
      <4>1. k - 1 < i /\ k # i
        BY <3>1, <3>4, <3>5
      <4>2. QED BY <3>1, <3>2, <3>3, <3>5, <4>1
    <3>6. CASE k = i
      <4>1. k - 1 < i /\ ~(k < i)
        BY <3>1, <3>4, <3>6
      <4>2. QED BY <1>1, <3>1, <3>2, <3>3, <3>6, <4>1
    <3>7. CASE k > i
      <4>1. ~(k - 1 < i) /\ ~(k < i) /\ k # i
        BY <3>1, <3>4, <3>7
      <4>2. /\ s[k] = size[k] - Len(pages[i]) + Len(page)
            /\ s[k - 1] = size[k - 1] - Len(pages[i]) + Len(page)
            /\ Len(new[k]) = Len(pages[k])
        BY <3>2, <3>3, <4>1
      <4>3. /\ size[k] = size[k - 1] + Len(pages[k]) /\ size[k - 1] \in Nat /\ Len(pages[k]) \in Nat
            /\ Len(pages[i]) \in Nat /\ Len(page) \in Nat
        BY <1>1, <3>1
      <4>4. (size[k - 1] + Len(pages[k])) - Len(pages[i]) + Len(page)
              = (size[k - 1] - Len(pages[i]) + Len(page)) + Len(pages[k])
        BY <4>3
      <4>5. QED BY <4>2, <4>3, <4>4
    <3>8. QED BY <3>4, <3>5, <3>6, <3>7
  <2>4. s \in [0..n -> Nat]
    <3>1. s = [k \in 0..n |-> s[k]]
      OBVIOUS
    <3> HIDE DEF s
    <3>2. QED BY <2>1, <3>1
  <2> HIDE DEF s, new, pages, n
  <2>5. QED BY <1>2, <2>2, <2>3, <2>4 DEF AreSizes
<1>9. Len(Concatenated(new)) = s[n]
  <2> HIDE DEF s, new, pages, n
  <2>1. QED BY <1>2, <1>8, TextIsLong
<1>10. s[n] = size[n] - Len(pages[i]) + Len(page) /\ s[n] \in Nat
  <2>1. n \in 0..n /\ ~(n < i)
    BY <1>1
  <2>2. s \in [0..n -> Nat]
    <3> HIDE DEF s, new, pages, n
    <3>1. QED BY <1>2, <1>8 DEF AreSizes
  <2>3. QED BY <2>1, <2>2
<1>11. \A k \in DOMAIN new : Len(new[k]) \in 1..PageSize
  <2>1. \A k \in 1..n : Len(pages[k]) \in 1..PageSize
    BY <1>1 DEF PagesOK
  <2>2. DOMAIN new = 1..n
    BY <1>2
  <2> HIDE DEF new, pages, n
  <2>3. QED BY <1>2, <2>1, <2>2
<1>12. Replaced(file, i, page) = [pages |-> new, total_written |-> s[n]]
  BY <1>4, <1>10 DEF Replaced
<1> HIDE DEF s, new
<1>13. QED BY <1>2, <1>4, <1>9, <1>10, <1>11, <1>12 DEF FileRecords, PagesOK

\* A page at the end makes the total longer by its length.
LEMMA AppendedPage ==
  ASSUME NEW file \in FileRecords, PagesOK(file), NEW page \in Seq(Byte), Len(page) \in 1..PageSize
  PROVE  /\ Appended(file, page) \in FileRecords /\ PagesOK(Appended(file, page))
         /\ Appended(file, page).total_written = file.total_written + Len(page)
<1> DEFINE pages == file.pages
           new == Append(pages, page)
           n == Len(pages)
<1>1. /\ pages \in Seq(Seq(Byte)) /\ n \in Nat /\ file.total_written \in Nat /\ Len(page) \in Nat
  BY DEF FileRecords
<1>2. /\ new \in Seq(Seq(Byte)) /\ Len(new) = n + 1 /\ new[n + 1] = page
      /\ \A k \in 1..n : new[k] = pages[k]
  BY <1>1, AppendProperties
<1>3. PICK size : AreSizes(size, pages)
  BY <1>1, PagesHaveSizes
<1>4. file.total_written = size[n]
  BY <1>1, <1>3, TextIsLong DEF PagesOK
<1> DEFINE s == [k \in 0..(n + 1) |-> IF k <= n THEN size[k] ELSE size[n] + Len(page)]
<1>5. size \in [0..n -> Nat] /\ size[n] \in Nat
  BY <1>1, <1>3 DEF AreSizes
<1>6. AreSizes(s, new)
  <2>1. s \in [0..(n + 1) -> Nat] /\ s[0] = 0
    BY <1>1, <1>3, <1>5 DEF AreSizes
  <2>2. ASSUME NEW k \in 1..(n + 1) PROVE s[k] = s[k - 1] + Len(new[k])
    <3>1. CASE k = n + 1
      <4>1. s[k] = size[n] + Len(page) /\ s[k - 1] = size[n]
        BY <1>1, <3>1
      <4>2. QED BY <1>2, <3>1, <4>1
    <3>2. CASE k # n + 1
      <4>1. k \in 1..n /\ k - 1 \in 0..n
        BY <1>1, <3>2
      <4>2. s[k] = size[k] /\ s[k - 1] = size[k - 1]
        BY <1>1, <4>1
      <4>3. size[k] = size[k - 1] + Len(pages[k])
        BY <1>3, <4>1 DEF AreSizes
      <4>4. QED BY <1>2, <4>1, <4>2, <4>3
    <3>3. QED BY <3>1, <3>2
  <2> HIDE DEF s, new, pages, n
  <2>3. QED BY <1>2, <2>1, <2>2 DEF AreSizes
<1>7. Len(Concatenated(new)) = s[n + 1]
  <2> HIDE DEF s, new, pages, n
  <2>1. QED BY <1>2, <1>6, TextIsLong
<1>8. s[n + 1] = size[n] + Len(page)
  BY <1>1
<1>9. \A k \in DOMAIN new : Len(new[k]) \in 1..PageSize
  <2>1. \A k \in 1..n : Len(pages[k]) \in 1..PageSize
    BY <1>1 DEF PagesOK
  <2>2. DOMAIN new = 1..(n + 1)
    BY <1>1, <1>2
  <2>3. ASSUME NEW k \in 1..(n + 1) PROVE k = n + 1 \/ k \in 1..n
    BY <1>1
  <2> HIDE DEF new, pages, n
  <2>4. QED BY <1>2, <2>1, <2>2, <2>3
<1>10. Appended(file, page) = [pages |-> new, total_written |-> size[n] + Len(page)]
  BY <1>4 DEF Appended
<1> HIDE DEF s, new
<1>11. QED BY <1>1, <1>2, <1>4, <1>5, <1>7, <1>8, <1>9, <1>10 DEF FileRecords, PagesOK

\* new is old with the first n of bytes put at pos.
Puts(new, old, pos, bytes, n) ==
  /\ Len(new) = IF pos + n > Len(old) THEN pos + n ELSE Len(old)
  /\ \A k \in 1..Len(new) :
       new[k] = IF k \in (pos + 1)..(pos + n) THEN bytes[k - pos] ELSE old[k]

\* new is pages but for page i, the last one, which was old or was not there.
ChangesLast(new, pages, i, old) ==
  /\ i \in Nat \ {0} /\ Len(new) = i
  /\ \A m \in 1..(i - 1) : new[m] = pages[m]
  /\ \/ Len(pages) = i /\ old = pages[i]
     \/ Len(pages) = i - 1 /\ old = <<>>

\* text is that of pages of these sizes, byte for byte.
Carries(text, pages, size) ==
  /\ Len(text) = size[Len(pages)]
  /\ \A m \in 1..Len(pages) : \A j \in 1..Len(pages[m]) : text[size[m - 1] + j] = pages[m][j]
  /\ \A k \in 1..Len(text) : \E m \in 1..Len(pages) : \E j \in 1..Len(pages[m]) : k = size[m - 1] + j

LEMMA TextCarries ==
  ASSUME NEW S, NEW pages \in Seq(Seq(S)), NEW size, AreSizes(size, pages)
  PROVE  Carries(Concatenated(pages), pages, size)
<1> DEFINE T == Concatenated(pages)
<1>1. /\ Len(T) = size[Len(pages)]
      /\ \A m \in 1..Len(pages) : \A j \in 1..Len(pages[m]) : T[size[m - 1] + j] = pages[m][j]
  BY TextIsLong
<1>2. \A k \in 1..size[Len(pages)] : \E m \in 1..Len(pages) : \E j \in 1..Len(pages[m]) : k = size[m - 1] + j
  BY ByteIsInPage
<1> HIDE DEF T
<1>3. Carries(T, pages, size)
  BY <1>1, <1>2 DEF Carries
<1>4. QED BY <1>3 DEF T

\* Pages that are the same up to one have the same sizes up to there.
SameUpTo(l, pages, size, new, s) ==
  /\ AreSizes(size, pages) /\ AreSizes(s, new)
  /\ Len(pages) \in Nat /\ Len(new) \in Nat /\ l <= Len(pages) /\ l <= Len(new)
  /\ \A m \in 1..l : new[m] = pages[m]

LEMMA SameSizesUpTo ==
  ASSUME NEW l \in Nat, NEW pages, NEW size, NEW new, NEW s, SameUpTo(l, pages, size, new, s)
  PROVE  \A m \in 0..l : s[m] = size[m]
<1>1. s[0] = size[0]
  BY DEF SameUpTo, AreSizes
<1>2. ASSUME NEW m \in 1..l, s[m - 1] = size[m - 1]
      PROVE  s[m] = size[m]
  <2>1. m \in 1..Len(pages) /\ m \in 1..Len(new) /\ new[m] = pages[m]
    BY DEF SameUpTo
  <2>2. s[m] = s[m - 1] + Len(new[m]) /\ size[m] = size[m - 1] + Len(pages[m])
    BY <2>1 DEF AreSizes, SameUpTo
  <2>3. QED BY <1>2, <2>1, <2>2
<1>3. \A m \in 1..l : s[m - 1] = size[m - 1] => s[m] = size[m]
  BY <1>2
<1>4. l \in Nat
  OBVIOUS
<1>5. QED BY <1>1, <1>3, <1>4, SameSizes, ZenonT(60)

\* Bytes that are put in the last page, be it new, are put in the text.
LEMMA LastPageIsPut ==
  ASSUME NEW S, NEW pages \in Seq(Seq(S)), NEW new \in Seq(Seq(S)),
         NEW size, AreSizes(size, pages), NEW s, AreSizes(s, new),
         NEW T, Carries(T, pages, size), NEW U, Carries(U, new, s),
         NEW i, NEW old \in Seq(S), ChangesLast(new, pages, i, old),
         NEW offset \in Nat, NEW n \in Nat, NEW bytes, Puts(new[i], old, offset, bytes, n),
         offset <= Len(old)
  PROVE  Puts(U, T, size[i - 1] + offset, bytes, n)
<1> DEFINE p == size[i - 1] + offset
<1>a. /\ i \in Nat \ {0} /\ Len(new) = i /\ Len(pages) \in {i - 1, i}
      /\ \A m \in 1..(i - 1) : new[m] = pages[m]
      /\ Len(pages) = i => old = pages[i]
      /\ Len(pages) = i - 1 => old = <<>>
  BY DEF ChangesLast
<1>2. /\ i - 1 \in Nat /\ i - 1 \in 0..Len(pages) /\ i - 1 \in 0..i /\ i \in 1..i /\ i \in 0..i
      /\ \A m \in 1..(i - 1) : m \in 1..Len(pages) /\ m \in 1..i
  BY <1>a
<1>3. \A m \in 0..(i - 1) : s[m] = size[m]
  <2> DEFINE e == i - 1
  <2>1. e \in Nat /\ SameUpTo(e, pages, size, new, s)
    BY <1>a DEF SameUpTo
  <2> HIDE DEF e
  <2>2. \A m \in 0..e : s[m] = size[m]
    BY <2>1, SameSizesUpTo, SMTT(30)
  <2>3. QED BY <2>2 DEF e
<1>4. /\ s \in [0..i -> Nat] /\ size \in [0..Len(pages) -> Nat]
      /\ s[i] = s[i - 1] + Len(new[i]) /\ s[i - 1] = size[i - 1] /\ size[i - 1] \in Nat
      /\ Len(new[i]) \in Nat /\ Len(old) \in Nat
  <2>1. s \in [0..i -> Nat] /\ size \in [0..Len(pages) -> Nat] /\ s[i] = s[i - 1] + Len(new[i])
    BY <1>2, <1>a DEF AreSizes
  <2>2. i - 1 \in 0..(i - 1) /\ new[i] \in Seq(S)
    BY <1>2, <1>a
  <2>3. QED BY <1>2, <1>3, <2>1, <2>2, LenProperties
<1>5. size[Len(pages)] = size[i - 1] + Len(old)
  <2>1. CASE Len(pages) = i
    BY <1>2, <1>a, <2>1 DEF AreSizes
  <2>2. CASE Len(pages) # i
    <3>1. Len(pages) = i - 1 /\ Len(old) = 0
      BY <1>a, <2>2, EmptySeq
    <3>2. QED BY <1>4, <3>1
  <2>3. QED BY <2>1, <2>2
<1>6. Len(T) = size[i - 1] + Len(old) /\ Len(U) = size[i - 1] + Len(new[i])
  BY <1>4, <1>5, <1>a DEF Carries
<1>7. /\ \A m \in 1..Len(pages) : \A j \in 1..Len(pages[m]) : T[size[m - 1] + j] = pages[m][j]
      /\ \A m \in 1..i : \A j \in 1..Len(new[m]) : U[s[m - 1] + j] = new[m][j]
      /\ \A k \in 1..Len(U) : \E m \in 1..i : \E j \in 1..Len(new[m]) : k = s[m - 1] + j
  BY <1>a DEF Carries
<1>8. /\ Len(new[i]) = IF offset + n > Len(old) THEN offset + n ELSE Len(old)
      /\ \A j \in 1..Len(new[i]) :
           new[i][j] = IF j \in (offset + 1)..(offset + n) THEN bytes[j - offset] ELSE old[j]
  BY DEF Puts
<1> DEFINE b == size[i - 1]
           l == Len(new[i])
           o == Len(old)
<1>9. /\ b \in Nat /\ l \in Nat /\ o \in Nat /\ offset <= o /\ p = b + offset
      /\ l = (IF offset + n > o THEN offset + n ELSE o)
      /\ Len(T) = b + o /\ Len(U) = b + l
  BY <1>4, <1>6, <1>8
<1> HIDE DEF b, l, o, p
<1>10. Len(U) = IF p + n > Len(T) THEN p + n ELSE Len(T)
  BY <1>9
<1>11. ASSUME NEW k \in 1..Len(U)
       PROVE  U[k] = IF k \in (p + 1)..(p + n) THEN bytes[k - p] ELSE T[k]
  <2>2. PICK m \in 1..i : \E j \in 1..Len(new[m]) : k = s[m - 1] + j
    BY <1>7
  <2>3. PICK j \in 1..Len(new[m]) : k = s[m - 1] + j
    BY <2>2
  <2>4. m \in 1..i /\ U[k] = new[m][j]
    BY <1>7, <2>3
  <2>5. CASE m < i
    <3>1. m \in 1..(i - 1) /\ m - 1 \in 0..(i - 1) /\ m \in 0..i /\ i - 1 \in m..i
      BY <1>a, <2>4, <2>5
    <3>2. T[k] = new[m][j]
      <4>1. new[m] = pages[m] /\ s[m - 1] = size[m - 1] /\ m \in 1..Len(pages)
        BY <1>2, <1>3, <1>a, <3>1
      <4>2. QED BY <1>7, <2>3, <4>1
    <3>3. k <= b
      <4>1. s[m] = s[m - 1] + Len(new[m]) /\ s[m] \in Nat /\ s[m - 1] \in Nat
        <5>1. m - 1 \in 0..i
          BY <1>a, <3>1
        <5>2. QED BY <1>4, <1>a, <2>4, <3>1, <5>1 DEF AreSizes
      <4>2. s[m] <= s[i - 1]
        BY <1>a, <3>1, SizesGrow
      <4>3. Len(new[m]) \in Nat
        <5>1. new[m] \in Seq(S)
          BY <1>a, <2>4
        <5>2. QED BY <5>1, LenProperties
      <4>4. k <= s[m]
        <5> DEFINE q == Len(new[m])
        <5>1. q \in Nat /\ j \in 1..q /\ k = s[m - 1] + j /\ s[m] = s[m - 1] + q
          BY <2>3, <4>1, <4>3
        <5> HIDE DEF q
        <5>2. QED BY <4>1, <5>1, SMTT(30)
      <4>5. s[i - 1] = b
        BY <1>4 DEF b
      <4>6. QED BY <1>9, <4>1, <4>2, <4>4, <4>5
    <3>4. k \notin (p + 1)..(p + n)
      BY <1>9, <3>3
    <3>5. QED BY <2>4, <3>2, <3>4
  <2>6. CASE m = i
    <3>1. k = b + j /\ j \in 1..l
      BY <1>4, <2>3, <2>6 DEF b, l
    <3>2. U[k] = IF j \in (offset + 1)..(offset + n) THEN bytes[j - offset] ELSE old[j]
      BY <1>8, <2>4, <2>6, <3>1 DEF l
    <3>3. CASE j \in (offset + 1)..(offset + n)
      <4>1. k \in (p + 1)..(p + n) /\ k - p = j - offset
        BY <1>9, <3>1, <3>3
      <4>2. QED BY <3>2, <3>3, <4>1
    <3>4. CASE j \notin (offset + 1)..(offset + n)
      <4>1. k \notin (p + 1)..(p + n) /\ j \in 1..o /\ o # 0
        BY <1>9, <3>1, <3>4
      <4>2. Len(pages) = i
        <5>1. old # <<>>
          BY <4>1, EmptySeq DEF o
        <5>2. QED BY <1>a, <5>1
      <4>3. old = pages[i] /\ i \in 1..Len(pages) /\ j \in 1..Len(pages[i])
        BY <1>a, <4>1, <4>2 DEF o
      <4>4. T[k] = old[j]
        BY <1>7, <3>1, <4>3 DEF b
      <4>5. QED BY <3>2, <3>4, <4>1, <4>4
    <3>5. QED BY <3>3, <3>4
  <2>7. QED BY <1>a, <2>4, <2>5, <2>6
<1>12. QED BY <1>10, <1>11 DEF Puts, p

\* A multiple and its remainder.
LEMMA Remainder ==
  ASSUME NEW d \in Nat \ {0}, NEW q \in Nat, NEW r \in 0..(d - 1)
  PROVE  q * d \in Nat /\ (q * d + r) % d = r
<1>1. q * d \in Nat BY Z3
<1>2. QED BY <1>1, Z3

LEMMA OneMore ==
  ASSUME NEW d \in Nat, NEW q \in Nat
  PROVE  (q + 1) * d = q * d + d /\ q * d \in Nat
BY Z3

\* Full pages begin at the multiples of their size.
LEMMA FullAreAligned ==
  ASSUME NEW S, NEW pages \in Seq(Seq(S)), NEW size, AreSizes(size, pages), FullPages(pages),
         pages # <<>>
  PROVE  size[Len(pages) - 1] = (Len(pages) - 1) * PageSize
<1> DEFINE l == Len(pages) - 1
           T == {k \in 0..l : size[k] = k * PageSize}
<1>1. l \in Nat /\ PageSize \in Nat /\ Len(pages) \in Nat \ {0}
  <2>1. Len(pages) # 0
    BY EmptySeq
  <2>2. QED BY <2>1, PageFileAssumption
<1>2. 0 \in T
  <2>1. size[0] = 0
    BY DEF AreSizes
  <2>2. 0 * PageSize = 0
    BY <1>1
  <2>3. QED BY <1>1, <2>1, <2>2
<1>3. ASSUME NEW k \in 0..(l - 1), k \in T PROVE k + 1 \in T
  <2>1. k + 1 \in 1..Len(pages) /\ k + 1 \in 0..l /\ k + 1 \in 1..(Len(pages) - 1) /\ k \in Nat /\ (k + 1) - 1 = k
    BY <1>1
  <2>2. size[k + 1] = size[k] + Len(pages[k + 1]) /\ Len(pages[k + 1]) = PageSize
    BY <2>1 DEF AreSizes, FullPages, Full
  <2>3. size[k] = k * PageSize
    BY <1>3
  <2>4. (k + 1) * PageSize = k * PageSize + PageSize
    BY <1>1, <2>1, OneMore
  <2>5. size[k + 1] = (k + 1) * PageSize
    BY <2>2, <2>3, <2>4
  <2>6. QED BY <2>1, <2>5
<1>4. 0..l \subseteq T
  <2> HIDE DEF T, l
  <2>1. QED BY <1>1, <1>2, <1>3, UpTo
<1>5. l \in 0..l
  BY <1>1
<1>6. QED BY <1>4, <1>5

\* Where a file whose pages are full can be written: in its last page, or at its end when
\* that is full.
AtEnd(pages, pos, end) ==
  pos = end /\ GetPage(pages, pos) = 0 /\ (pages = <<>> \/ Full(pages[Len(pages)]))

InLastPage(pages, pos) ==
  pages # <<>> /\ GetPage(pages, pos) = Len(pages) /\ ~Full(pages[Len(pages)])

LEMMA WhereItIsWritten ==
  ASSUME NEW file \in FileRecords, PagesOK(file), FullPages(file.pages),
         NEW pos \in Nat, Writable(file, pos)
  PROVE  AtEnd(file.pages, pos, file.total_written) \/ InLastPage(file.pages, pos)
<1> DEFINE pages == file.pages
           held == {k \in DOMAIN pages : Holds(pages, pos, k)}
           n == Len(pages)
           total == file.total_written
<1>1. /\ pages \in Seq(Seq(Byte)) /\ n \in Nat /\ PageSize \in Nat \ {0} /\ total \in Nat
      /\ DOMAIN pages = 1..n
      /\ \A k \in 1..n : Len(pages[k]) \in 1..PageSize
  BY PageFileAssumption DEF FileRecords, PagesOK
<1>2. PICK size : AreSizes(size, pages)
  BY <1>1, PagesHaveSizes
<1>3. total = size[n]
  BY <1>1, <1>2, TextIsLong DEF PagesOK
<1>4. pos <= total /\ pos >= total - (total % PageSize)
  BY DEF Writable
<1>5. GetPage(pages, pos) = IF held = {} THEN 0 ELSE CHOOSE i \in held : \A j \in held : i <= j
  BY DEF GetPage
<1>6. CASE n = 0
  <2>1. pages = <<>> /\ total = 0 /\ held = {}
    BY <1>1, <1>2, <1>3, <1>6, EmptySeq DEF AreSizes
  <2>2. pos = 0
    BY <1>4, <2>1
  <2>3. GetPage(pages, pos) = 0
    <3> HIDE DEF held
    <3>1. QED BY <1>5, <2>1
  <2>4. QED BY <2>1, <2>2, <2>3 DEF AtEnd
<1>7. CASE n # 0
  <2> DEFINE b == size[n - 1]
             l == Len(pages[n])
  <2>1. /\ n \in 1..n /\ n - 1 \in 0..n /\ n - 1 \in Nat
        /\ pages # <<>>
    BY <1>1, <1>7, EmptySeq
  <2>2. /\ b \in Nat /\ l \in 1..PageSize /\ total = b + l
    BY <1>1, <1>2, <1>3, <2>1 DEF AreSizes
  <2>3. b = (n - 1) * PageSize
    BY <1>1, <1>2, <2>1, FullAreAligned
  <2>4. ASSUME NEW k \in 1..n
        PROVE  Holds(pages, pos, k) <=> size[k - 1] + Len(pages[k]) >= pos /\ pos < size[k - 1] + PageSize
    <3>1. SeenBefore(pages, k) = size[k - 1]
      BY <1>1, <1>2, SeenIsSize
    <3>2. QED BY <3>1 DEF Holds
  <2>5. ASSUME NEW k \in 1..n
        PROVE  /\ size[k - 1] \in Nat /\ size[k - 1] <= b
               /\ k # n => size[k] = size[k - 1] + Len(pages[k]) /\ size[k] <= b /\ Len(pages[k]) = PageSize
    <3>1. k - 1 \in 0..n /\ n - 1 \in (k - 1)..n
      BY <1>1
    <3>2. size[k - 1] \in Nat /\ size[k] = size[k - 1] + Len(pages[k])
      BY <1>2, <3>1 DEF AreSizes
    <3>3. size[k - 1] <= size[n - 1]
      BY <1>1, <1>2, <3>1, SizesGrow
    <3>4. ASSUME k # n PROVE size[k] <= size[n - 1] /\ Len(pages[k]) = PageSize
      <4>1. k \in 0..n /\ n - 1 \in k..n /\ k \in 1..(n - 1)
        BY <1>1, <3>4
      <4>2. size[k] <= size[n - 1]
        BY <1>1, <1>2, <4>1, SizesGrow
      <4>3. Len(pages[k]) = PageSize
        BY <4>1 DEF FullPages, Full
      <4>4. QED BY <4>2, <4>3
    <3>5. QED BY <3>2, <3>3, <3>4
  <2> HIDE DEF b, l
  <2>6. CASE l = PageSize
    <3>1. total % PageSize = 0
      <4>1. total = n * PageSize + 0
        <5>1. n - 1 + 1 = n
          BY <2>1
        <5>2. (n - 1 + 1) * PageSize = (n - 1) * PageSize + PageSize
          BY <1>1, <2>1, OneMore
        <5>3. n * PageSize = b + PageSize
          BY <2>3, <5>1, <5>2
        <5>4. QED BY <2>2, <2>6, <5>3
      <4>2. 0 \in 0..(PageSize - 1)
        BY <1>1
      <4>3. (n * PageSize + 0) % PageSize = 0
        BY <1>1, <4>2, Remainder
      <4>4. QED BY <4>1, <4>3
    <3>2. pos = total
      BY <1>1, <1>4, <3>1
    <3>3. \A k \in 1..n : ~Holds(pages, pos, k)
      <4>1. TAKE k \in 1..n
      <4>2. size[k - 1] \in Nat /\ size[k - 1] <= b
        BY <2>5
      <4>3. ~(pos < size[k - 1] + PageSize)
        BY <1>1, <2>2, <2>6, <3>2, <4>2
      <4>4. QED BY <2>4, <4>3
    <3>4. held = {}
      BY <1>1, <3>3
    <3>5. GetPage(pages, pos) = 0
      <4> HIDE DEF held
      <4>1. QED BY <1>5, <3>4
    <3>6. Full(pages[n])
      BY <2>6 DEF Full, l
    <3>7. QED BY <3>2, <3>5, <3>6 DEF AtEnd
  <2>7. CASE l # PageSize
    <3>1. total % PageSize = l
      <4>1. l \in 0..(PageSize - 1)
        BY <1>1, <2>2, <2>7
      <4>2. ((n - 1) * PageSize + l) % PageSize = l
        BY <1>1, <2>1, <4>1, Remainder
      <4>3. QED BY <2>2, <2>3, <4>2
    <3>2. pos >= b /\ pos <= b + l /\ l < PageSize
      BY <1>1, <1>4, <2>2, <2>7, <3>1
    <3>3. Holds(pages, pos, n)
      <4>1. b + l >= pos /\ pos < b + PageSize
        BY <1>1, <2>2, <3>2
      <4>2. QED BY <2>1, <2>4, <4>1 DEF b, l
    <3>4. \A k \in 1..n : k # n => ~Holds(pages, pos, k)
      <4>1. TAKE k \in 1..n
      <4>2. HAVE k # n
      <4>3. size[k - 1] \in Nat /\ size[k] = size[k - 1] + PageSize /\ size[k] <= b
        BY <2>5, <4>2
      <4>4. ~(pos < size[k - 1] + PageSize)
        BY <1>1, <2>2, <3>2, <4>3
      <4>5. QED BY <2>4, <4>4
    <3>5. held = {n}
      BY <1>1, <2>1, <3>3, <3>4
    <3>6. GetPage(pages, pos) = n
      <4>1. GetPage(pages, pos) = CHOOSE i \in {n} : \A j \in {n} : i <= j
        <5> HIDE DEF held
        <5>1. QED BY <1>5, <3>5
      <4>2. QED BY <1>1, <4>1
    <3>7. ~Full(pages[n])
      BY <2>7 DEF Full, l
    <3>8. QED BY <2>1, <3>6, <3>7 DEF InLastPage
  <2>8. QED BY <2>6, <2>7
<1>8. QED BY <1>6, <1>7

\* A position is this far in page i, which is the last or comes behind full ones.
IsAt(pages, pos, i, offset) ==
  /\ \E size : AreSizes(size, pages) /\ pos = size[i - 1] + offset
  /\ Len(pages) = i - 1 => pages = <<>> \/ Full(pages[Len(pages)])

IsOverwritten(page, old, offset, bytes) == page = Overwrite(old, offset, bytes)

\* What is written to the last page of a file whose pages are full, or to a new one, is put

\* in the text; what did not fit goes on where the file can be written.
LEMMA ChunkIsPut ==
  ASSUME NEW file \in FileRecords, PagesOK(file), FullPages(file.pages), NEW pos \in Nat,
         NEW new \in FileRecords, PagesOK(new),
         NEW i, NEW old \in Seq(Byte), ChangesLast(new.pages, file.pages, i, old),
         NEW left \in Seq(Byte), NEW offset \in 0..(PageSize - 1), IsAt(file.pages, pos, i, offset),
         offset <= Len(old), Len(old) <= PageSize,
         IsOverwritten(new.pages[i], old, offset, left)
  PROVE  /\ FullPages(new.pages)
         /\ Puts(Concatenated(new.pages), Concatenated(file.pages), pos, left, Fitting(offset, left))
         /\ Fitting(offset, left) < Len(left) => Writable(new, pos + Fitting(offset, left))
<1> DEFINE n == Fitting(offset, left)
           pages == file.pages
           U == Concatenated(new.pages)
           T == Concatenated(pages)
<1>1. /\ pages \in Seq(Seq(Byte)) /\ new.pages \in Seq(Seq(Byte))
      /\ PageSize \in Nat \ {0} /\ offset \in Nat
      /\ Len(old) \in Nat /\ Len(left) \in Nat
  BY PageFileAssumption DEF FileRecords
<1>2. PICK size : AreSizes(size, pages) /\ pos = size[i - 1] + offset
  BY DEF IsAt
<1>3. PICK s : AreSizes(s, new.pages)
  BY <1>1, PagesHaveSizes
<1>4. /\ i \in Nat \ {0} /\ Len(new.pages) = i /\ Len(pages) \in {i - 1, i}
      /\ \A m \in 1..(i - 1) : new.pages[m] = pages[m]
      /\ Len(pages) = i => old = pages[i]
      /\ Len(pages) = i - 1 => old = <<>>
  BY DEF ChangesLast
<1>5. /\ n \in 0..Len(left) /\ n \in Nat /\ offset + n <= PageSize
      /\ Len(Overwrite(old, offset, left)) = IF offset + n <= Len(old) THEN Len(old) ELSE offset + n
      /\ \A j \in 1..Len(Overwrite(old, offset, left)) :
           Overwrite(old, offset, left)[j] =
             IF j \in (offset + 1)..(offset + n) THEN left[j - offset] ELSE old[j]
  BY <1>1, OverwriteLength, OverwriteBytes
<1>6. Puts(new.pages[i], old, offset, left, n)
  <2> DEFINE page == new.pages[i]
  <2>1. /\ Len(page) = IF offset + n <= Len(old) THEN Len(old) ELSE offset + n
        /\ \A j \in 1..Len(page) :
             page[j] = IF j \in (offset + 1)..(offset + n) THEN left[j - offset] ELSE old[j]
    BY <1>5 DEF IsOverwritten
  <2> HIDE DEF page, n
  <2>2. Len(page) = IF offset + n > Len(old) THEN offset + n ELSE Len(old)
    BY <1>1, <1>5, <2>1
  <2>3. Puts(page, old, offset, left, n)
    BY <2>1, <2>2 DEF Puts
  <2>4. QED BY <2>3 DEF page
<1>7. Carries(T, pages, size) /\ Carries(U, new.pages, s)
  BY <1>1, <1>2, <1>3, TextCarries
<1> HIDE DEF n, U, T
<1>8. Puts(U, T, pos, left, n)
  BY <1>1, <1>2, <1>3, <1>5, <1>6, <1>7, LastPageIsPut
<1>9. FullPages(new.pages)
  <2>1. ASSUME NEW m \in 1..(i - 1) PROVE Full(new.pages[m])
    <3>1. new.pages[m] = pages[m]
      BY <1>4
    <3>2. CASE m \in 1..(Len(pages) - 1)
      BY <3>1, <3>2 DEF FullPages
    <3>3. CASE m \notin 1..(Len(pages) - 1)
      <4>1. m = Len(pages) /\ Len(pages) = i - 1 /\ Len(pages) # 0
        BY <1>4, <3>3
      <4>2. pages # <<>>
        BY <4>1, EmptySeq
      <4>3. Full(pages[m])
        BY <4>1, <4>2 DEF IsAt
      <4>4. QED BY <3>1, <4>3
    <3>4. QED BY <3>2, <3>3
  <2>2. QED BY <1>4, <2>1 DEF FullPages
<1>10. ASSUME n < Len(left) PROVE Writable(new, pos + n)
  <2>1. offset + n = PageSize
    <3>1. n = IF Len(left) < PageSize - offset THEN Len(left) ELSE PageSize - offset
      BY DEF n, Fitting
    <3>2. n = PageSize - offset
      BY <1>10, <3>1
    <3>3. QED BY <1>1, <1>5, <3>2
  <2>2. Len(T) <= size[i - 1] + PageSize /\ size[i - 1] \in Nat /\ Len(T) \in Nat
    <3>1. Len(T) = size[Len(pages)] /\ size \in [0..Len(pages) -> Nat]
      BY <1>2, <1>7 DEF Carries, AreSizes
    <3>2. CASE Len(pages) = i
      <4>1. i \in 1..Len(pages) /\ i - 1 \in 0..Len(pages) /\ i \in 0..Len(pages)
        BY <1>4, <3>2
      <4>2. size[i] = size[i - 1] + Len(old)
        BY <1>2, <1>4, <3>2, <4>1 DEF AreSizes
      <4>3. size[i - 1] \in Nat /\ size[i] \in Nat
        BY <3>1, <4>1
      <4>4. QED BY <1>1, <3>1, <3>2, <4>2, <4>3
    <3>3. CASE Len(pages) # i
      <4>1. Len(pages) = i - 1 /\ i - 1 \in 0..Len(pages)
        BY <1>4, <3>3
      <4>2. size[i - 1] \in Nat /\ Len(T) = size[i - 1]
        BY <3>1, <4>1
      <4>3. QED BY <1>1, <4>2
    <3>4. QED BY <3>2, <3>3
  <2>3. pos + n = size[i - 1] + PageSize /\ pos + n \in Nat
    <3> DEFINE b == size[i - 1]
    <3>1. b \in Nat /\ pos = b + offset
      BY <1>2, <2>2
    <3> HIDE DEF b, pages
    <3>2. (b + offset) + n = b + (offset + n) /\ (b + offset) + n \in Nat
      BY <1>1, <1>5, <3>1
    <3>3. QED BY <2>1, <3>1, <3>2 DEF b
  <2>4. Len(U) = IF pos + n > Len(T) THEN pos + n ELSE Len(T)
    BY <1>8 DEF Puts
  <2>5. Len(U) = pos + n
    BY <2>2, <2>3, <2>4
  <2>6. new.total_written = pos + n
    BY <2>5 DEF PagesOK, U
  <2>7. \A t \in Nat : t % PageSize \in 0..(PageSize - 1)
    BY <1>1, Z3
  <2>8. pos + n >= (pos + n) - ((pos + n) % PageSize) /\ pos + n <= pos + n
    <3> DEFINE t == pos + n
    <3>1. t \in Nat
      BY <2>3
    <3> HIDE DEF t
    <3>2. t % PageSize \in Nat
      BY <1>1, <2>7, <3>1
    <3>3. t >= t - (t % PageSize) /\ t <= t
      BY <3>1, <3>2
    <3>4. QED BY <3>3 DEF t
  <2>9. QED BY <2>6, <2>8 DEF Writable
<1>11. QED BY <1>8, <1>9, <1>10 DEF n, U, T

\* What putting bytes in a file comes to.
IsPut(new, file, pos, bytes, n) ==
  /\ FullPages(new.pages)
  /\ Puts(Concatenated(new.pages), Concatenated(file.pages), pos, bytes, n)
  /\ n < Len(bytes) => Writable(new, pos + n)

\* Bytes go into the page that get_page() finds, if it has room.
LEMMA PutInPage ==
  ASSUME NEW file \in FileRecords, PagesOK(file), FullPages(file.pages),
         NEW pos \in Nat, Writable(file, pos), NEW left \in Seq(Byte), NEW i, NEW page,
         i # 0 /\ i = GetPage(file.pages, pos) /\ ~Full(file.pages[i]),
         Replaced(file, i, page) \in FileRecords, PagesOK(Replaced(file, i, page)),
         IsOverwritten(page, file.pages[i], pos - SeenBefore(file.pages, i), left)
  PROVE  IsPut(Replaced(file, i, page), file, pos, left, Fitting(pos - SeenBefore(file.pages, i), left))
<1> DEFINE pages == file.pages
           new == Replaced(file, i, page)
           offset == pos - SeenBefore(pages, i)
           old == pages[i]
<1>1. /\ pages \in Seq(Seq(Byte)) /\ PageSize \in Nat \ {0}
      /\ \A k \in DOMAIN pages : Len(pages[k]) \in 1..PageSize
  BY PageFileAssumption DEF FileRecords, PagesOK
<1>2. i = Len(pages) /\ pages # <<>>
  <2>1. AtEnd(pages, pos, file.total_written) \/ InLastPage(pages, pos)
    BY WhereItIsWritten
  <2>2. QED BY <2>1 DEF AtEnd, InLastPage
<1>3. PICK size : AreSizes(size, pages)
  BY <1>1, PagesHaveSizes
<1>4. i \in 1..Len(pages) /\ offset \in 0..(PageSize - 1) /\ offset <= Len(old)
  BY <1>1, <1>3, PageHolds
<1>5. old \in Seq(Byte) /\ Len(old) \in 1..PageSize /\ Len(old) <= PageSize /\ i \in Nat \ {0}
  BY <1>1, <1>4
<1>6. /\ new.pages = [pages EXCEPT ![i] = page]
      /\ Len(new.pages) = Len(pages) /\ new.pages[i] = page
      /\ \A m \in 1..(i - 1) : new.pages[m] = pages[m]
  <2>1. new.pages = [pages EXCEPT ![i] = page]
    BY DEF Replaced
  <2>2. /\ Len([pages EXCEPT ![i] = page]) = Len(pages)
        /\ [pages EXCEPT ![i] = page][i] = page
        /\ \A m \in 1..(i - 1) : [pages EXCEPT ![i] = page][m] = pages[m]
    BY <1>1, <1>4
  <2> HIDE DEF new, pages
  <2>3. QED BY <2>1, <2>2
<1>7. ChangesLast(new.pages, pages, i, old)
  <2> HIDE DEF new, pages
  <2>1. QED BY <1>2, <1>5, <1>6 DEF ChangesLast, old
<1>8. IsAt(pages, pos, i, offset)
  <2>1. SeenBefore(pages, i) = size[i - 1] /\ size[i - 1] \in Nat
    <3>1. i - 1 \in 0..Len(pages)
      BY <1>4
    <3>2. SeenBefore(pages, i) = size[i - 1]
      BY <1>1, <1>3, <1>4, SeenIsSize
    <3>3. QED BY <1>3, <3>1, <3>2 DEF AreSizes
  <2>2. pos = size[i - 1] + offset
    BY <2>1
  <2>3. Len(pages) # i - 1
    BY <1>2, <1>5
  <2> HIDE DEF offset, pages
  <2>4. QED BY <1>3, <2>2, <2>3 DEF IsAt
<1>9. IsOverwritten(new.pages[i], old, offset, left)
  BY <1>6
<1> HIDE DEF new, old, offset, pages
<1>10. /\ FullPages(new.pages)
       /\ Puts(Concatenated(new.pages), Concatenated(pages), pos, left, Fitting(offset, left))
       /\ Fitting(offset, left) < Len(left) => Writable(new, pos + Fitting(offset, left))
  <2>1. new \in FileRecords /\ PagesOK(new)
    BY DEF new
  <2>2. ChangesLast(new.pages, file.pages, i, old) /\ IsAt(file.pages, pos, i, offset)
    BY <1>7, <1>8 DEF pages
  <2>3. QED BY <1>4, <1>5, <1>9, <2>1, <2>2, ChunkIsPut DEF pages
<1>11. QED BY <1>10 DEF IsPut, new, offset, pages

\* Else they go into a page behind the last.
LEMMA PutBehind ==
  ASSUME NEW file \in FileRecords, PagesOK(file), FullPages(file.pages),
         NEW pos \in Nat, Writable(file, pos), NEW left \in Seq(Byte), NEW page,
         GetPage(file.pages, pos) = 0 \/ Full(file.pages[GetPage(file.pages, pos)]),
         Appended(file, page) \in FileRecords, PagesOK(Appended(file, page)),
         IsOverwritten(page, <<>>, 0, left)
  PROVE  IsPut(Appended(file, page), file, pos, left, Fitting(0, left))
<1> DEFINE pages == file.pages
           new == Appended(file, page)
           i == Len(pages) + 1
<1>1. /\ pages \in Seq(Seq(Byte)) /\ PageSize \in Nat \ {0}
      /\ Len(pages) \in Nat /\ i \in Nat \ {0} /\ i - 1 = Len(pages)
  BY PageFileAssumption DEF FileRecords
<1>2. pos = file.total_written /\ (pages = <<>> \/ Full(pages[Len(pages)]))
  <2>1. AtEnd(pages, pos, file.total_written) \/ InLastPage(pages, pos)
    BY WhereItIsWritten
  <2>2. ~InLastPage(pages, pos)
    <3>1. ASSUME InLastPage(pages, pos) PROVE FALSE
      <4>1. Len(pages) # 0
        BY <1>1, <3>1, EmptySeq DEF InLastPage
      <4>2. QED BY <3>1, <4>1 DEF InLastPage
    <3>2. QED BY <3>1
  <2>3. QED BY <2>1, <2>2 DEF AtEnd
<1>3. PICK size : AreSizes(size, pages)
  BY <1>1, PagesHaveSizes
<1>4. IsAt(pages, pos, i, 0)
  <2>1. file.total_written = size[Len(pages)] /\ size[Len(pages)] \in Nat
    <3>1. file.total_written = size[Len(pages)]
      BY <1>1, <1>3, TextIsLong DEF PagesOK
    <3>2. QED BY <1>1, <1>3, <3>1 DEF AreSizes
  <2>2. pos = size[i - 1] + 0
    BY <1>1, <1>2, <2>1
  <2> HIDE DEF pages, i
  <2>3. QED BY <1>2, <1>3, <2>2 DEF IsAt
<1>5. /\ Len(new.pages) = i /\ new.pages[i] = page
      /\ \A m \in 1..(i - 1) : new.pages[m] = pages[m]
  <2>1. new.pages = Append(pages, page)
    BY DEF Appended
  <2>2. page \in Seq(Byte)
    <3>1. new.pages \in Seq(Seq(Byte))
      BY DEF FileRecords
    <3>2. Append(pages, page)[Len(pages) + 1] = page /\ Len(pages) + 1 \in 1..Len(Append(pages, page))
      BY <1>1
    <3>3. new.pages[i] \in Seq(Byte) /\ new.pages[i] = page
      BY <2>1, <3>1, <3>2
    <3>4. QED BY <3>3
  <2>3. QED BY <1>1, <2>1, <2>2, AppendProperties
<1>6. ChangesLast(new.pages, pages, i, <<>>)
  <2> HIDE DEF new, pages, i
  <2>1. QED BY <1>1, <1>5 DEF ChangesLast
<1>7. IsOverwritten(new.pages[i], <<>>, 0, left)
  BY <1>5
<1>8. <<>> \in Seq(Byte) /\ Len(<<>>) = 0 /\ 0 <= 0 /\ 0 <= PageSize /\ 0 \in 0..(PageSize - 1)
  BY <1>1
<1> HIDE DEF new, i, pages
<1>9. /\ FullPages(new.pages)
      /\ Puts(Concatenated(new.pages), Concatenated(pages), pos, left, Fitting(0, left))
      /\ Fitting(0, left) < Len(left) => Writable(new, pos + Fitting(0, left))
  <2>1. new \in FileRecords /\ PagesOK(new)
    BY DEF new
  <2>2. ChangesLast(new.pages, file.pages, i, <<>>) /\ IsAt(file.pages, pos, i, 0)
    BY <1>4, <1>6 DEF pages
  <2>3. 0 <= Len(<<>>) /\ Len(<<>>) <= PageSize
    BY <1>8
  <2>4. QED BY <1>7, <1>8, <2>1, <2>2, <2>3, ChunkIsPut DEF pages
<1>10. QED BY <1>9 DEF IsPut, new, pages

\* Writes in progress in a sound file that will not be longer than total, nor end beyond end.
WritesWithin(total, end) ==
  {w \in [file : FileRecords, pos : Nat, left : Seq(Byte), room : Int] :
     /\ PagesOK(w.file)
     /\ w.file.total_written + Len(w.left) <= total
     /\ w.pos + Len(w.left) <= end}

\* A turn writes nothing: there is nothing left, or no memory for the next page.
Rests(w, next) ==
  /\ next.file = w.file /\ next.pos = w.pos /\ next.left = w.left
  /\ w.left # <<>> => next.room < 0
  /\ w.left = <<>> => next.room = w.room

\* A turn writes the first n of what is left.
GoesOn(w, next, n) ==
  /\ n \in 1..Len(w.left) /\ Len(next.left) = Len(w.left) - n
  /\ \A k \in 1..Len(next.left) : next.left[k] = w.left[n + k]
  /\ next.pos = w.pos + n /\ w.room >= 0 /\ ~(next.room < 0)
  /\ next.file.pages # <<>>
  /\ FullPages(w.file.pages) /\ Writable(w.file, w.pos) =>
       IsPut(next.file, w.file, w.pos, w.left, n)

\* No file is without pages after one was put behind the others.
LEMMA AppendedHasPages ==
  ASSUME NEW file \in FileRecords, NEW page \in Seq(Byte)
  PROVE  Appended(file, page).pages # <<>>
<1>1. PICK pages \in Seq(Seq(Byte)) : pages = file.pages
  BY DEF FileRecords
<1>2. Append(pages, page) # <<>>
  BY AppendProperties
<1>3. QED BY <1>1, <1>2 DEF Appended

\* One turn of write_impl() leaves the pages sound, and writes no more than was left.
LEMMA ChunkIsWritten ==
  ASSUME NEW total \in Nat, NEW end \in Nat, NEW w \in WritesWithin(total, end)
  PROVE  /\ WriteChunk(w) \in WritesWithin(total, end)
         /\ Rests(w, WriteChunk(w)) \/ \E n \in Nat : GoesOn(w, WriteChunk(w), n)
<1> DEFINE i == GetPage(w.file.pages, w.pos)
           append == i = 0 \/ Full(w.file.pages[i])
           offset == IF append THEN 0 ELSE w.pos - SeenBefore(w.file.pages, i)
           old == IF append THEN <<>> ELSE w.file.pages[i]
           page == Overwrite(old, offset, w.left)
           n == Fitting(offset, w.left)
           left == SubSeq(w.left, n + 1, Len(w.left))
<1>1. /\ w.file \in FileRecords /\ PagesOK(w.file) /\ w.pos \in Nat /\ w.left \in Seq(Byte)
      /\ w.room \in Int /\ w.file.total_written + Len(w.left) <= total
      /\ w.pos + Len(w.left) <= end
      /\ w.file.pages \in Seq(Seq(Byte)) /\ w.file.total_written \in Nat /\ Len(w.left) \in Nat
  BY DEF WritesWithin, FileRecords
<1>2. PageSize \in Nat \ {0} /\ \A k \in DOMAIN w.file.pages : Len(w.file.pages[k]) \in 1..PageSize
  BY <1>1, PageFileAssumption DEF PagesOK
<1>3. CASE w.left = <<>> \/ w.room < 0
  BY <1>3 DEF WriteChunk, Rests
<1>4. CASE w.left # <<>> /\ w.room >= 0 /\ append /\ w.room = 0
  <2>1. WriteChunk(w) = [w EXCEPT !.room = -1]
    BY <1>1, <1>4 DEF WriteChunk
  <2>2. w \in [file : FileRecords, pos : Nat, left : Seq(Byte), room : Int]
    BY DEF WritesWithin
  <2>3. /\ WriteChunk(w) \in [file : FileRecords, pos : Nat, left : Seq(Byte), room : Int]
        /\ WriteChunk(w).room < 0
        /\ WriteChunk(w).file = w.file /\ WriteChunk(w).left = w.left /\ WriteChunk(w).pos = w.pos
    BY <2>1, <2>2
  <2>4. Rests(w, WriteChunk(w))
    BY <1>4, <2>3 DEF Rests
  <2>5. QED BY <1>1, <2>3, <2>4 DEF WritesWithin
<1>5. CASE w.left # <<>> /\ w.room >= 0 /\ ~append
  <2>1. i # 0 /\ ~Full(w.file.pages[i]) /\ old = w.file.pages[i]
        /\ offset = w.pos - SeenBefore(w.file.pages, i)
    BY <1>5
  <2>2. PICK size : AreSizes(size, w.file.pages)
    BY <1>1, PagesHaveSizes
  <2>3. i \in 1..Len(w.file.pages) /\ offset \in 0..(PageSize - 1) /\ offset <= Len(old)
    BY <1>1, <1>2, <2>1, <2>2, PageHolds
  <2>4. old \in Seq(Byte) /\ Len(old) \in 1..PageSize /\ Len(old) \in Nat /\ Len(old) <= PageSize
    <3> HIDE DEF i, old, offset, append
    <3>1. i \in DOMAIN w.file.pages /\ w.file.pages[i] \in Seq(Byte)
      BY <1>1, <2>3
    <3>2. Len(w.file.pages[i]) \in 1..PageSize
      BY <1>2, <3>1
    <3>3. old = w.file.pages[i]
      BY <2>1
    <3>4. QED BY <1>2, <3>1, <3>2, <3>3
  <2> HIDE DEF old, offset, n, i, append
  <2>5. /\ n \in 0..Len(w.left) /\ offset + n <= PageSize /\ page \in Seq(Byte)
        /\ Len(page) = IF offset + n <= Len(old) THEN Len(old) ELSE offset + n
    <3>1. w.left \in Seq(Byte)
      BY <1>1
    <3>2. QED BY <2>3, <2>4, <3>1, OverwriteLength DEF n
  <2>6. Len(page) \in 1..PageSize /\ Len(page) \in Nat /\ Len(page) <= Len(old) + n
    <3>1. offset \in Nat /\ n \in Nat
      BY <1>1, <1>2, <2>3, <2>5
    <3>2. CASE offset + n <= Len(old)
      <4>1. Len(page) = Len(old)
        BY <2>5, <3>2
      <4> HIDE DEF page
      <4>2. QED BY <2>4, <3>1, <4>1
    <3>3. CASE ~(offset + n <= Len(old))
      <4>1. Len(page) = offset + n
        BY <2>5, <3>3
      <4> HIDE DEF page
      <4>2. QED BY <1>2, <2>3, <2>4, <2>5, <3>1, <3>3, <4>1
    <3>4. QED BY <3>2, <3>3
  <2> HIDE DEF page
  <2>7. /\ Replaced(w.file, i, page) \in FileRecords /\ PagesOK(Replaced(w.file, i, page))
        /\ Replaced(w.file, i, page).total_written = w.file.total_written - Len(old) + Len(page)
    BY <1>1, <2>1, <2>3, <2>5, <2>6, ReplacedPage
  <2>8. left \in Seq(Byte) /\ Len(left) = Len(w.left) - n
    <3>1. /\ n + 1 \in Int /\ Len(w.left) \in Int /\ n \in Nat /\ n <= Len(w.left)
          /\ \A k \in (n + 1)..Len(w.left) : w.left[k] \in Byte
      BY <1>1, <2>5
    <3>2. /\ left \in Seq(Byte)
          /\ Len(left) = IF n + 1 <= Len(w.left) THEN Len(w.left) - (n + 1) + 1 ELSE 0
      BY <3>1, SubSeqProperties
    <3> HIDE DEF left
    <3>3. QED BY <3>1, <3>2
  <2> HIDE DEF left
  <2>9. WriteChunk(w) = Writing(Replaced(w.file, i, page), w.pos + n, left, w.room)
    BY <1>1, <1>5 DEF WriteChunk, old, offset, n, i, append, page, left
  <2>10. Writing(Replaced(w.file, i, page), w.pos + n, left, w.room) \in WritesWithin(total, end)
    <3>1. n \in Nat /\ w.pos + n \in Nat
      BY <1>1, <2>5
    <3>2. /\ Replaced(w.file, i, page).total_written + Len(left) <= total
          /\ w.pos + n + Len(left) <= end
      <4>1. \A t, a, b, l \in Nat : b <= a + n /\ t + l <= total => (t - a + b) + (l - n) <= total
        BY <3>1
      <4>2. w.pos + n + (Len(w.left) - n) = w.pos + Len(w.left)
        BY <1>1, <3>1
      <4>3. QED BY <1>1, <2>4, <2>6, <2>7, <2>8, <4>1, <4>2
    <3>3. QED BY <1>1, <2>7, <2>8, <3>1, <3>2 DEF WritesWithin, Writing
  <2>11. n # 0
    <3>1. Len(w.left) # 0
      BY <1>1, <1>5, EmptySeq
    <3>2. n = IF Len(w.left) < PageSize - offset THEN Len(w.left) ELSE PageSize - offset
      BY DEF n, Fitting
    <3>3. QED BY <1>1, <1>2, <2>3, <3>1, <3>2
  <2>12. \A k \in 1..Len(left) : left[k] = w.left[n + k]
    <3>1. n \in Nat /\ Len(w.left) \in Nat /\ w.left \in Seq(Byte) /\ Len(w.left) <= Len(w.left)
      BY <1>1, <2>5
    <3>2. \A k \in 1..(Len(w.left) - n) : SubSeq(w.left, n + 1, Len(w.left))[k] = w.left[n + k]
      BY <3>1, PartOf
    <3>3. QED BY <2>8, <3>2 DEF left
  <2>13. Replaced(w.file, i, page).pages # <<>>
    <3>1. Replaced(w.file, i, page).pages = [w.file.pages EXCEPT ![i] = page]
      BY DEF Replaced
    <3>2. i \in DOMAIN [w.file.pages EXCEPT ![i] = page]
      BY <1>1, <2>3
    <3>3. QED BY <3>1, <3>2, EmptySeq
  <2>14. FullPages(w.file.pages) /\ Writable(w.file, w.pos) =>
           IsPut(Replaced(w.file, i, page), w.file, w.pos, w.left, n)
    <3>1. SUFFICES ASSUME FullPages(w.file.pages), Writable(w.file, w.pos)
                   PROVE  IsPut(Replaced(w.file, i, page), w.file, w.pos, w.left, n)
      OBVIOUS
    <3>2. i # 0 /\ i = GetPage(w.file.pages, w.pos) /\ ~Full(w.file.pages[i])
      BY <2>1 DEF i
    <3>3. IsOverwritten(page, w.file.pages[i], w.pos - SeenBefore(w.file.pages, i), w.left)
      BY <2>1 DEF IsOverwritten, page
    <3>4. n = Fitting(w.pos - SeenBefore(w.file.pages, i), w.left)
      BY <2>1 DEF n
    <3>5. IsPut(Replaced(w.file, i, page), w.file, w.pos, w.left,
                Fitting(w.pos - SeenBefore(w.file.pages, i), w.left))
      BY <1>1, <2>7, <3>1, <3>2, <3>3, PutInPage
    <3>6. QED BY <3>4, <3>5
  <2>15. GoesOn(w, Writing(Replaced(w.file, i, page), w.pos + n, left, w.room), n)
    BY <1>1, <1>5, <2>5, <2>8, <2>11, <2>12, <2>13, <2>14, SMTT(30) DEF GoesOn, Writing
  <2>16. n \in Nat
    BY <1>1, <2>5
  <2>17. QED BY <2>9, <2>10, <2>15, <2>16
<1>6. CASE w.left # <<>> /\ append /\ w.room > 0
  <2>1. old = <<>> /\ offset = 0
    BY <1>6
  <2>2. <<>> \in Seq(Byte) /\ Len(<<>>) = 0 /\ 0 \in 0..(PageSize - 1) /\ Len(<<>>) <= PageSize
    BY <1>2
  <2> HIDE DEF old, offset, n, i, append
  <2>3. /\ n \in 0..Len(w.left) /\ offset + n <= PageSize /\ page \in Seq(Byte)
        /\ Len(page) = IF offset + n <= Len(old) THEN Len(old) ELSE offset + n
    <3>1. w.left \in Seq(Byte)
      BY <1>1
    <3>2. old \in Seq(Byte) /\ offset \in 0..(PageSize - 1) /\ offset <= Len(old) /\ Len(old) <= PageSize
      BY <2>1, <2>2
    <3>3. QED BY <3>1, <3>2, OverwriteLength DEF n
  <2>4. Len(w.left) # 0
    BY <1>1, <1>6
  <2>5. n \in 1..PageSize /\ Len(page) = n
    <3>1. n = IF Len(w.left) < PageSize THEN Len(w.left) ELSE PageSize
      BY <1>2, <2>1 DEF n, Fitting
    <3>2. n \in Nat /\ n # 0 /\ n <= PageSize
      BY <1>1, <1>2, <2>4, <3>1
    <3>3. ~(0 + n <= 0) /\ 0 + n = n
      BY <3>2
    <3>4. Len(page) = n
      BY <2>1, <2>2, <2>3, <3>3
    <3>5. QED BY <1>2, <3>2, <3>4
  <2> HIDE DEF page
  <2>6. /\ Appended(w.file, page) \in FileRecords /\ PagesOK(Appended(w.file, page))
        /\ Appended(w.file, page).total_written = w.file.total_written + Len(page)
    BY <1>1, <2>3, <2>5, AppendedPage
  <2>7. left \in Seq(Byte) /\ Len(left) = Len(w.left) - n
    <3>1. /\ n + 1 \in Int /\ Len(w.left) \in Int /\ n \in Nat /\ n <= Len(w.left)
          /\ \A k \in (n + 1)..Len(w.left) : w.left[k] \in Byte
      BY <1>1, <2>3
    <3>2. /\ left \in Seq(Byte)
          /\ Len(left) = IF n + 1 <= Len(w.left) THEN Len(w.left) - (n + 1) + 1 ELSE 0
      BY <3>1, SubSeqProperties
    <3> HIDE DEF left
    <3>3. QED BY <3>1, <3>2
  <2> HIDE DEF left
  <2>8. WriteChunk(w) = Writing(Appended(w.file, page), w.pos + n, left, w.room - 1)
    BY <1>1, <1>6 DEF WriteChunk, old, offset, n, i, append, page, left
  <2>9. Writing(Appended(w.file, page), w.pos + n, left, w.room - 1) \in WritesWithin(total, end)
    <3>1. n \in Nat /\ w.pos + n \in Nat /\ w.room - 1 \in Int
      BY <1>1, <2>3
    <3>2. /\ Appended(w.file, page).total_written + Len(left) <= total
          /\ w.pos + n + Len(left) <= end
      <4>1. n \in Nat
        BY <3>1
      <4> HIDE DEF page, left
      <4>2. \A t, l, u \in Nat : t + l <= total /\ u + l <= end =>
              (t + n) + (l - n) <= total /\ u + n + (l - n) <= end
        BY <4>1
      <4>3. (w.file.total_written + n) + (Len(w.left) - n) <= total
            /\ w.pos + n + (Len(w.left) - n) <= end
        BY <1>1, <4>2
      <4>4. Appended(w.file, page).total_written = w.file.total_written + n
        BY <2>5, <2>6
      <4>5. QED BY <2>7, <4>3, <4>4, Zenon
    <3>3. QED BY <1>1, <2>6, <2>7, <3>1, <3>2 DEF WritesWithin, Writing
  <2>10. \A k \in 1..Len(left) : left[k] = w.left[n + k]
    <3>1. n \in Nat /\ Len(w.left) \in Nat /\ w.left \in Seq(Byte) /\ Len(w.left) <= Len(w.left)
      BY <1>1, <2>3
    <3>2. \A k \in 1..(Len(w.left) - n) : SubSeq(w.left, n + 1, Len(w.left))[k] = w.left[n + k]
      BY <3>1, PartOf
    <3>3. QED BY <2>7, <3>2 DEF left
  <2>11. Appended(w.file, page).pages # <<>>
    <3>1. page \in Seq(Byte)
      BY <2>3
    <3> HIDE DEF page
    <3>2. QED BY <1>1, <3>1, AppendedHasPages
  <2>12. FullPages(w.file.pages) /\ Writable(w.file, w.pos) =>
           IsPut(Appended(w.file, page), w.file, w.pos, w.left, n)
    <3>1. SUFFICES ASSUME FullPages(w.file.pages), Writable(w.file, w.pos)
                   PROVE  IsPut(Appended(w.file, page), w.file, w.pos, w.left, n)
      OBVIOUS
    <3>2. GetPage(w.file.pages, w.pos) = 0 \/ Full(w.file.pages[GetPage(w.file.pages, w.pos)])
      BY <1>6 DEF append, i
    <3>3. IsOverwritten(page, <<>>, 0, w.left)
      BY <2>1 DEF IsOverwritten, page
    <3>4. n = Fitting(0, w.left)
      BY <2>1 DEF n
    <3>5. IsPut(Appended(w.file, page), w.file, w.pos, w.left, Fitting(0, w.left))
      BY <1>1, <2>6, <3>1, <3>2, <3>3, PutBehind
    <3>6. QED BY <3>4, <3>5
  <2>13. GoesOn(w, Writing(Appended(w.file, page), w.pos + n, left, w.room - 1), n)
    <3>1. PICK next : next = Writing(Appended(w.file, page), w.pos + n, left, w.room - 1)
      OBVIOUS
    <3>2. /\ next.file = Appended(w.file, page) /\ next.pos = w.pos + n
          /\ next.left = left /\ next.room = w.room - 1
      BY <3>1 DEF Writing
    <3>3. w.room >= 0 /\ ~(w.room - 1 < 0)
      BY <1>1, <1>6
    <3> HIDE DEF page, left, n
    <3>4. GoesOn(w, next, n)
      BY <2>5, <2>7, <2>10, <2>11, <2>12, <3>2, <3>3 DEF GoesOn
    <3>5. QED BY <3>1, <3>4
  <2>14. n \in Nat
    BY <1>1, <2>3
  <2>15. QED BY <2>8, <2>9, <2>13, <2>14
<1>7. QED BY <1>1, <1>3, <1>4, <1>5, <1>6

\* w has written bytes to file at pos, as far as its own position.
Written(w, file, pos, bytes) ==
  LET n == w.pos - pos
  IN /\ n \in 0..Len(bytes) /\ Len(w.left) = Len(bytes) - n
     /\ \A k \in 1..Len(w.left) : w.left[k] = bytes[n + k]
     /\ n = 0 => w.file = file
     /\ n # 0 => w.file.pages # <<>>
     /\ w.room < 0 => n < Len(bytes)
     /\ FullPages(file.pages) /\ Writable(file, pos) =>
          /\ FullPages(w.file.pages)
          /\ Puts(Concatenated(w.file.pages), Concatenated(file.pages), pos, bytes, n)
          /\ n < Len(bytes) => Writable(w.file, w.pos)

\* Before the first turn nothing is written.
LEMMA WriteStarts ==
  ASSUME NEW file \in FileRecords, PagesOK(file), NEW pos \in Nat, NEW bytes \in Seq(Byte),
         NEW room \in Nat
  PROVE  Written(Writing(file, pos, bytes, room), file, pos, bytes)
<1> DEFINE w == Writing(file, pos, bytes, room)
           T == Concatenated(file.pages)
<1>1. w.file = file /\ w.pos = pos /\ w.left = bytes /\ w.room = room
  BY DEF Writing
<1>2. pos - pos = 0 /\ Len(bytes) \in Nat /\ pos + 0 = pos
  OBVIOUS
<1>3. Writable(file, pos) => Puts(T, T, pos, bytes, 0)
  <2>1. SUFFICES ASSUME Writable(file, pos) PROVE Puts(T, T, pos, bytes, 0)
    OBVIOUS
  <2>2. Len(T) = file.total_written /\ file.total_written \in Nat
    BY DEF PagesOK, FileRecords
  <2>3. pos <= Len(T)
    BY <2>1, <2>2 DEF Writable
  <2> HIDE DEF T
  <2>4. Len(T) = IF pos + 0 > Len(T) THEN pos + 0 ELSE Len(T)
    BY <2>2, <2>3
  <2>5. \A k \in 1..Len(T) : k \notin (pos + 1)..(pos + 0)
    BY <1>2, <2>2
  <2>6. QED BY <2>4, <2>5 DEF Puts
<1> HIDE DEF w, T
<1>4. Written(w, file, pos, bytes)
  BY <1>1, <1>2, <1>3 DEF Written, T
<1>5. QED BY <1>4 DEF w

\* A turn that writes nothing.
LEMMA WriteRests ==
  ASSUME NEW file, NEW pos \in Nat, NEW bytes \in Seq(Byte),
         NEW w, NEW next, Written(w, file, pos, bytes), Rests(w, next),
         w.pos \in Nat, w.left \in Seq(Byte), w.room \in Int
  PROVE  Written(next, file, pos, bytes)
<1>1. next.file = w.file /\ next.pos = w.pos /\ next.left = w.left
  BY DEF Rests
<1>2. next.room < 0 => w.pos - pos < Len(bytes)
  <2>1. SUFFICES ASSUME next.room < 0 PROVE w.pos - pos < Len(bytes)
    OBVIOUS
  <2>2. CASE w.left = <<>>
    BY <2>1, <2>2 DEF Rests, Written
  <2>3. CASE w.left # <<>>
    <3>1. Len(w.left) # 0 /\ Len(w.left) \in Nat /\ Len(w.left) = Len(bytes) - (w.pos - pos)
      BY <2>3, EmptySeq DEF Written
    <3>2. QED BY <3>1
  <2>4. QED BY <2>2, <2>3
<1>3. QED BY <1>1, <1>2 DEF Written

\* Bytes that are put behind others are put with them.
LEMMA PutsTogether ==
  ASSUME NEW a, NEW b, NEW c, Len(a) \in Nat, NEW pos \in Nat, NEW bytes, NEW left,
         NEW n \in Nat, NEW m \in Nat, Puts(b, a, pos, bytes, n), Puts(c, b, pos + n, left, m),
         \A k \in 1..m : left[k] = bytes[n + k]
  PROVE  Puts(c, a, pos, bytes, n + m)
<1>1. /\ Len(b) = IF pos + n > Len(a) THEN pos + n ELSE Len(a)
      /\ \A k \in 1..Len(b) : b[k] = IF k \in (pos + 1)..(pos + n) THEN bytes[k - pos] ELSE a[k]
  BY DEF Puts
<1>2. /\ Len(c) = IF (pos + n) + m > Len(b) THEN (pos + n) + m ELSE Len(b)
      /\ \A k \in 1..Len(c) :
           c[k] = IF k \in ((pos + n) + 1)..((pos + n) + m) THEN left[k - (pos + n)] ELSE b[k]
  BY DEF Puts
<1> DEFINE x == Len(a)
           y == Len(b)
           z == Len(c)
<1>3. /\ x \in Nat /\ y = (IF pos + n > x THEN pos + n ELSE x)
      /\ z = (IF (pos + n) + m > y THEN (pos + n) + m ELSE y)
  BY <1>1, <1>2
<1> HIDE DEF x, y, z
<1>4. z = IF pos + (n + m) > x THEN pos + (n + m) ELSE x
  BY <1>3
<1>5. ASSUME NEW k \in 1..z
      PROVE  c[k] = IF k \in (pos + 1)..(pos + (n + m)) THEN bytes[k - pos] ELSE a[k]
  <2>1. CASE k \in ((pos + n) + 1)..((pos + n) + m)
    <3>1. c[k] = left[k - (pos + n)]
      BY <1>2, <2>1 DEF z
    <3>2. k - (pos + n) \in 1..m /\ n + (k - (pos + n)) = k - pos /\ k \in (pos + 1)..(pos + (n + m))
      BY <2>1
    <3>3. left[k - (pos + n)] = bytes[n + (k - (pos + n))]
      BY <3>2
    <3>4. QED BY <3>1, <3>2, <3>3
  <2>2. CASE k \notin ((pos + n) + 1)..((pos + n) + m)
    <3>1. c[k] = b[k]
      BY <1>2, <2>2 DEF z
    <3>2. k \in 1..y
      BY <1>3, <2>2
    <3>3. b[k] = IF k \in (pos + 1)..(pos + n) THEN bytes[k - pos] ELSE a[k]
      BY <1>1, <3>2 DEF y
    <3>4. k \in (pos + 1)..(pos + n) <=> k \in (pos + 1)..(pos + (n + m))
      BY <1>3, <2>2
    <3>5. QED BY <3>1, <3>3, <3>4
  <2>3. QED BY <2>1, <2>2
<1>6. QED BY <1>4, <1>5 DEF Puts, x, z

\* A turn that writes on.
LEMMA WriteGoesOn ==
  ASSUME NEW file \in FileRecords, PagesOK(file), NEW pos \in Nat, NEW bytes \in Seq(Byte),
         NEW w, NEW next, Written(w, file, pos, bytes), NEW m \in Nat, GoesOn(w, next, m),
         w.pos \in Nat, w.left \in Seq(Byte), w.room \in Int
  PROVE  Written(next, file, pos, bytes)
<1> DEFINE n == w.pos - pos
           l == Len(bytes)
<1>1. /\ n \in 0..l /\ Len(w.left) = l - n /\ l \in Nat /\ n \in Nat
      /\ \A k \in 1..Len(w.left) : w.left[k] = bytes[n + k]
      /\ FullPages(file.pages) /\ Writable(file, pos) =>
          /\ FullPages(w.file.pages)
          /\ Puts(Concatenated(w.file.pages), Concatenated(file.pages), pos, bytes, n)
          /\ n < l => Writable(w.file, w.pos)
      /\ w.pos = pos + n
  BY DEF Written
<1>2. /\ m \in 1..Len(w.left) /\ Len(next.left) = Len(w.left) - m
      /\ \A k \in 1..Len(next.left) : next.left[k] = w.left[m + k]
      /\ next.pos = w.pos + m /\ ~(next.room < 0)
      /\ next.file.pages # <<>>
      /\ FullPages(w.file.pages) /\ Writable(w.file, w.pos) =>
           IsPut(next.file, w.file, w.pos, w.left, m)
  BY DEF GoesOn
<1> HIDE DEF n, l
<1>3. /\ next.pos - pos = n + m /\ n + m \in 0..l /\ n + m # 0 /\ n < l
      /\ Len(next.left) = l - (n + m) /\ (m < Len(w.left) <=> n + m < l)
      /\ next.pos = pos + (n + m)
  BY <1>1, <1>2
<1>4. \A k \in 1..Len(next.left) : next.left[k] = bytes[(n + m) + k]
  <2>1. TAKE k \in 1..Len(next.left)
  <2>2. next.left[k] = w.left[m + k]
    BY <1>2
  <2>3. m + k \in 1..Len(w.left) /\ n + (m + k) = (n + m) + k
    <3> DEFINE a == Len(w.left)
               b == Len(next.left)
    <3>1. k \in 1..b /\ b = l - (n + m) /\ a = l - n /\ n \in Nat /\ m \in Nat /\ l \in Nat
      BY <1>1, <1>3
    <3> HIDE DEF a, b
    <3>2. m + k \in 1..a /\ n + (m + k) = (n + m) + k
      BY <3>1
    <3>3. QED BY <3>2 DEF a
  <2>4. w.left[m + k] = bytes[n + (m + k)]
    BY <1>1, <2>3
  <2>5. QED BY <2>2, <2>3, <2>4
<1>5. ASSUME FullPages(file.pages), Writable(file, pos)
      PROVE  /\ FullPages(next.file.pages)
             /\ Puts(Concatenated(next.file.pages), Concatenated(file.pages), pos, bytes, n + m)
             /\ n + m < l => Writable(next.file, next.pos)
  <2>1. /\ Puts(Concatenated(w.file.pages), Concatenated(file.pages), pos, bytes, n)
        /\ IsPut(next.file, w.file, w.pos, w.left, m)
    BY <1>1, <1>2, <1>3, <1>5
  <2>2. /\ FullPages(next.file.pages)
        /\ Puts(Concatenated(next.file.pages), Concatenated(w.file.pages), pos + n, w.left, m)
        /\ m < Len(w.left) => Writable(next.file, next.pos)
    BY <1>1, <1>2, <2>1 DEF IsPut
  <2>3. Len(Concatenated(file.pages)) \in Nat
    BY DEF PagesOK, FileRecords
  <2>4. \A k \in 1..m : w.left[k] = bytes[n + k]
    <3> DEFINE a == Len(w.left)
    <3>1. m \in 1..a /\ a = l - n /\ l \in Nat /\ n \in Nat
      BY <1>1, <1>2
    <3> HIDE DEF a, l, n
    <3>2. \A k \in 1..m : k \in 1..a
      BY <3>1
    <3>3. \A k \in 1..a : w.left[k] = bytes[n + k]
      BY <1>1 DEF a
    <3>4. QED BY <3>2, <3>3
  <2>5. Puts(Concatenated(next.file.pages), Concatenated(file.pages), pos, bytes, n + m)
    BY <1>1, <2>1, <2>2, <2>3, <2>4, PutsTogether
  <2>6. QED BY <1>3, <2>2, <2>5
<1>6. QED BY <1>2, <1>3, <1>4, <1>5 DEF Written, l

\* write_impl() as a whole.
LEMMA FileIsWritten ==
  ASSUME NEW file \in FileRecords, PagesOK(file), NEW pos \in Nat, NEW bytes \in Seq(Byte),
         NEW room \in Nat
  PROVE  LET w == WriteFile(file, pos, bytes, room)
         IN /\ w.file \in FileRecords /\ PagesOK(w.file)
            /\ w.file.total_written <= file.total_written + Len(bytes)
            /\ w.pos \in 0..(pos + Len(bytes)) /\ w.room \in Int
            /\ Written(w, file, pos, bytes) /\ (w.room >= 0 => w.pos = pos + Len(bytes))
<1> DEFINE total == file.total_written + Len(bytes)
           end == pos + Len(bytes)
           V == {w \in WritesWithin(total, end) : Written(w, file, pos, bytes)}
           n == Len(bytes)
           first == Writing(file, pos, bytes, room)
           step == [k \in 1..n |-> [w \in V |-> WriteChunk(w)]]
           F(f) == f = [k \in 0..n |-> IF k = 0 THEN first ELSE WriteChunk(f[k - 1])]
<1>1. n \in Nat /\ total \in Nat /\ end \in Nat /\ file.total_written \in Nat
  BY DEF FileRecords
<1>2. first \in V
  <2>1. first \in WritesWithin(total, end)
    BY <1>1 DEF Writing, WritesWithin
  <2>2. Written(first, file, pos, bytes)
    BY WriteStarts
  <2>3. QED BY <2>1, <2>2
<1>3. \A w \in V : WriteChunk(w) \in V /\ (Rests(w, WriteChunk(w)) \/ \E k \in Nat : GoesOn(w, WriteChunk(w), k))
  <2> HIDE DEF total, end, n
  <2>1. TAKE w \in V
  <2>2. w \in WritesWithin(total, end) /\ Written(w, file, pos, bytes)
    OBVIOUS
  <2>3. /\ WriteChunk(w) \in WritesWithin(total, end)
        /\ Rests(w, WriteChunk(w)) \/ \E k \in Nat : GoesOn(w, WriteChunk(w), k)
    BY <1>1, <2>2, ChunkIsWritten
  <2>4. w.pos \in Nat /\ w.left \in Seq(Byte) /\ w.room \in Int
    BY <2>2 DEF WritesWithin
  <2>5. Written(WriteChunk(w), file, pos, bytes)
    <3>1. CASE Rests(w, WriteChunk(w))
      BY <2>2, <2>4, <3>1, WriteRests
    <3>2. CASE \E k \in Nat : GoesOn(w, WriteChunk(w), k)
      <4>1. PICK k \in Nat : GoesOn(w, WriteChunk(w), k)
        BY <3>2
      <4>2. QED BY <2>2, <2>4, <4>1, WriteGoesOn
    <3>3. QED BY <2>3, <3>1, <3>2
  <2>6. QED BY <2>3, <2>5
<1>4. step \in [1..n -> [V -> V]]
  <2> HIDE DEF V, n
  <2>1. QED BY <1>3
<1>5. PICK f : Made(f, n, V, first, step)
  <2> HIDE DEF n, V, first, step
  <2>1. QED BY <1>1, <1>2, <1>4, Recursion
<1>6. /\ f \in [0..n -> V] /\ f[0] = first
      /\ \A k \in 1..n : f[k] = WriteChunk(f[k - 1])
  <2>1. \A k \in 1..n : k - 1 \in 0..n
    BY <1>1
  <2>2. f \in [0..n -> V] /\ f[0] = first /\ \A k \in 1..n : f[k] = step[k][f[k - 1]]
    <3> HIDE DEF n, V, first, step
    <3>1. QED BY <1>5 DEF Made
  <2> HIDE DEF n, V, first
  <2>3. QED BY <2>1, <2>2
<1>7. F(f)
  <2>1. \A k \in 0..n : k # 0 => k \in 1..n
    BY <1>1
  <2> HIDE DEF n, V, first, step
  <2>2. QED BY <1>6, <2>1
<1>8. PICK g : F(g) /\ WriteFile(file, pos, bytes, room) = g[n]
  BY <1>7 DEF WriteFile
<1>9. \A k \in 0..n : g[k] \in V
  <2> DEFINE R == {k \in 0..n : g[k] \in V}
  <2>1. 0 \in R
    <3> HIDE DEF V, n, first
    <3>1. QED BY <1>1, <1>2, <1>8
  <2>2. ASSUME NEW k \in 0..(n - 1), k \in R PROVE k + 1 \in R
    <3>1. k + 1 \in 0..n /\ k + 1 # 0 /\ (k + 1) - 1 = k
      BY <1>1
    <3> HIDE DEF V, n, first
    <3>2. QED BY <1>3, <1>8, <2>2, <3>1
  <2>3. 0..n \subseteq R
    <3> HIDE DEF R, n
    <3>1. QED BY <1>1, <2>1, <2>2, UpTo
  <2>4. QED BY <2>3
<1>10. g[n].room >= 0 => g[n].pos = pos + n
  <2> DEFINE T == {k \in 0..n : g[k].room < 0 \/ g[k].left = <<>> \/ g[k].pos >= pos + k}
  <2>1. 0 \in T
    <3>1. g[0].pos = pos /\ 0 \in 0..n
      <4>1. g[0] = first /\ 0 \in 0..n
        <5> HIDE DEF V, n, first
        <5>1. QED BY <1>1, <1>8
      <4>2. QED BY <4>1 DEF Writing
    <3> HIDE DEF V, n, first
    <3>2. QED BY <3>1
  <2>2. ASSUME NEW k \in 0..(n - 1), k \in T PROVE k + 1 \in T
    <3>1. k + 1 \in 0..n /\ k + 1 # 0 /\ (k + 1) - 1 = k /\ k \in 0..n /\ k \in Nat
      BY <1>1
    <3> DEFINE w == g[k]
               next == g[k + 1]
    <3>2. w \in V /\ next = WriteChunk(w)
      <4> HIDE DEF V, n, first
      <4>1. QED BY <1>8, <1>9, <3>1
    <3>3. w.pos \in Nat /\ w.left \in Seq(Byte) /\ w.room \in Int
      <4> HIDE DEF w
      <4>1. QED BY <3>2 DEF WritesWithin
    <3>4. Rests(w, next) \/ \E m \in Nat : GoesOn(w, next, m)
      <4> HIDE DEF V, w, next
      <4>1. QED BY <1>3, <3>2
    <3>5. w.room < 0 \/ w.left = <<>> \/ w.pos >= pos + k
      <4> HIDE DEF V, n, first
      <4>1. QED BY <2>2
    <3> HIDE DEF V, n, first, w, next
    <3>6. next.room < 0 \/ next.left = <<>> \/ next.pos >= pos + (k + 1)
      <4>1. CASE Rests(w, next)
        BY <4>1 DEF Rests
      <4>2. CASE \E m \in Nat : GoesOn(w, next, m)
        <5>1. PICK m \in Nat : GoesOn(w, next, m)
          BY <4>2
        <5>2. m \in 1..Len(w.left) /\ next.pos = w.pos + m /\ w.left # <<>> /\ w.room >= 0
          BY <3>3, <5>1, EmptySeq DEF GoesOn
        <5>3. w.pos >= pos + k
          BY <3>3, <3>5, <5>2
        <5>4. QED BY <3>1, <3>3, <5>2, <5>3
      <4>3. QED BY <3>4, <4>1, <4>2
    <3>7. QED BY <3>1, <3>6 DEF next
  <2>3. 0..n \subseteq T
    <3> HIDE DEF T, n
    <3>1. QED BY <1>1, <2>1, <2>2, UpTo
  <2>4. g[n].room < 0 \/ g[n].left = <<>> \/ g[n].pos >= pos + n
    <3>1. n \in 0..n
      BY <1>1
    <3>2. QED BY <2>3, <3>1
  <2>5. Written(g[n], file, pos, bytes) /\ g[n].room \in Int /\ g[n].pos \in Nat
    <3>1. g[n] \in WritesWithin(total, end) /\ Written(g[n], file, pos, bytes)
      BY <1>1, <1>9
    <3>2. QED BY <3>1 DEF WritesWithin
  <2>6. /\ g[n].pos - pos \in 0..Len(bytes)
        /\ Len(g[n].left) = Len(bytes) - (g[n].pos - pos)
    BY <2>5 DEF Written
  <2>7. g[n].left = <<>> => Len(g[n].left) = 0
    BY EmptySeq
  <2>8. n = Len(bytes)
    OBVIOUS
  <2> HIDE DEF n, V
  <2>9. QED BY <1>1, <2>4, <2>5, <2>6, <2>7, <2>8, SMTT(30)
<1> DEFINE w == WriteFile(file, pos, bytes, room)
<1>11. /\ w.file \in FileRecords /\ PagesOK(w.file) /\ w.pos \in Nat /\ Len(w.left) \in Nat
       /\ w.file.total_written \in Nat
       /\ w.file.total_written + Len(w.left) <= total /\ w.pos + Len(w.left) <= end
       /\ Written(w, file, pos, bytes) /\ (w.room >= 0 => w.pos = pos + n) /\ w.room \in Int
  <2>1. w \in V /\ (w.room >= 0 => w.pos = pos + n)
    <3> HIDE DEF V, n, first
    <3>1. QED BY <1>1, <1>8, <1>9, <1>10
  <2> HIDE DEF w, n, total, end
  <2>2. w \in WritesWithin(total, end) /\ Written(w, file, pos, bytes)
    BY <2>1
  <2>3. /\ w.file \in FileRecords /\ w.pos \in Nat /\ w.left \in Seq(Byte) /\ w.room \in Int
        /\ PagesOK(w.file) /\ w.file.total_written + Len(w.left) <= total
        /\ w.pos + Len(w.left) <= end
    BY <2>2 DEF WritesWithin
  <2>4. Len(w.left) \in Nat /\ w.file.total_written \in Nat
    BY <2>3, LenProperties DEF FileRecords
  <2>5. QED BY <2>1, <2>2, <2>3, <2>4
<1> HIDE DEF w, n, total, end
<1>12. w.file.total_written <= total /\ w.pos \in 0..end
  <2> DEFINE a == Len(w.left)
             b == w.file.total_written
             c == w.pos
  <2>1. a \in Nat /\ b \in Nat /\ c \in Nat /\ b + a <= total /\ c + a <= end
    BY <1>11
  <2> HIDE DEF a, b, c
  <2>2. b <= total /\ c \in 0..end
    BY <1>1, <2>1
  <2>3. QED BY <2>2 DEF b, c
<1>13. QED BY <1>11, <1>12 DEF w, n, total, end

\* Reads in progress, with a position that is not beyond the bound.
Reading == [pos : 0..MaxLength, bytes : Seq(Byte), wanted : Nat]

\* A turn of read_impl()'s loop gets bytes that follow in the file; when all pages but the
\* last are full it gets some unless the file is over.
Gets(file, r, next) ==
  \E got \in Seq(Byte) :
    /\ next = [pos |-> r.pos + Len(got), bytes |-> r.bytes \o got, wanted |-> r.wanted - Len(got)]
    /\ Len(got) <= r.wanted
    /\ \A k \in 1..Len(got) : got[k] = Concatenated(file.pages)[r.pos + k]
    /\ Len(got) > 0 => r.pos + Len(got) <= file.total_written
    /\ FullPages(file.pages) /\ r.pos < file.total_written /\ r.wanted > 0 => Len(got) > 0

\* One turn goes no further than the end of a page.
LEMMA ChunkIsRead ==
  ASSUME NEW file \in FileRecords, PagesOK(file), file.total_written <= MaxLength, NEW r \in Reading
  PROVE  ReadChunk(file.pages, r) \in Reading /\ Gets(file, r, ReadChunk(file.pages, r))
<1> DEFINE pages == file.pages
           i == GetPage(pages, r.pos)
           offset == r.pos - SeenBefore(pages, i)
           rest == SubSeq(pages[i], offset + 1, Len(pages[i]))
           got == IF Len(rest) < r.wanted THEN rest ELSE SubSeq(rest, 1, r.wanted)
<1>1. /\ pages \in Seq(Seq(Byte)) /\ r.pos \in 0..MaxLength /\ r.pos \in Nat /\ MaxLength \in Nat
      /\ r.bytes \in Seq(Byte) /\ r.wanted \in Nat /\ Len(pages) \in Nat
  BY FilesAssumption DEF FileRecords, Reading
<1>2. PageSize \in Nat \ {0} /\ \A k \in DOMAIN pages : Len(pages[k]) \in 1..PageSize
  BY PageFileAssumption DEF PagesOK
<1>3. CASE i = 0
  <2>1. ReadChunk(pages, r) = r
    BY <1>3 DEF ReadChunk
  <2>2. ~(FullPages(pages) /\ r.pos < file.total_written)
    <3>1. PICK size : AreSizes(size, pages)
      BY <1>1, PagesHaveSizes
    <3>2. file.total_written = size[Len(pages)]
      BY <1>1, <3>1, TextIsLong DEF PagesOK
    <3>3. QED
      <4> HIDE DEF pages
      <4>1. QED BY <1>1, <1>2, <1>3, <3>1, <3>2, PageBeforeEnd
  <2>3. /\ <<>> \in Seq(Byte) /\ Len(<<>>) = 0 /\ r.bytes \o <<>> = r.bytes
        /\ r = [pos |-> r.pos + 0, bytes |-> r.bytes, wanted |-> r.wanted - 0]
    <3>1. r.bytes \o <<>> = r.bytes
      BY <1>1, ConcatEmptySeq
    <3>2. r.pos + 0 = r.pos /\ r.wanted - 0 = r.wanted
      BY <1>1
    <3>3. r = [pos |-> r.pos, bytes |-> r.bytes, wanted |-> r.wanted]
      BY DEF Reading
    <3>4. QED BY <3>1, <3>2, <3>3
  <2>4. Gets(file, r, r)
    <3>1. /\ r = [pos |-> r.pos + Len(<<>>), bytes |-> r.bytes \o <<>>, wanted |-> r.wanted - Len(<<>>)]
          /\ Len(<<>>) <= r.wanted /\ \A k \in 1..Len(<<>>) : FALSE
          /\ ~(Len(<<>>) > 0)
      BY <1>1, <2>3
    <3>2. QED BY <2>2, <2>3, <3>1 DEF Gets
  <2>5. QED BY <2>1, <2>4
<1>4. CASE i # 0
  <2>1. PICK size : AreSizes(size, pages)
    BY <1>1, PagesHaveSizes
  <2> HIDE DEF pages
  <2>2. i \in 1..Len(pages) /\ offset \in 0..(PageSize - 1) /\ offset <= Len(pages[i])
    BY <1>1, <1>2, <1>4, <2>1, PageHolds
  <2> HIDE DEF i
  <2>3. pages[i] \in Seq(Byte) /\ Len(pages[i]) \in Nat
    BY <1>1, <2>2
  <2>4. r.pos = size[i - 1] + offset /\ size[i] = size[i - 1] + Len(pages[i])
        /\ size[i] \in Nat /\ size[i - 1] \in Nat
    <3>1. i - 1 \in 0..Len(pages) /\ i \in 0..Len(pages)
      BY <1>1, <2>2
    <3>2. SeenBefore(pages, i) = size[i - 1] /\ size[i - 1] \in Nat /\ size[i] \in Nat
          /\ size[i] = size[i - 1] + Len(pages[i])
      BY <1>1, <2>1, <2>2, <3>1, SeenIsSize DEF AreSizes
    <3>3. QED BY <1>1, <3>2
  <2>5. size[i] <= MaxLength
    <3>1. file.total_written = size[Len(pages)]
      BY <1>1, <2>1, TextIsLong DEF PagesOK, pages
    <3>2. size[i] <= size[Len(pages)] /\ size[Len(pages)] \in Nat
      <4>1. i \in 0..Len(pages) /\ Len(pages) \in i..Len(pages) /\ Len(pages) \in 0..Len(pages)
        BY <1>1, <2>2
      <4>2. QED BY <1>1, <2>1, <4>1, SizesGrow DEF AreSizes
    <3>3. QED BY <1>1, <2>4, <3>1, <3>2
  <2> HIDE DEF offset
  <2>6. offset \in Nat
    BY <1>2, <2>2
  <2>7. rest \in Seq(Byte) /\ Len(rest) = Len(pages[i]) - offset
    <3>1. offset + 1 \in Int /\ \A k \in (offset + 1)..Len(pages[i]) : pages[i][k] \in Byte
      BY <2>3, <2>6
    <3>2. /\ rest \in Seq(Byte)
          /\ Len(rest) = IF offset + 1 <= Len(pages[i]) THEN Len(pages[i]) - (offset + 1) + 1 ELSE 0
      BY <2>3, <3>1, SubSeqProperties
    <3> HIDE DEF rest
    <3>3. QED BY <2>2, <2>3, <2>6, <3>2
  <2> HIDE DEF rest
  <2>8. got \in Seq(Byte) /\ Len(got) <= Len(rest) /\ Len(got) <= r.wanted /\ Len(got) \in Nat
    <3>1. CASE Len(rest) < r.wanted
      BY <1>1, <2>7, <3>1
    <3>2. CASE ~(Len(rest) < r.wanted)
      <4>1. Len(rest) \in Nat
        BY <2>7
      <4>2. \A k \in 1..r.wanted : rest[k] \in Byte
        BY <1>1, <2>7, <3>2, <4>1
      <4>3. SubSeq(rest, 1, r.wanted) \in Seq(Byte)
            /\ Len(SubSeq(rest, 1, r.wanted)) = IF 1 <= r.wanted THEN r.wanted - 1 + 1 ELSE 0
        BY <1>1, <4>2, SubSeqProperties
      <4>4. got = SubSeq(rest, 1, r.wanted)
        BY <3>2
      <4> HIDE DEF got
      <4>5. Len(got) = r.wanted /\ got \in Seq(Byte)
        BY <1>1, <4>3, <4>4
      <4>6. QED BY <1>1, <3>2, <4>1, <4>5
    <3>3. QED BY <3>1, <3>2
  <2> HIDE DEF got
  <2>9. r.pos + Len(got) \in 0..MaxLength /\ r.wanted - Len(got) \in Nat
    <3> DEFINE l == Len(pages[i])
               m == Len(got)
    <3>1. /\ l \in Nat /\ m \in Nat /\ m <= l - offset /\ m <= r.wanted
          /\ size[i - 1] + l <= MaxLength /\ r.pos = size[i - 1] + offset
      BY <2>3, <2>4, <2>5, <2>7, <2>8
    <3>2. size[i - 1] \in Nat
      BY <2>4
    <3> HIDE DEF l, m
    <3>3. \A b, o, w \in Nat : m <= l - o /\ m <= w /\ b + l <= MaxLength =>
            b + o + m \in 0..MaxLength /\ w - m \in Nat
      BY <1>1, <3>1
    <3>4. size[i - 1] + offset + m \in 0..MaxLength /\ r.wanted - m \in Nat
      BY <1>1, <2>6, <3>1, <3>2, <3>3
    <3>5. r.pos + m \in 0..MaxLength /\ r.wanted - m \in Nat
      BY <3>1, <3>4
    <3>6. QED BY <3>5 DEF m
  <2>10. r.bytes \o got \in Seq(Byte)
    BY <1>1, <2>8, ConcatProperties
  <2>11. ReadChunk(pages, r)
           = [pos |-> r.pos + Len(got), bytes |-> r.bytes \o got, wanted |-> r.wanted - Len(got)]
    BY <1>4 DEF ReadChunk, got, rest, offset, i
  <2>12. ReadChunk(pages, r) \in Reading
    BY <2>9, <2>10, <2>11 DEF Reading
  <2> DEFINE text == Concatenated(pages)
  <2>13. \A k \in 1..Len(got) : got[k] = text[r.pos + k]
    <3>1. \A k \in 1..Len(rest) : rest[k] = pages[i][offset + k]
      <4>1. \A k \in 1..(Len(pages[i]) - offset) : SubSeq(pages[i], offset + 1, Len(pages[i]))[k] = pages[i][offset + k]
        BY <2>3, <2>6, PartOf
      <4>2. QED BY <2>7, <4>1 DEF rest
    <3>2. \A k \in 1..Len(got) : got[k] = rest[k]
      <4>1. CASE Len(rest) < r.wanted
        BY <4>1 DEF got
      <4>2. CASE ~(Len(rest) < r.wanted)
        <5>1. r.wanted <= Len(rest) /\ 0 + 1 = 1 /\ 0 <= r.wanted /\ r.wanted - 0 = r.wanted
              /\ \A k \in 1..r.wanted : 0 + k = k
          BY <1>1, <2>7, <4>2
        <5>2. /\ 0 <= r.wanted => Len(SubSeq(rest, 0 + 1, r.wanted)) = r.wanted - 0
              /\ \A k \in 1..(r.wanted - 0) : SubSeq(rest, 0 + 1, r.wanted)[k] = rest[0 + k]
          BY <1>1, <2>7, <5>1, PartOf
        <5>3. got = SubSeq(rest, 0 + 1, r.wanted)
          BY <4>2, <5>1 DEF got
        <5>4. QED BY <5>1, <5>2, <5>3
      <4>3. QED BY <4>1, <4>2
    <3>3. \A j \in 1..Len(pages[i]) : text[size[i - 1] + j] = pages[i][j]
      BY <1>1, <2>1, <2>2, TextIsLong
    <3>4. ASSUME NEW k \in 1..Len(got) PROVE got[k] = text[r.pos + k]
      <4>1. k \in 1..Len(rest) /\ offset + k \in 1..Len(pages[i])
            /\ size[i - 1] + (offset + k) = r.pos + k
        BY <2>3, <2>4, <2>6, <2>7, <2>8
      <4> HIDE DEF text
      <4>2. QED BY <3>1, <3>2, <3>3, <4>1
    <3>5. QED BY <3>4
  <2>14. file.total_written = size[Len(pages)] /\ size[i] <= file.total_written
         /\ file.total_written \in Nat
    <3>1. file.total_written = size[Len(pages)]
      BY <1>1, <2>1, TextIsLong DEF PagesOK, pages
    <3>2. i \in 0..Len(pages) /\ Len(pages) \in i..Len(pages) /\ Len(pages) \in 0..Len(pages)
      BY <1>1, <2>2
    <3>3. size[i] <= size[Len(pages)] /\ size[Len(pages)] \in Nat
      BY <1>1, <2>1, <3>2, SizesGrow DEF AreSizes
    <3>4. QED BY <3>1, <3>3
  <2>15. r.pos + Len(got) <= file.total_written
    <3> DEFINE m == Len(got)
               l == Len(pages[i])
    <3>1. m \in Nat /\ m <= l - offset /\ l \in Nat
      BY <2>3, <2>7, <2>8
    <3> HIDE DEF m, l
    <3>2. size[i] = size[i - 1] + l /\ r.pos = size[i - 1] + offset /\ size[i - 1] \in Nat
      BY <2>4 DEF l
    <3>3. r.pos + m <= file.total_written
      BY <2>6, <2>14, <3>1, <3>2
    <3>4. QED BY <3>3 DEF m
  <2>16. ASSUME FullPages(pages), r.pos < file.total_written, r.wanted > 0 PROVE Len(got) > 0
    <3>1. offset < Len(pages[i])
      BY <1>1, <1>2, <2>1, <2>14, <2>16, PageBeforeEnd DEF i, offset
    <3>2. Len(rest) > 0
      BY <2>3, <2>6, <2>7, <3>1
    <3>3. CASE Len(rest) < r.wanted
      BY <3>2, <3>3 DEF got
    <3>4. CASE ~(Len(rest) < r.wanted)
      <4>1. r.wanted <= Len(rest) /\ 0 + 1 = 1 /\ 0 <= r.wanted /\ r.wanted - 0 = r.wanted
        BY <1>1, <2>7, <3>4
      <4>2. 0 <= r.wanted => Len(SubSeq(rest, 0 + 1, r.wanted)) = r.wanted - 0
        BY <1>1, <2>7, <4>1, PartOf
      <4>3. got = SubSeq(rest, 0 + 1, r.wanted)
        BY <3>4, <4>1 DEF got
      <4>4. QED BY <2>16, <4>1, <4>2, <4>3
    <3>5. QED BY <3>3, <3>4
  <2>17. Gets(file, r, ReadChunk(pages, r))
    <3> HIDE DEF text
    <3>1. QED BY <2>8, <2>11, <2>13, <2>15, <2>16 DEF Gets, pages, text
  <2>18. QED BY <2>12, <2>17 DEF pages
<1>5. QED BY <1>3, <1>4

\* Reads in progress, in a file from a position: the bytes from there.
ReadsFrom(file, pos, wanted) ==
  {r \in Reading :
     /\ r.pos = pos + Len(r.bytes) /\ Len(r.bytes) + r.wanted = wanted
     /\ \A k \in 1..Len(r.bytes) : r.bytes[k] = Concatenated(file.pages)[pos + k]
     /\ Len(r.bytes) > 0 => r.pos <= file.total_written}

\* Each turn reads on; when all pages but the last are full, up to the end of the file.
LEMMA TurnReads ==
  ASSUME NEW file \in FileRecords, PagesOK(file), file.total_written <= MaxLength,
         NEW pos \in 0..MaxLength, NEW wanted \in Nat, NEW r \in ReadsFrom(file, pos, wanted)
  PROVE  LET next == ReadChunk(file.pages, r)
         IN /\ next \in ReadsFrom(file, pos, wanted) /\ Len(next.bytes) >= Len(r.bytes)
            /\ FullPages(file.pages) /\ r.pos < file.total_written /\ r.wanted > 0 =>
                 Len(next.bytes) > Len(r.bytes)
<1> DEFINE text == Concatenated(file.pages)
           next == ReadChunk(file.pages, r)
<1>1. /\ r \in Reading /\ r.bytes \in Seq(Byte) /\ r.wanted \in Nat /\ r.pos \in Nat
      /\ r.pos = pos + Len(r.bytes) /\ Len(r.bytes) + r.wanted = wanted
      /\ \A k \in 1..Len(r.bytes) : r.bytes[k] = text[pos + k]
      /\ Len(r.bytes) > 0 => r.pos <= file.total_written
      /\ pos \in Nat /\ Len(r.bytes) \in Nat
  BY FilesAssumption DEF ReadsFrom, Reading
<1>2. next \in Reading /\ Gets(file, r, next)
  BY <1>1, ChunkIsRead
<1>3. PICK got \in Seq(Byte) :
        /\ next = [pos |-> r.pos + Len(got), bytes |-> r.bytes \o got, wanted |-> r.wanted - Len(got)]
        /\ Len(got) <= r.wanted
        /\ \A k \in 1..Len(got) : got[k] = text[r.pos + k]
        /\ Len(got) > 0 => r.pos + Len(got) <= file.total_written
        /\ FullPages(file.pages) /\ r.pos < file.total_written /\ r.wanted > 0 => Len(got) > 0
  BY <1>2 DEF Gets
<1> HIDE DEF text, next
<1>4. /\ next.bytes = r.bytes \o got /\ next.pos = r.pos + Len(got) /\ next.wanted = r.wanted - Len(got)
      /\ Len(got) \in Nat
  BY <1>3
<1>5. /\ Len(next.bytes) = Len(r.bytes) + Len(got)
      /\ \A k \in 1..(Len(r.bytes) + Len(got)) :
           next.bytes[k] = IF k <= Len(r.bytes) THEN r.bytes[k] ELSE got[k - Len(r.bytes)]
  BY <1>1, <1>4, ConcatProperties
<1>6. ASSUME NEW k \in 1..Len(next.bytes) PROVE next.bytes[k] = text[pos + k]
  <2>1. CASE k <= Len(r.bytes)
    BY <1>1, <1>5, <2>1
  <2>2. CASE ~(k <= Len(r.bytes))
    <3>1. k - Len(r.bytes) \in 1..Len(got) /\ r.pos + (k - Len(r.bytes)) = pos + k
      <4> DEFINE a == Len(r.bytes)
                 b == Len(got)
      <4>1. /\ a \in Nat /\ b \in Nat /\ pos \in Nat /\ k \in 1..(a + b) /\ ~(k <= a)
            /\ r.pos = pos + a
        BY <1>1, <1>4, <1>5, <2>2
      <4> HIDE DEF a, b
      <4>2. k - a \in 1..b /\ r.pos + (k - a) = pos + k
        BY <4>1
      <4>3. QED BY <4>2 DEF a, b
    <3>2. QED BY <1>3, <1>5, <2>2, <3>1
  <2>3. QED BY <2>1, <2>2
<1>7. /\ next.pos = pos + Len(next.bytes) /\ Len(next.bytes) + next.wanted = wanted
      /\ Len(next.bytes) >= Len(r.bytes)
      /\ Len(got) > 0 => Len(next.bytes) > Len(r.bytes)
  <2> DEFINE a == Len(r.bytes)
             b == Len(got)
             c == Len(next.bytes)
  <2>1. /\ a \in Nat /\ b \in Nat /\ pos \in Nat /\ r.pos = pos + a /\ a + r.wanted = wanted
        /\ next.pos = r.pos + b /\ next.wanted = r.wanted - b /\ c = a + b /\ r.wanted \in Nat
    BY <1>1, <1>4, <1>5
  <2> HIDE DEF a, b, c
  <2>2. next.pos = pos + c /\ c + next.wanted = wanted /\ c >= a /\ (b > 0 => c > a)
    BY <2>1
  <2>3. QED BY <2>2 DEF a, b, c
<1>8. Len(next.bytes) > 0 => next.pos <= file.total_written
  <2>1. CASE Len(got) > 0
    BY <1>3, <1>4, <2>1
  <2>2. CASE ~(Len(got) > 0)
    <3>1. Len(got) = 0
      BY <1>4, <2>2
    <3>2. next.pos = r.pos /\ Len(next.bytes) = Len(r.bytes)
      BY <1>1, <1>4, <1>5, <3>1
    <3>3. QED BY <1>1, <3>2
  <2>3. QED BY <2>1, <2>2
<1>9. next \in ReadsFrom(file, pos, wanted)
  BY <1>2, <1>6, <1>7, <1>8 DEF ReadsFrom, text
<1>10. QED BY <1>3, <1>7, <1>9 DEF next

\* read_impl() as a whole: where all pages but the last are full, it reads what is there.
LEMMA FileIsRead ==
  ASSUME NEW file \in FileRecords, PagesOK(file), file.total_written <= MaxLength,
         NEW pos \in 0..MaxLength, NEW wanted \in Nat
  PROVE  LET r == ReadFile(file, pos, wanted)
             text == Concatenated(file.pages)
         IN /\ r.pos \in 0..MaxLength /\ r.bytes \in Seq(Byte)
            /\ r.pos = pos + Len(r.bytes) /\ Len(r.bytes) <= wanted
            /\ FullPages(file.pages) =>
                 r.bytes = SubSeq(text, pos + 1,
                                  IF pos + wanted < Len(text) THEN pos + wanted ELSE Len(text))
<1> DEFINE V == ReadsFrom(file, pos, wanted)
           first == [pos |-> pos, bytes |-> <<>>, wanted |-> wanted]
           step == [k \in 1..wanted |-> [r \in V |-> ReadChunk(file.pages, r)]]
           F(f) == f = [k \in 0..wanted |-> IF k = 0 THEN first ELSE ReadChunk(file.pages, f[k - 1])]
<1>1. first \in V
  <2>1. pos + 0 = pos /\ 0 + wanted = wanted /\ ~(0 > 0)
    BY FilesAssumption
  <2>2. first \in Reading /\ Len(<<>>) = 0
    BY DEF Reading
  <2>3. QED BY <2>1, <2>2 DEF ReadsFrom
<1>2. \A r \in V : ReadChunk(file.pages, r) \in V
  BY TurnReads
<1>3. step \in [1..wanted -> [V -> V]]
  <2> HIDE DEF V
  <2>1. QED BY <1>2
<1>4. PICK f : Made(f, wanted, V, first, step)
  <2> HIDE DEF first, step, V
  <2>1. QED BY <1>1, <1>3, Recursion
<1>5. /\ f \in [0..wanted -> V] /\ f[0] = first
      /\ \A k \in 1..wanted : f[k] = ReadChunk(file.pages, f[k - 1])
  <2>1. \A k \in 1..wanted : k - 1 \in 0..wanted
    OBVIOUS
  <2>2. f \in [0..wanted -> V] /\ f[0] = first /\ \A k \in 1..wanted : f[k] = step[k][f[k - 1]]
    <3> HIDE DEF first, step, V
    <3>1. QED BY <1>4 DEF Made
  <2> HIDE DEF first, V
  <2>3. QED BY <2>1, <2>2
<1>6. F(f)
  <2>1. \A k \in 0..wanted : k # 0 => k \in 1..wanted
    OBVIOUS
  <2> HIDE DEF first, step, V
  <2>2. QED BY <1>5, <2>1
<1>7. PICK g : F(g) /\ ReadFile(file, pos, wanted) = g[wanted]
  BY <1>6 DEF ReadFile
<1> DEFINE Far(k) == FullPages(file.pages) => Len(g[k].bytes) >= k \/ g[k].pos >= file.total_written
<1>8. g[wanted] \in V /\ Far(wanted)
  <2> DEFINE T == {k \in 0..wanted : g[k] \in V /\ Far(k)}
  <2>1. 0 \in T
    <3>1. g[0] = first
      <4> HIDE DEF first
      <4>1. QED BY <1>7
    <3>2. Len(first.bytes) >= 0
      OBVIOUS
    <3> HIDE DEF first, V
    <3>3. QED BY <1>1, <3>1, <3>2
  <2>2. ASSUME NEW k \in 0..(wanted - 1), k \in T PROVE k + 1 \in T
    <3>1. k + 1 \in 0..wanted /\ k + 1 # 0 /\ (k + 1) - 1 = k
      OBVIOUS
    <3>2. g[k + 1] = ReadChunk(file.pages, g[k])
      <4> HIDE DEF first
      <4>1. QED BY <1>7, <3>1
    <3>3. PICK r \in V : r = g[k] /\ Far(k)
      BY <2>2
    <3>4. PICK s : s = g[k + 1]
      OBVIOUS
    <3>5. /\ s \in V /\ Len(s.bytes) >= Len(r.bytes)
          /\ FullPages(file.pages) /\ r.pos < file.total_written /\ r.wanted > 0 =>
               Len(s.bytes) > Len(r.bytes)
      BY <3>2, <3>3, <3>4, TurnReads
    <3>6. /\ Len(r.bytes) \in Nat /\ Len(s.bytes) \in Nat /\ r.pos = pos + Len(r.bytes)
          /\ s.pos = pos + Len(s.bytes) /\ Len(r.bytes) + r.wanted = wanted /\ r.wanted \in Nat
          /\ pos \in Nat /\ file.total_written \in Nat
      <4>1. /\ r \in Reading /\ s \in Reading /\ r.pos = pos + Len(r.bytes)
            /\ s.pos = pos + Len(s.bytes) /\ Len(r.bytes) + r.wanted = wanted
        BY <3>3, <3>5 DEF ReadsFrom
      <4>2. r.bytes \in Seq(Byte) /\ s.bytes \in Seq(Byte) /\ r.wanted \in Nat
        BY <4>1 DEF Reading
      <4>3. Len(r.bytes) \in Nat /\ Len(s.bytes) \in Nat
        BY <4>2, LenProperties
      <4>4. pos \in Nat
        OBVIOUS
      <4>5. file.total_written \in Nat
        BY DEF FileRecords
      <4>6. QED BY <4>1, <4>2, <4>3, <4>4, <4>5
    <3>7. Far(k + 1)
      <4> SUFFICES ASSUME FullPages(file.pages)
                   PROVE  Len(s.bytes) >= k + 1 \/ s.pos >= file.total_written
        BY <3>4
      <4>1. CASE r.pos >= file.total_written
        BY <3>5, <3>6, <4>1
      <4>2. CASE r.pos < file.total_written
        <5>1. Len(r.bytes) >= k
          BY <3>3, <3>6, <4>2
        <5>2. CASE r.wanted > 0
          BY <3>5, <3>6, <4>2, <5>1, <5>2
        <5>3. CASE ~(r.wanted > 0)
          BY <3>5, <3>6, <5>3
        <5>4. QED BY <5>2, <5>3
      <4>3. QED BY <3>6, <4>1, <4>2
    <3> HIDE DEF V, Far
    <3>8. QED BY <3>1, <3>4, <3>5, <3>7
  <2>3. 0..wanted \subseteq T
    <3> HIDE DEF T
    <3>1. QED BY <2>1, <2>2, UpTo
  <2>4. QED BY <2>3
<1>9. PICK r \in V : r = g[wanted]
  BY <1>8
<1>10. PICK text : text = Concatenated(file.pages)
  OBVIOUS
<1>11. text \in Seq(Byte) /\ Len(text) = file.total_written /\ Len(text) \in Nat
  <2>1. file.pages \in Seq(Seq(Byte))
    BY DEF FileRecords
  <2>2. text \in Seq(Byte)
    BY <1>10, <2>1, PagesHaveSizes, TextIsLong
  <2>3. QED BY <1>10, <2>2 DEF PagesOK
<1>12. /\ r.pos \in 0..MaxLength /\ r.bytes \in Seq(Byte) /\ r.pos = pos + Len(r.bytes)
       /\ Len(r.bytes) + r.wanted = wanted /\ r.wanted \in Nat /\ Len(r.bytes) \in Nat
       /\ \A k \in 1..Len(r.bytes) : r.bytes[k] = text[pos + k]
       /\ Len(r.bytes) > 0 => r.pos <= Len(text)
       /\ pos \in Nat
  BY <1>10, <1>11, FilesAssumption DEF ReadsFrom, Reading
<1>13. ASSUME FullPages(file.pages)
       PROVE  r.bytes = SubSeq(text, pos + 1,
                               IF pos + wanted < Len(text) THEN pos + wanted ELSE Len(text))
  <2>1. Len(r.bytes) >= wanted \/ r.pos >= Len(text)
    BY <1>8, <1>9, <1>11, <1>13
  <2> DEFINE end == IF pos + wanted < Len(text) THEN pos + wanted ELSE Len(text)
             part == SubSeq(text, pos + 1, end)
             n == Len(r.bytes)
  <2>2. end \in Nat /\ end <= Len(text) /\ n \in Nat /\ (n > 0 => end = pos + n) /\ (n = 0 => end <= pos)
    <3> DEFINE l == Len(text)
    <3>1. /\ l \in Nat /\ n \in Nat /\ pos \in Nat /\ r.wanted \in Nat /\ n + r.wanted = wanted
          /\ r.pos = pos + n /\ (n > 0 => pos + n <= l) /\ (n >= wanted \/ pos + n >= l)
      BY <1>11, <1>12, <2>1
    <3>2. end = IF pos + wanted < l THEN pos + wanted ELSE l
      OBVIOUS
    <3> HIDE DEF l, n, end
    <3>3. end \in Nat /\ end <= l
      BY <3>1, <3>2
    <3>4. n > 0 => end = pos + n
      BY <3>1, <3>2
    <3>5. n = 0 => end <= pos
      BY <3>1, <3>2
    <3>6. QED BY <3>1, <3>3, <3>4, <3>5 DEF l
  <2> HIDE DEF end
  <2>3. /\ part \in Seq(Byte)
        /\ pos <= end => Len(part) = end - pos
        /\ end <= pos => part = <<>>
        /\ \A i \in 1..(end - pos) : part[i] = text[pos + i]
    BY <1>11, <1>12, <2>2, PartOf
  <2> HIDE DEF part
  <2>4. CASE n = 0
    <3>1. r.bytes = <<>>
      BY <1>12, <2>4, EmptySeq
    <3>2. QED BY <2>2, <2>3, <2>4, <3>1 DEF part, end
  <2>5. CASE n > 0
    <3>1. end - pos = n /\ pos <= end
      BY <1>12, <2>2, <2>5
    <3>2. Len(part) = n /\ \A i \in 1..n : part[i] = text[pos + i]
      BY <2>3, <3>1
    <3>3. \A i \in 1..n : part[i] = r.bytes[i]
      BY <1>12, <3>2
    <3> HIDE DEF n
    <3>4. r.bytes = part
      <4>1. Len(part) = Len(r.bytes) /\ \A i \in 1..Len(part) : part[i] = r.bytes[i]
        BY <3>2, <3>3 DEF n
      <4>2. QED BY <1>12, <2>3, <4>1, SeqEqual
    <3>5. QED BY <3>4 DEF part, end
  <2>6. QED BY <2>2, <2>4, <2>5
<1>14. Len(r.bytes) <= wanted
  BY <1>12
<1>15. ReadFile(file, pos, wanted) = r
  BY <1>7, <1>9
<1>16. QED BY <1>10, <1>12, <1>13, <1>14, <1>15
-----------------------------------------------------------------------------
(* Every step keeps the invariant *)

\* What a step must keep of the files, which FilesInv has among other types.
SoundFiles ==
  \A n \in Live : PagesOK(nodes[n].file) /\ nodes[n].file.total_written <= MaxLength

\* A new file has no pages.
LEMMA NewFileIsSound ==
  /\ NewPageFile \in FileRecords /\ PagesOK(NewPageFile)
  /\ NewPageFile.total_written <= MaxLength
<1>1. <<>> \in Seq(Seq(Byte)) /\ Len(<<>>) = 0 /\ DOMAIN <<>> = {}
  OBVIOUS
<1>2. PICK size : AreSizes(size, <<>>)
  BY <1>1, PagesHaveSizes
<1>3. Len(Concatenated(<<>>)) = 0
  BY <1>1, <1>2, TextIsLong DEF AreSizes
<1>4. QED BY <1>1, <1>3, FilesAssumption DEF NewPageFile, FileRecords, PagesOK

\* The program's own steps that change neither nodes nor open files.
LEMMA NothingChanges ==
  ASSUME FilesInv, UNCHANGED <<nodes, context_rc, open_files, next_file_id>>,
         cwd' \in [Process -> Seq(Component)], halted' \in {"no", "panic", "undefined"}
  PROVE  FilesInv'
<1>1. Live' = Live
  BY DEF Live
<1>2. TreeInv' /\ NoLoops'
  BY <1>1, SameTree DEF FilesInv
<1>3. OpenInv'
  <2>1. \A n : ContextsOf(n)' = ContextsOf(n)
    BY DEF ContextsOf, Ids
  <2>2. CountCoversContexts'
    BY <2>1 DEF FilesInv, OpenInv, CountCoversContexts
  <2>3. QED BY <1>1, <2>2 DEF FilesInv, OpenInv, Ids
<1>4. FileTypes'
  <2>1. AreContexts(open_files')
    BY DEF FilesInv, FileTypes, TypeOK
  <2>2. QED BY <1>1, <2>1 DEF FilesInv, FileTypes, TypeOK, PagesOK
<1>5. QED BY <1>2, <1>3, <1>4 DEF FilesInv

\* What is left to show of a step of which the parts are known.
LEMMA PartsMakeInv ==
  ASSUME nodes' \in [RamNode -> NodeRecord \cup {NULL}], SoundFiles', TreeInv', NoLoops',
         context_rc' \in [Node -> Nat], AreContexts(open_files'), OpenInv',
         next_file_id' \in [Process -> 0..MaxIds], cwd' \in [Process -> Seq(Component)],
         halted' \in {"no", "panic", "undefined"}
  PROVE  FilesInv'
<1>1. TypeOK'
  BY DEF TypeOK, SoundFiles
<1>2. FileTypes'
  BY <1>1 DEF FileTypes, SoundFiles
<1>3. QED BY <1>2 DEF FilesInv

\* Files stay sound if one node at most is new or written, and sound as well.
LEMMA OthersStaySound ==
  ASSUME FileTypes, NEW n, Live' \subseteq Live \cup {n},
         \A m \in Live \ {n} : nodes'[m].file = nodes[m].file,
         PagesOK(nodes'[n].file), nodes'[n].file.total_written <= MaxLength
  PROVE  SoundFiles'
<1>1. ASSUME NEW m \in Live'
      PROVE  PagesOK(nodes'[m].file) /\ nodes'[m].file.total_written <= MaxLength
  <2>1. CASE m = n
    BY <2>1
  <2>2. CASE m # n
    <3>1. m \in Live
      BY <1>1, <2>2
    <3>2. nodes'[m].file = nodes[m].file
      BY <2>2, <3>1
    <3>3. PagesOK(nodes[m].file) /\ nodes[m].file.total_written <= MaxLength
      BY <3>1 DEF FileTypes, TypeOK
    <3>4. QED BY <3>2, <3>3
  <2>3. QED BY <2>1, <2>2
<1>2. QED BY <1>1 DEF SoundFiles

\* Submanager.create()
LEMMA CreateKeeps ==
  ASSUME FilesInv, NEW p \in Process, NEW path \in Path, NEW kind \in {"file", "directory"},
         Create(p, path, kind)
  PROVE  FilesInv'
<1>1. TypeOK /\ TreeInv /\ NoLoops /\ OpenInv /\ FileTypes
  BY DEF FilesInv, FileTypes
<1>2. CreateError(p, path) = "none"
  BY DEF Create
<1>3. PICK n \in RamNode : Added(p, path, kind, n) /\ context_rc' = [context_rc EXCEPT ![n] = 0]
  BY DEF Create
<1>4. PICK d : d = Content(ResolveParent(p, path).node)
  OBVIOUS
<1>5. /\ open_files' = Outdated(d) /\ next_file_id' = next_file_id
      /\ cwd' = cwd /\ halted' = halted
  BY <1>4 DEF Create
<1>6. /\ n \notin Live /\ d \in Live /\ n # d
      /\ nodes' \in [RamNode -> NodeRecord \cup {NULL}]
      /\ Live' = Live \cup {n}
      /\ nodes'[n] = NewNode(kind, d)
      /\ nodes'[d] = [nodes[d] EXCEPT !.nodes = With(nodes[d].nodes, ChildName(p, path), n)]
      /\ \A m \in Live \ {d} : nodes'[m] = nodes[m]
  BY <1>1, <1>2, <1>3, <1>4, AddedNodes
<1>7. TreeInv' /\ NoLoops'
  BY <1>1, <1>2, <1>3, AddedKeepsTree
<1>8. AreContexts(open_files') /\ OpenInv' /\ context_rc' \in [Node -> Nat]
  BY <1>1, <1>3, <1>5, <1>6, CreateKeepsOpen
<1>9. SoundFiles'
  <2>1. nodes[d] \in NodeRecord
    BY <1>1, <1>6, LiveNode
  <2>2. \A m \in Live \ {n} : nodes'[m].file = nodes[m].file
    BY <1>6, <2>1 DEF NodeRecord
  <2>3. PagesOK(nodes'[n].file) /\ nodes'[n].file.total_written <= MaxLength
    BY <1>6, NewFileIsSound DEF NewNode
  <2>4. Live' \subseteq Live \cup {n}
    BY <1>6
  <2>5. QED BY <1>1, <2>2, <2>3, <2>4, OthersStaySound
<1>10. QED BY <1>1, <1>5, <1>6, <1>7, <1>8, <1>9, PartsMakeInv DEF TypeOK

\* Vnode.unlink()
LEMMA UnlinkKeeps ==
  ASSUME FilesInv, NEW p \in Process, NEW path \in Path, Unlink(p, path)
  PROVE  FilesInv'
<1>1. TypeOK /\ TreeInv /\ NoLoops /\ OpenInv /\ FileTypes
  BY DEF FilesInv, FileTypes
<1>2. PICK d : d = Content(ResolveParent(p, path).node)
  OBVIOUS
<1>3. PICK t : t = Target(p, path)
  OBVIOUS
<1>4. /\ nodes' \in [RamNode -> NodeRecord \cup {NULL}]
      /\ Live' = Live \ {t}
      /\ nodes'[d].file = nodes[d].file
      /\ \A m \in Live \ {d, t} : nodes'[m] = nodes[m]
  BY <1>1, <1>2, <1>3, UnlinkNodes
<1>5. TreeInv' /\ NoLoops'
  BY <1>1, UnlinkKeepsTree
<1>6. AreContexts(open_files') /\ OpenInv' /\ context_rc' \in [Node -> Nat]
  BY <1>1, UnlinkKeepsOpen
<1>7. next_file_id' = next_file_id /\ cwd' = cwd /\ halted' = halted
  BY DEF Unlink
<1>8. SoundFiles'
  BY <1>1, <1>4 DEF FileTypes, TypeOK, SoundFiles
<1>9. QED BY <1>1, <1>4, <1>5, <1>6, <1>7, <1>8, PartsMakeInv DEF TypeOK

\* Submanager.open() of what is there
LEMMA OpenKeeps ==
  ASSUME FilesInv, NEW p \in Process, NEW path \in Path, NEW mode \in Modes, Open(p, path, mode)
  PROVE  FilesInv'
<1>1. TypeOK /\ TreeInv /\ NoLoops /\ OpenInv /\ FileTypes
  BY DEF FilesInv, FileTypes
<1>2. PICK n : n = ToOpen(p, path, mode).node
  OBVIOUS
<1>3. n \in Live \cup Disk
  BY <1>1, <1>2, ResolvesLive DEF ToOpen
<1>4. /\ next_file_id[p] < MaxIds /\ Attach(p, n, context_rc[n], open_files)
      /\ UNCHANGED <<nodes, cwd, halted>>
  BY <1>2 DEF Open
<1>5. Live' = Live
  BY <1>4 DEF Live
<1>6. n \in Node /\ context_rc[n] \in Nat /\ context_rc[n] >= Cardinality(ContextsOf(n))
  <2>1. n \in Node
    BY <1>3 DEF Live, Node
  <2>2. QED BY <1>1, <2>1 DEF TypeOK, OpenInv, CountCoversContexts
<1>7. AreContexts(open_files) /\ SameContexts(open_files)
  BY <1>1 DEF TypeOK, SameContexts, Ids
<1>8. /\ AreContexts(open_files') /\ OpenInv'
      /\ context_rc' \in [Node -> Nat] /\ next_file_id' \in [Process -> 0..MaxIds]
  BY <1>1, <1>3, <1>4, <1>5, <1>6, <1>7, AttachKeeps
<1>9. TreeInv' /\ NoLoops'
  BY <1>1, <1>4, <1>5, SameTree
<1>10. SoundFiles'
  BY <1>1, <1>4, <1>5 DEF FileTypes, TypeOK, SoundFiles
<1>11. QED BY <1>1, <1>4, <1>8, <1>9, <1>10, PartsMakeInv DEF TypeOK

\* Submanager.open() of a file that it makes
LEMMA OpenNewKeeps ==
  ASSUME FilesInv, NEW p \in Process, NEW path \in Path, OpenNew(p, path)
  PROVE  FilesInv'
<1>1. TypeOK /\ TreeInv /\ NoLoops /\ OpenInv /\ FileTypes
  BY DEF FilesInv, FileTypes
<1>2. PICK d : d = Content(ResolveParent(p, path).node)
  OBVIOUS
<1>3. PICK n \in RamNode : Added(p, path, "file", n) /\ Attach(p, n, 0, Outdated(d))
  BY <1>2 DEF OpenNew
<1>4. CreateError(p, path) = "none" /\ next_file_id[p] < MaxIds /\ cwd' = cwd /\ halted' = halted
  BY DEF OpenNew
<1>5. /\ n \notin Live /\ d \in Live /\ n # d
      /\ nodes' \in [RamNode -> NodeRecord \cup {NULL}]
      /\ Live' = Live \cup {n}
      /\ nodes'[n] = NewNode("file", d)
      /\ nodes'[d] = [nodes[d] EXCEPT !.nodes = With(nodes[d].nodes, ChildName(p, path), n)]
      /\ \A m \in Live \ {d} : nodes'[m] = nodes[m]
  BY <1>1, <1>2, <1>3, <1>4, AddedNodes
<1>6. TreeInv' /\ NoLoops'
  BY <1>1, <1>3, <1>4, AddedKeepsTree
<1>7. AreContexts(Outdated(d)) /\ SameContexts(Outdated(d))
  BY <1>1, OutdatedKeeps
<1>8. Cardinality(ContextsOf(n)) = 0
  <2>1. ContextsOf(n) = {}
    BY <1>1, <1>3, <1>5, NoContexts
  <2>2. QED BY <2>1, FS_EmptySet
<1>9. /\ AreContexts(open_files') /\ OpenInv'
      /\ context_rc' \in [Node -> Nat] /\ next_file_id' \in [Process -> 0..MaxIds]
  <2>1. n \in Live' \cup Disk /\ Live \subseteq Live' /\ 0 \in Nat /\ 0 >= Cardinality(ContextsOf(n))
    BY <1>5, <1>8
  <2>2. QED BY <1>1, <1>3, <1>4, <1>7, <2>1, AttachKeeps
<1>10. SoundFiles'
  <2>1. nodes[d] \in NodeRecord
    BY <1>1, <1>5, LiveNode
  <2>2. \A m \in Live \ {n} : nodes'[m].file = nodes[m].file
    BY <1>5, <2>1 DEF NodeRecord
  <2>3. PagesOK(nodes'[n].file) /\ nodes'[n].file.total_written <= MaxLength
    BY <1>5, NewFileIsSound DEF NewNode
  <2>4. Live' \subseteq Live \cup {n}
    BY <1>5
  <2>5. QED BY <1>1, <2>2, <2>3, <2>4, OthersStaySound
<1>11. QED BY <1>1, <1>4, <1>5, <1>6, <1>9, <1>10, PartsMakeInv DEF TypeOK

\* A call on an open file that only moves it, in the file or in the listing.
LEMMA MovedKeeps ==
  ASSUME FilesInv, NEW p \in Process, NEW id \in Ids(p), NEW c \in ContextRecord,
         c.node = open_files[p][id].node, open_files' = [open_files EXCEPT ![p][id] = c],
         UNCHANGED <<nodes, context_rc, next_file_id, cwd, halted>>
  PROVE  FilesInv'
<1>1. TypeOK /\ TreeInv /\ NoLoops /\ OpenInv /\ FileTypes
  BY DEF FilesInv, FileTypes
<1>2. Live' = Live
  BY DEF Live
<1>3. AreContexts(open_files') /\ OpenInv'
  BY <1>1, <1>2, MovedContext
<1>4. TreeInv' /\ NoLoops'
  BY <1>1, <1>2, SameTree
<1>5. SoundFiles'
  BY <1>1, <1>2 DEF FileTypes, TypeOK, SoundFiles
<1>6. QED BY <1>1, <1>3, <1>4, <1>5, PartsMakeInv DEF TypeOK

\* What is known of a context that leads to a file.
LEMMA FileOfContext ==
  ASSUME FilesInv, NEW p \in Process, NEW id, OnFile(p, id)
  PROVE  /\ id \in Ids(p) /\ open_files[p][id] \in ContextRecord
         /\ open_files[p][id].pos \in 0..MaxLength
         /\ open_files[p][id].node \in Live
         /\ nodes[open_files[p][id].node] \in NodeRecord
         /\ nodes[open_files[p][id].node].file \in FileRecords
         /\ PagesOK(nodes[open_files[p][id].node].file)
         /\ nodes[open_files[p][id].node].file.total_written <= MaxLength
<1>1. TypeOK /\ OpenInv /\ FileTypes
  BY DEF FilesInv, FileTypes
<1>2. id \in Ids(p) /\ open_files[p][id].node # NULL /\ open_files[p][id].node \notin Disk
  BY DEF OnFile, Usable, IsDirectory
<1>3. open_files[p][id] \in ContextRecord /\ open_files[p][id].pos \in 0..MaxLength
  BY <1>1, <1>2, OpenContext
<1>4. PICK n : n = open_files[p][id].node
  OBVIOUS
<1>5. n \in Live
  BY <1>1, <1>2, <1>4 DEF OpenInv
<1>6. nodes[n] \in NodeRecord
  BY <1>1, <1>5, LiveNode
<1>7. nodes[n].file \in FileRecords
  BY <1>6 DEF NodeRecord, FileRecords
<1>8. PagesOK(nodes[n].file) /\ nodes[n].file.total_written <= MaxLength
  BY <1>1, <1>5 DEF FileTypes, TypeOK
<1>9. QED BY <1>2, <1>3, <1>4, <1>5, <1>6, <1>7, <1>8

\* Submanager.read()
LEMMA ReadKeeps ==
  ASSUME FilesInv, NEW p \in Process, NEW id, NEW wanted \in Lengths, Read(p, id, wanted)
  PROVE  FilesInv'
<1> DEFINE old == open_files[p][id]
           pos == ReadFile(nodes[old.node].file, old.pos, wanted).pos
           c == [old EXCEPT !.pos = pos]
<1>1. /\ open_files' = [open_files EXCEPT ![p][id].pos = pos]
      /\ UNCHANGED <<nodes, context_rc, next_file_id, cwd, halted>>
  BY DEF Read, treeVars
<1>2. /\ id \in Ids(p) /\ old \in ContextRecord /\ old.pos \in 0..MaxLength
      /\ nodes[old.node].file \in FileRecords /\ PagesOK(nodes[old.node].file)
      /\ nodes[old.node].file.total_written <= MaxLength
  BY FileOfContext DEF Read
<1>3. pos \in 0..MaxLength
  BY <1>2, FileIsRead, FilesAssumption
<1> HIDE DEF pos
<1>4. c \in ContextRecord /\ c.node = old.node
  BY <1>2, <1>3 DEF ContextRecord
<1>5. open_files' = [open_files EXCEPT ![p][id] = c]
  BY <1>1
<1> HIDE DEF c
<1>6. QED BY <1>1, <1>2, <1>4, <1>5, MovedKeeps

\* Submanager.seek()
LEMMA SeekKeeps ==
  ASSUME FilesInv, NEW p \in Process, NEW id, NEW offset, NEW from, Seek(p, id, offset, from)
  PROVE  FilesInv'
<1> DEFINE old == open_files[p][id]
           pos == SeekFile(nodes[old.node].file, old.pos, offset, from)
           c == [old EXCEPT !.pos = pos]
<1>1. /\ open_files' = [open_files EXCEPT ![p][id].pos = pos] /\ pos \in 0..MaxLength
      /\ UNCHANGED <<nodes, context_rc, next_file_id, cwd, halted>>
  BY DEF Seek, treeVars
<1>2. id \in Ids(p) /\ old \in ContextRecord
  BY FileOfContext DEF Seek
<1> HIDE DEF pos
<1>3. c \in ContextRecord /\ c.node = old.node
  BY <1>1, <1>2 DEF ContextRecord
<1>4. open_files' = [open_files EXCEPT ![p][id] = c]
  BY <1>1
<1> HIDE DEF c
<1>5. QED BY <1>1, <1>2, <1>3, <1>4, MovedKeeps

\* Reading a directory
LEMMA ListKeeps ==
  ASSUME FilesInv, NEW p \in Process, NEW id, List(p, id)
  PROVE  FilesInv'
<1> DEFINE old == open_files[p][id]
           c == [old EXCEPT !.listing = "fresh"]
<1>1. /\ open_files' = [open_files EXCEPT ![p][id].listing = "fresh"]
      /\ UNCHANGED <<nodes, context_rc, next_file_id, cwd, halted>>
      /\ id \in Ids(p)
  BY DEF List, treeVars, OnDirectory, Usable
<1>2. old \in ContextRecord
  BY <1>1, OpenContext DEF FilesInv, FileTypes
<1>3. c \in ContextRecord /\ c.node = old.node
  BY <1>2 DEF ContextRecord
<1>4. open_files' = [open_files EXCEPT ![p][id] = c]
  BY <1>1
<1> HIDE DEF c
<1>5. QED BY <1>1, <1>3, <1>4, MovedKeeps, ZenonT(40)

\* Submanager.close()
LEMMA CloseKeepsInv ==
  ASSUME FilesInv, NEW p \in Process, NEW id, Close(p, id)
  PROVE  FilesInv'
<1>1. TypeOK /\ TreeInv /\ NoLoops /\ OpenInv /\ FileTypes
  BY DEF FilesInv, FileTypes
<1>2. UNCHANGED <<nodes, next_file_id, cwd, halted>>
  BY DEF Close
<1>3. Live' = Live
  BY <1>2 DEF Live
<1>4. AreContexts(open_files') /\ OpenInv' /\ context_rc' \in [Node -> Nat]
  BY <1>1, CloseKeeps
<1>5. TreeInv' /\ NoLoops'
  BY <1>1, <1>2, <1>3, SameTree
<1>6. SoundFiles'
  BY <1>1, <1>2, <1>3 DEF FileTypes, TypeOK, SoundFiles
<1>7. QED BY <1>1, <1>2, <1>4, <1>5, <1>6, PartsMakeInv DEF TypeOK

\* Submanager.write()
LEMMA WriteKeeps ==
  ASSUME FilesInv, NEW p \in Process, NEW id, NEW bytes \in Data, Write(p, id, bytes)
  PROVE  FilesInv'
<1> DEFINE old == open_files[p][id]
           file == nodes[old.node].file
<1>1. TypeOK /\ TreeInv /\ NoLoops /\ OpenInv /\ FileTypes
  BY DEF FilesInv, FileTypes
<1>2. /\ id \in Ids(p) /\ old \in ContextRecord /\ old.pos \in 0..MaxLength /\ old.node \in Live
      /\ nodes[old.node] \in NodeRecord /\ file \in FileRecords /\ PagesOK(file)
      /\ file.total_written <= MaxLength
  BY FileOfContext DEF Write
<1>3. PICK room \in 0..Len(bytes) :
        LET w == WriteFile(file, old.pos, bytes, room)
        IN /\ nodes' = [nodes EXCEPT ![old.node].file = w.file]
           /\ open_files' = [open_files EXCEPT ![p][id].pos = w.pos]
  BY DEF Write
<1>4. /\ old.pos + Len(bytes) <= MaxLength /\ file.total_written + Len(bytes) <= MaxLength
      /\ UNCHANGED <<context_rc, next_file_id, cwd, halted>>
  BY DEF Write
<1>5. PICK w : w = WriteFile(file, old.pos, bytes, room)
  OBVIOUS
<1>6. PICK n : n = old.node
  OBVIOUS
<1>7. bytes \in Seq(Byte) /\ Len(bytes) \in Nat /\ room \in Nat /\ old.pos \in Nat /\ MaxLength \in Nat
      /\ file.total_written \in Nat
  BY <1>2, FilesAssumption DEF FileRecords
<1>8. /\ w.file \in FileRecords /\ PagesOK(w.file)
      /\ w.file.total_written <= file.total_written + Len(bytes)
      /\ w.pos \in 0..(old.pos + Len(bytes))
  <2> HIDE DEF file, old
  <2>1. QED BY <1>2, <1>5, <1>7, FileIsWritten DEF old
<1>9. w.pos \in 0..MaxLength /\ w.file.total_written <= MaxLength
  <2>1. w.file.total_written \in Nat
    BY <1>8 DEF FileRecords
  <2> HIDE DEF file, old
  <2>2. QED BY <1>4, <1>7, <1>8, <2>1
<1>10. /\ nodes' = [nodes EXCEPT ![n] = [nodes[n] EXCEPT !.file = w.file]] /\ n \in Live
       /\ open_files' = [open_files EXCEPT ![p][id].pos = w.pos]
  BY <1>2, <1>3, <1>5, <1>6
<1>11. PICK node : node = [nodes[n] EXCEPT !.file = w.file]
  OBVIOUS
<1>12. /\ node \in NodeRecord /\ node # NULL /\ node.file = w.file /\ node.kind = nodes[n].kind
       /\ node.parent = nodes[n].parent /\ node.nodes = nodes[n].nodes
  <2>1. node \in NodeRecord
    BY <1>2, <1>6, <1>8, <1>11 DEF NodeRecord, FileRecords
  <2>2. node # NULL
    BY <2>1, FilesAssumption
  <2>3. QED BY <1>2, <1>6, <1>11, <2>1, <2>2 DEF NodeRecord
<1>13. /\ nodes' \in [RamNode -> NodeRecord \cup {NULL}] /\ nodes'[n] = node
       /\ \A m \in RamNode \ {n} : nodes'[m] = nodes[m]
  BY <1>1, <1>10, <1>11, <1>12 DEF TypeOK, Live
<1>14. Live' = Live
  BY <1>10, <1>12, <1>13 DEF Live
<1>15. TreeInv' /\ NoLoops'
  <2>1. \A m \in Live : /\ nodes'[m].kind = nodes[m].kind
                        /\ nodes'[m].parent = nodes[m].parent
                        /\ nodes'[m].nodes = nodes[m].nodes
    BY <1>12, <1>13 DEF Live
  <2>2. QED BY <1>1, <1>14, <2>1, SameTree
<1>16. SoundFiles'
  <2>1. \A m \in Live \ {n} : nodes'[m].file = nodes[m].file
    BY <1>13 DEF Live
  <2>2. QED BY <1>1, <1>8, <1>9, <1>12, <1>13, <1>14, <2>1, OthersStaySound
<1>17. AreContexts(open_files') /\ OpenInv'
  <2> DEFINE c == [old EXCEPT !.pos = w.pos]
  <2>1. c \in ContextRecord /\ c.node = old.node
    BY <1>2, <1>9 DEF ContextRecord
  <2>2. open_files' = [open_files EXCEPT ![p][id] = c]
    BY <1>10
  <2> HIDE DEF c
  <2>3. QED BY <1>1, <1>2, <1>4, <1>14, <2>1, <2>2, MovedContext
<1>18. QED BY <1>1, <1>4, <1>13, <1>15, <1>16, <1>17, PartsMakeInv DEF TypeOK
-----------------------------------------------------------------------------
(* The theorems *)

\* RamDisk.init() makes a tree of its root alone, and nothing is open.
LEMMA InitMakesInv == Init => FilesInv
<1> SUFFICES ASSUME Init PROVE FilesInv
  OBVIOUS
<1>1. RamRoot \in RamNode /\ NULL \notin NodeRecord /\ MaxLength \in Nat /\ MaxIds \in Nat
  BY FilesAssumption
<1>2. NewNode("directory", RamRoot) \in NodeRecord
  <2>1. <<>> \in [{} -> RamNode] /\ {} \in SUBSET Component
    OBVIOUS
  <2>2. <<>> \in UNION {[names -> RamNode] : names \in SUBSET Component}
    BY <2>1
  <2>3. QED BY <1>1, <2>2, NewFileIsSound DEF NewNode, NodeRecord, FileRecords
<1>3. /\ nodes \in [RamNode -> NodeRecord \cup {NULL}] /\ Live = {RamRoot}
      /\ nodes[RamRoot] = NewNode("directory", RamRoot)
  <2>1. NewNode("directory", RamRoot) # NULL
    BY <1>1, <1>2
  <2>2. QED BY <1>1, <1>2, <2>1 DEF Init, Live
<1>4. SoundFiles
  BY <1>3, NewFileIsSound DEF SoundFiles, NewNode
<1>5. TreeInv /\ NoLoops
  BY <1>1, <1>3 DEF TreeInv, NoLoops, NewNode
<1>6. AreContexts(open_files)
  <2>1. \A q \in Process : DOMAIN open_files[q] = {} /\ open_files[q] \in [{} -> ContextRecord]
    BY DEF Init
  <2>2. open_files = [q \in Process |-> open_files[q]]
    BY DEF Init
  <2>3. QED BY <2>1, <2>2 DEF AreContexts
<1>7. OpenInv
  <2>1. \A n : ContextsOf(n) = {}
    BY DEF Init, ContextsOf, Ids
  <2>2. \A n \in Node : context_rc[n] >= Cardinality(ContextsOf(n))
    BY <2>1, FS_EmptySet DEF Init
  <2>3. \A q \in Process : Ids(q) = {}
    BY DEF Init, Ids
  <2>4. QED BY <2>2, <2>3 DEF OpenInv, CountCoversContexts
<1>8. TypeOK
  BY <1>1, <1>3, <1>4, <1>6 DEF TypeOK, SoundFiles, Init
<1>9. QED BY <1>4, <1>5, <1>7, <1>8 DEF FilesInv, FileTypes, SoundFiles

\* A call on a path keeps the invariant.
LEMMA OnPathKeeps ==
  ASSUME FilesInv, NEW p \in Process, NEW path \in Path, OnPath(p, path)
  PROVE  FilesInv'
<1>1. TypeOK /\ TreeInv /\ cwd \in [Process -> Seq(Component)] /\ halted \in {"no", "panic", "undefined"}
  BY DEF FilesInv, FileTypes, TypeOK
<1>2. ASSUME NEW kind \in {"file", "directory"}, Create(p, path, kind) PROVE FilesInv'
  BY <1>2, CreateKeeps
<1>3. ASSUME CreateFails(p, path) \/ UnlinkFails(p, path) PROVE FilesInv'
  BY <1>1, <1>3, NothingChanges DEF CreateFails, UnlinkFails, treeVars, openVars
<1>4. CASE Unlink(p, path)
  BY <1>4, UnlinkKeeps
<1>5. CASE UnlinkPanics(p, path)
  BY <1>1, <1>5, NothingChanges DEF UnlinkPanics, Halt, treeVars, openVars
<1>6. CASE OpenNew(p, path)
  BY <1>6, OpenNewKeeps
<1>7. ASSUME NEW mode \in Modes, Open(p, path, mode) PROVE FilesInv'
  BY <1>7, OpenKeeps
<1>8. ASSUME NEW mode \in Modes, OpenFails(p, path, mode) PROVE FilesInv'
  BY <1>1, <1>8, NothingChanges DEF OpenFails, Refuse, treeVars, openVars
<1>9. CASE SetCwd(p, path)
  <2>1. ResolveDirectory(p, path).canonical \in Seq(Component)
    BY <1>1, ResolvesLive
  <2>2. /\ cwd' = [cwd EXCEPT ![p] = ResolveDirectory(p, path).canonical]
        /\ UNCHANGED <<nodes, context_rc, open_files, next_file_id, halted>>
    BY <1>9 DEF SetCwd, treeVars, openVars
  <2>3. cwd' \in [Process -> Seq(Component)]
    BY <1>1, <2>1, <2>2
  <2>4. QED BY <1>1, <2>2, <2>3, NothingChanges
<1>10. CASE SetCwdFails(p, path)
  BY <1>1, <1>10, NothingChanges DEF SetCwdFails, Refuse, treeVars, openVars
<1>11. QED BY <1>2, <1>3, <1>4, <1>5, <1>6, <1>7, <1>8, <1>9, <1>10, Zenon DEF OnPath

\* A call on an id keeps the invariant.
LEMMA OnIdKeeps ==
  ASSUME FilesInv, NEW p \in Process, NEW id, OnId(p, id)
  PROVE  FilesInv'
<1>1. cwd \in [Process -> Seq(Component)] /\ halted \in {"no", "panic", "undefined"}
  BY DEF FilesInv, FileTypes, TypeOK
<1>2. ASSUME InvalidId(p, id) \/ NotOnDirectory(p, id) PROVE FilesInv'
  BY <1>1, <1>2, NothingChanges DEF InvalidId, NotOnDirectory, Refuse, treeVars, openVars
<1>3. ASSUME UseFreed(p, id) \/ ListStale(p, id) PROVE FilesInv'
  BY <1>1, <1>3, NothingChanges DEF UseFreed, ListStale, Halt, treeVars, openVars
<1>4. CASE Close(p, id)
  BY <1>4, CloseKeepsInv
<1>5. ASSUME NEW wanted \in Lengths, Read(p, id, wanted) PROVE FilesInv'
  BY <1>5, ReadKeeps
<1>6. ASSUME NEW bytes \in Data, Write(p, id, bytes) PROVE FilesInv'
  BY <1>6, WriteKeeps
<1>7. ASSUME NEW offset, NEW from, Seek(p, id, offset, from) PROVE FilesInv'
  BY <1>7, SeekKeeps
<1>8. ASSUME NEW offset, NEW from, SeekFails(p, id, offset, from) PROVE FilesInv'
  BY <1>1, <1>8, NothingChanges DEF SeekFails, Refuse, treeVars, openVars
<1>9. CASE List(p, id)
  BY <1>9, ListKeeps
<1>10. QED BY <1>2, <1>3, <1>4, <1>5, <1>6, <1>7, <1>8, <1>9, Zenon DEF OnId

\* Every step of the file system keeps the invariant.
LEMMA StepKeepsInv == FilesInv /\ [Next]_vars => FilesInv'
<1> SUFFICES ASSUME FilesInv, [Next]_vars PROVE FilesInv'
  OBVIOUS
<1>1. CASE Next
  <2>1. PICK p \in Process : (\E path \in Path : OnPath(p, path)) \/ (\E id \in 0..MaxIds : OnId(p, id))
    BY <1>1 DEF Next
  <2>2. QED BY <2>1, OnPathKeeps, OnIdKeeps
<1>2. CASE UNCHANGED vars
  <2>1. cwd' \in [Process -> Seq(Component)] /\ halted' \in {"no", "panic", "undefined"}
    BY <1>2 DEF vars, FilesInv, FileTypes, TypeOK
  <2>2. UNCHANGED <<nodes, context_rc, open_files, next_file_id>>
    BY <1>2 DEF vars, treeVars, openVars
  <2>3. QED BY <2>1, <2>2, NothingChanges
<1>3. QED BY <1>1, <1>2

\* The invariant holds in every state that calls can reach.
LEMMA FilesInvHolds == Spec => []FilesInv
<1>1. QED BY InitMakesInv, StepKeepsInv, PTL DEF Spec

\* Directories name what is in them, so that each node is found in one place.
LEMMA InvMakesTree == FilesInv => TreeIsSound
<1> SUFFICES ASSUME FilesInv PROVE TreeIsSound
  OBVIOUS
<1>1. TypeOK /\ TreeInv /\ NoLoops
  BY DEF FilesInv, FileTypes
<1>2. ASSUME NEW n \in Live \ {RamRoot}
      PROVE  nodes[n].parent \in Live /\ \E x \in Component : Entries(n) = {<<nodes[n].parent, x>>}
  <2>1. PICK d : d = nodes[n].parent
    OBVIOUS
  <2>2. d \in Live
    BY <1>1, <2>1 DEF TreeInv
  <2>3. PICK x \in DOMAIN nodes[d].nodes : nodes[d].nodes[x] = n
    BY <1>1, <2>1 DEF TreeInv
  <2>4. x \in Component
    BY <1>1, <2>2, LiveNode
  <2>5. <<d, x>> \in Entries(n)
    BY <2>2, <2>3, <2>4 DEF Entries
  <2>6. ASSUME NEW e \in Entries(n) PROVE e = <<d, x>>
    <3>1. PICK b \in Live, y \in Component :
            e = <<b, y>> /\ y \in DOMAIN nodes[b].nodes /\ nodes[b].nodes[y] = n
      BY DEF Entries
    <3>2. b = d
      BY <1>1, <2>1, <3>1 DEF TreeInv
    <3>3. y = x
      BY <1>1, <2>2, <2>3, <3>1, <3>2 DEF TreeInv
    <3>4. QED BY <3>1, <3>2, <3>3
  <2>7. Entries(n) = {<<d, x>>}
    BY <2>5, <2>6
  <2>8. QED BY <2>1, <2>2, <2>4, <2>7
<1>3. QED BY <1>1, <1>2 DEF TreeIsSound, NoLoops

\* However calls create, write and remove files, also while they are open or while memory

\* runs out, the nodes of the RAM disk are one tree below its root.
THEOREM TreeStaysSound == Spec => []TreeIsSound
<1>1. QED BY FilesInvHolds, InvMakesTree, PTL

\* Whatever is opened, closed and unlinked, context_rc never falls below the number of

\* contexts a node has.
THEOREM OpenFilesAreCounted == Spec => []CountCoversContexts
<1>1. FilesInv => CountCoversContexts
  BY DEF FilesInv, OpenInv
<1>2. QED BY FilesInvHolds, <1>1, PTL

\* A path is its front with its last name.
LEMMA FrontAndLast ==
  ASSUME NEW S, NEW c \in Seq(S), c # <<>>
  PROVE  c = Append(Front(c), Last(c))
<1>1. /\ Front(c) \in Seq(S) /\ Last(c) \in S /\ Len(Front(c)) = Len(c) - 1 /\ Last(c) = c[Len(c)]
      /\ \A i \in 1..(Len(c) - 1) : Front(c)[i] = c[i]
  BY FrontIsPath
<1> DEFINE e == Append(Front(c), Last(c))
<1>2. /\ e \in Seq(S) /\ Len(e) = Len(c) /\ Len(c) \in Nat /\ e[Len(c)] = c[Len(c)]
      /\ \A i \in 1..(Len(c) - 1) : e[i] = c[i]
  BY <1>1, AppendProperties
<1>3. \A i \in 1..Len(c) : e[i] = c[i]
  <2> HIDE DEF e
  <2>1. \A i \in 1..Len(c) : i = Len(c) \/ i \in 1..(Len(c) - 1)
    BY <1>2
  <2>2. QED BY <1>2, <2>1
<1> HIDE DEF e
<1>4. c = e
  BY <1>2, <1>3, SeqEqual
<1>5. QED BY <1>4 DEF e

\* A walk with one more name takes one more turn.
LEMMA WalkOn ==
  ASSUME TypeOK, TreeInv, NEW c \in Seq(Names), NEW x \in Names
  PROVE  Walk(Append(c, x)) = Step(Walk(c), x)
<1> DEFINE e == Append(c, x)
           n == Len(c)
<1>1. /\ e \in Seq(Names) /\ Len(e) = n + 1 /\ n \in Nat /\ e[n + 1] = x
      /\ \A i \in 1..n : e[i] = c[i]
  BY AppendProperties
<1> HIDE DEF e, n
<1>2. /\ Turns(e)[0] = Walked(DiskRoot, <<>>, "none")
      /\ \A i \in 1..(n + 1) : Turns(e)[i] = Step(Turns(e)[i - 1], e[i])
  BY <1>1, TurnsWalk
<1>3. /\ Turns(c)[0] = Walked(DiskRoot, <<>>, "none")
      /\ \A i \in 1..n : Turns(c)[i] = Step(Turns(c)[i - 1], c[i])
  BY TurnsWalk DEF n
<1>4. \A i \in 1..n : Turns(e)[i - 1] = Turns(c)[i - 1] => Turns(e)[i] = Turns(c)[i]
  <2>1. \A i \in 1..n : i \in 1..(n + 1)
    BY <1>1
  <2>2. QED BY <1>1, <1>2, <1>3, <2>1
<1>5. \A i \in 0..n : Turns(e)[i] = Turns(c)[i]
  <2>1. Turns(e)[0] = Turns(c)[0]
    BY <1>2, <1>3
  <2>2. ASSUME NEW f, NEW g, f[0] = g[0], \A i \in 1..n : f[i - 1] = g[i - 1] => f[i] = g[i]
        PROVE  \A i \in 0..n : f[i] = g[i]
    <3>1. n \in Nat
      BY <1>1
    <3>2. f[0] = g[0] /\ \A i \in 1..n : f[i - 1] = g[i - 1] => f[i] = g[i]
      BY <2>2
    <3>3. QED BY <3>1, <3>2, SameSizes, ZenonT(60)
  <2>3. QED BY <1>4, <2>1, <2>2, Zenon
<1>6. Turns(e)[n] = Turns(c)[n]
  BY <1>1, <1>5
<1>7. Turns(e)[n + 1] = Step(Turns(e)[n], x)
  <2>1. n + 1 \in 1..(n + 1) /\ (n + 1) - 1 = n
    BY <1>1
  <2>2. QED BY <1>1, <1>2, <2>1
<1>8. Walk(e) = Turns(e)[n + 1] /\ Walk(c) = Turns(c)[n]
  BY <1>1 DEF Walk, n
<1>9. QED BY <1>6, <1>7, <1>8 DEF e

\* Two walks that have come to the same node, or to what is mounted on it.
Together(v, w) == v.error = "none" /\ Content(v.node) = Content(w.node)

\* A name leads two such walks to the same node.
LEMMA StepTogether ==
  ASSUME NEW v \in Walks, NEW w \in Walks, Together(v, w), w.error = "none", NEW name,
         Step(w, name).error = "none"
  PROVE  Together(Step(v, name), Step(w, name))
<1>1. IsDirectory(Content(w.node)) /\ Find(Content(w.node), name) # NULL
  BY DEF Step
<1>2. Step(w, name).node = Find(Content(w.node), name)
  BY <1>1 DEF Step, Walked
<1>3. Step(v, name).node = Find(Content(w.node), name) /\ Step(v, name).error = "none"
  BY <1>1 DEF Step, Walked, Together
<1>4. QED BY <1>2, <1>3 DEF Together

\* What a step does when nothing is wrong.
LEMMA StepGoesOn ==
  ASSUME NEW w \in Walks, NEW name, Step(w, name).error = "none"
  PROVE  /\ w.error = "none" /\ IsDirectory(Content(w.node))
         /\ Step(w, name).node = Find(Content(w.node), name)
         /\ Step(w, name).canonical =
              IF name # ".." THEN Append(w.canonical, name)
              ELSE IF w.canonical = <<>> THEN <<>> ELSE Front(w.canonical)
<1>1. w.error = "none"
  BY DEF Step
<1>2. IsDirectory(Content(w.node)) /\ Find(Content(w.node), name) # NULL
  BY <1>1 DEF Step
<1>3. QED BY <1>1, <1>2 DEF Step, Walked

\* Below a directory, which is not where the RAM disk is mounted, ".." leads back to it.
LEMMA ParentLeadsBack ==
  ASSUME TypeOK, TreeInv, NEW d \in Live \cup {DiskRoot}, NEW x \in Component, Find(d, x) # NULL,
         Content(Find(d, x)) # RamRoot
  PROVE  d \in Live /\ Content(Find(Content(Find(d, x)), "..")) = d
<1>1. x # ".."
  BY FilesAssumption
<1>2. d # DiskRoot
  BY <1>1, DisksApart DEF Find, Content
<1>3. d \in Live /\ d \in RamNode
  BY <1>2, DisksApart
<1>4. x \in DOMAIN nodes[d].nodes /\ Find(d, x) = nodes[d].nodes[x]
  BY <1>1, <1>2, <1>3 DEF Find
<1>5. PICK n : n = nodes[d].nodes[x]
  OBVIOUS
<1>6. n \in Live \ {RamRoot} /\ nodes[n].parent = d
  BY <1>3, <1>4, <1>5 DEF TreeInv
<1>7. Content(n) = n /\ n \in RamNode /\ n # DiskRoot
  BY <1>6, DisksApart DEF Content
<1>8. Find(n, "..") = d
  BY <1>6, <1>7 DEF Find
<1>9. Content(d) = d
  BY <1>3, DisksApart DEF Content
<1>10. QED BY <1>3, <1>4, <1>5, <1>7, <1>8, <1>9

\* After each turn of a walk that does not leave the mount, its canonical path leads to

\* where it is.
LEMMA CanonicalFollows ==
  ASSUME TypeOK, TreeInv, NEW names \in Seq(Names), ~LeavesMount(names), NEW i \in 0..Len(names),
         Turns(names)[i].error = "none"
  PROVE  Together(Walk(Turns(names)[i].canonical), Turns(names)[i])
<1> DEFINE n == Len(names)
           t(k) == Turns(names)[k]
           T == {k \in 0..n : t(k).error = "none" => Together(Walk(t(k).canonical), t(k))}
<1>1. /\ n \in Nat /\ \A k \in 0..n : t(k) \in Walks
      /\ t(0) = Walked(DiskRoot, <<>>, "none")
      /\ \A k \in 1..n : t(k) = Step(t(k - 1), names[k])
  BY TurnsWalk
<1>2. Component \subseteq Names /\ ".." \notin Component /\ Names = Component \cup {".."}
  BY FilesAssumption DEF Names
<1>3. \A c \in Seq(Component) : c \in Seq(Names) /\ Walk(c) \in Walks
  <2>1. \A c \in Seq(Component) : c \in Seq(Names)
    BY <1>2
  <2>2. QED BY <2>1, WalkEnds
<1>4. Walk(<<>>) = Walked(DiskRoot, <<>>, "none")
  <2>1. <<>> \in Seq(Names) /\ Len(<<>>) = 0
    OBVIOUS
  <2>2. QED BY <2>1, TurnsWalk DEF Walk
<1>5. 0 \in T
  BY <1>1, <1>4 DEF Together, Walked
<1>6. ASSUME NEW k \in 0..(n - 1), k \in T PROVE k + 1 \in T
  <2>1. k + 1 \in 1..n /\ k + 1 \in 0..n /\ k \in 0..n /\ (k + 1) - 1 = k
    BY <1>1
  <2>2. PICK w \in Walks : w = t(k)
    BY <1>1, <2>1
  <2>3. PICK x \in Names : x = names[k + 1]
    BY <2>1
  <2>4. t(k + 1) = Step(w, x)
    <3> HIDE DEF t
    <3>1. QED BY <1>1, <2>1, <2>2, <2>3
  <2>5. SUFFICES ASSUME Step(w, x).error = "none"
                 PROVE  Together(Walk(Step(w, x).canonical), Step(w, x))
    BY <2>1, <2>4
  <2>6. /\ w.error = "none" /\ IsDirectory(Content(w.node))
        /\ Step(w, x).node = Find(Content(w.node), x)
        /\ Step(w, x).canonical =
             IF x # ".." THEN Append(w.canonical, x)
             ELSE IF w.canonical = <<>> THEN <<>> ELSE Front(w.canonical)
    BY <2>5, StepGoesOn
  <2>7. Together(Walk(w.canonical), w)
    BY <1>6, <2>2, <2>6
  <2>8. w.canonical \in Seq(Component) /\ w.canonical \in Seq(Names) /\ Walk(w.canonical) \in Walks
    BY <1>3 DEF Walks
  <2>9. CASE x # ".."
    <3>1. Walk(Append(w.canonical, x)) = Step(Walk(w.canonical), x)
      BY <2>8, WalkOn
    <3>2. Together(Step(Walk(w.canonical), x), Step(w, x))
      BY <2>5, <2>6, <2>7, <2>8, StepTogether
    <3>3. QED BY <2>6, <2>9, <3>1, <3>2
  <2>10. CASE x = ".." /\ w.canonical = <<>>
    <3>1. Content(w.node) = DiskRoot
      BY <1>4, <2>7, <2>10, DisksApart DEF Together, Walked, Content
    <3>2. Find(DiskRoot, "..") = DiskRoot
      BY <1>2, DisksApart, FilesAssumption DEF Find, Component
    <3>3. Step(w, x).node = DiskRoot /\ Step(w, x).canonical = <<>>
      BY <2>6, <2>10, <3>1, <3>2
    <3>4. QED BY <1>4, <3>3 DEF Together, Walked
  <2>11. CASE x = ".." /\ w.canonical # <<>>
    <3>1. PICK f, y : f = Front(w.canonical) /\ y = Last(w.canonical)
      OBVIOUS
    <3>2. f \in Seq(Component) /\ y \in Component /\ w.canonical = Append(f, y)
      BY <2>8, <2>11, <3>1, FrontIsPath, FrontAndLast
    <3>3. PICK v \in Walks : v = Walk(f)
      BY <1>3, <3>2
    <3>4. Walk(w.canonical) = Step(v, y)
      BY <1>2, <1>3, <3>2, <3>3, WalkOn
    <3>5. Step(v, y).error = "none" /\ Content(Step(v, y).node) = Content(w.node)
      BY <2>7, <3>4 DEF Together
    <3>6. v.error = "none" /\ Step(v, y).node = Find(Content(v.node), y)
      BY <3>5, StepGoesOn
    <3>7. Content(w.node) # RamRoot
      <4>1. k + 1 \in DOMAIN names
        BY <2>1
      <4>2. QED BY <2>1, <2>2, <2>3, <2>6, <2>11, <4>1 DEF LeavesMount
    <3>8. Content(v.node) \in Live \cup {DiskRoot}
      BY ContentIsThere DEF Walks
    <3>9. Find(Content(v.node), y) # NULL
      BY <3>5, <3>6 DEF Step
    <3>10. Content(Find(Content(w.node), "..")) = Content(v.node)
      BY <3>2, <3>5, <3>6, <3>7, <3>8, <3>9, ParentLeadsBack
    <3>11. Step(w, x).canonical = f
      BY <2>6, <2>11, <3>1
    <3>12. QED BY <2>6, <2>11, <3>3, <3>6, <3>10, <3>11 DEF Together
  <2>12. QED BY <2>9, <2>10, <2>11
<1>7. 0..n \subseteq T
  <2> HIDE DEF T, n
  <2>1. QED BY <1>1, <1>5, <1>6, UpTo
<1>8. i \in T
  BY <1>7
<1>9. QED BY <1>8

\* The canonical path of any path that resolves leads to the same node.
LEMMA InvMakesCanonical == FilesInv => CanonicalPathNamesNode
<1> SUFFICES ASSUME FilesInv, NEW p \in Process, NEW path \in Path, Resolve(p, path).error = "none",
                    ~LeavesMount(Absolute(p, path))
             PROVE  /\ Content(Walk(Resolve(p, path).canonical).node) = Content(Resolve(p, path).node)
                    /\ ".." \notin Range(Resolve(p, path).canonical)
  BY DEF CanonicalPathNamesNode
<1>1. TypeOK /\ TreeInv
  BY DEF FilesInv, FileTypes
<1>2. PICK names \in Seq(Names) : names = Absolute(p, path)
  BY <1>1, AbsoluteIsPath
<1>3. PICK w \in Walks : w = Walk(names)
  BY <1>1, WalkEnds
<1>4. Resolve(p, path) = w
  <2>1. Resolve(p, path) = w \/ Resolve(p, path) = [w EXCEPT !.error = "NotADirectory"]
    BY <1>2, <1>3 DEF Resolve
  <2>2. [w EXCEPT !.error = "NotADirectory"].error = "NotADirectory"
    BY DEF Walks
  <2>3. QED BY <2>1, <2>2
<1>5. w = Turns(names)[Len(names)] /\ Len(names) \in 0..Len(names)
  BY <1>3 DEF Walk
<1>6. Together(Walk(w.canonical), w)
  BY <1>1, <1>2, <1>4, <1>5, CanonicalFollows
<1>7. w.canonical \in Seq(Component) /\ ".." \notin Component
  BY FilesAssumption DEF Walks
<1>8. ".." \notin Range(w.canonical)
  BY <1>7 DEF Range
<1>9. QED BY <1>4, <1>6, <1>8 DEF Together

\* Whatever is created and removed, the path that becomes the current directory leads to

\* the node that was resolved, unless ".." went through the root of the RAM disk.
THEOREM CanonicalPathsLeadBack == Spec => []CanonicalPathNamesNode
<1>1. QED BY FilesInvHolds, InvMakesCanonical, PTL
-----------------------------------------------------------------------------
(* The file system implements FlatFiles *)

\* What is known of files that were written where their pages cannot take it, and that
\* the pages of the others are full but for the last.
StrayInv ==
  /\ strayed \subseteq Live
  /\ \A n \in strayed : nodes[n].file.pages # <<>>
  /\ \A n \in Live \ strayed : FullPages(nodes[n].file.pages)

\* A text is a sequence of bytes.
LEMMA TextIsBytes ==
  ASSUME NEW pages \in Seq(Seq(Byte))
  PROVE  Concatenated(pages) \in Seq(Byte)
<1>1. PICK size : AreSizes(size, pages)
  BY PagesHaveSizes
<1>2. QED BY <1>1, TextIsLong

\* There is no text where there are no pages.
LEMMA NoPages == Concatenated(<<>>) = <<>> /\ FullPages(<<>>)
<1>1. <<>> \in Seq(Seq(Byte)) /\ Len(<<>>) = 0
  OBVIOUS
<1>2. Len(Concatenated(<<>>)) = 0 /\ Concatenated(<<>>) \in Seq(Byte)
  BY <1>1, NewFileIsSound, TextIsBytes DEF NewPageFile, PagesOK
<1>3. QED BY <1>1, <1>2, EmptySeq DEF FullPages

\* Files with the same pages have the same texts, and new files have none.
LEMMA SameTexts ==
  ASSUME StrayInv, strayed' = strayed, NEW new \in SUBSET (RamNode \ Live), Live' = Live \cup new,
         \A n \in Live : nodes'[n].file = nodes[n].file,
         \A n \in new : nodes'[n].file = NewPageFile
  PROVE  StrayInv' /\ Texts' = Texts
<1>1. NewPageFile.pages = <<>> /\ Concatenated(<<>>) = <<>>
  BY NoPages DEF NewPageFile
<1>2. FullPages(<<>>)
  BY NoPages
<1>3. StrayInv'
  <2>1. strayed' \subseteq Live' /\ \A n \in strayed' : nodes'[n].file.pages # <<>>
    BY DEF StrayInv
  <2>2. ASSUME NEW n \in Live' \ strayed' PROVE FullPages(nodes'[n].file.pages)
    <3>1. CASE n \in Live
      BY <2>2, <3>1 DEF StrayInv
    <3>2. CASE n \in new
      BY <1>1, <1>2, <3>2
    <3>3. QED BY <2>2, <3>1, <3>2
  <2>3. QED BY <2>1, <2>2 DEF StrayInv
<1>4. ASSUME NEW n \in Node PROVE Text(n)' = Text(n)
  <2>1. CASE n \in Disk
    BY <2>1 DEF Text
  <2>2. CASE n \notin Disk /\ n \in Live
    <3>1. nodes[n] # NULL /\ nodes'[n] # NULL
      BY <2>2 DEF Live
    <3>2. QED BY <2>2, <3>1 DEF Text
  <2>3. CASE n \notin Disk /\ n \in new
    <3>1. nodes[n] = NULL /\ nodes'[n] # NULL /\ n \notin strayed'
      BY <2>3 DEF Live, StrayInv
    <3>2. Text(n)' = Concatenated(nodes'[n].file.pages)
      BY <2>3, <3>1 DEF Text
    <3>3. QED BY <1>1, <2>3, <3>1, <3>2 DEF Text
  <2>4. CASE n \notin Disk /\ n \notin Live /\ n \notin new
    <3>1. nodes[n] = NULL /\ nodes'[n] = NULL
      BY <2>4 DEF Live, Node
    <3>2. QED BY <3>1 DEF Text
  <2>5. QED BY <2>1, <2>2, <2>3, <2>4
<1>5. QED BY <1>3, <1>4 DEF Texts

\* No text is unknown but those of files that have strayed.
LEMMA KnownText ==
  ASSUME FilesInv, StrayInv, NEW n \in Live
  PROVE  /\ Texts[n] = IF n \in strayed THEN NULL ELSE Concatenated(nodes[n].file.pages)
         /\ Concatenated(nodes[n].file.pages) \in Seq(Byte)
         /\ Len(Concatenated(nodes[n].file.pages)) = nodes[n].file.total_written
         /\ Texts[n] = NULL <=> n \in strayed
<1>1. n \in Node /\ n \notin Disk /\ nodes[n] # NULL
  BY FilesAssumption DEF Live, Node
<1>2. nodes[n].file \in FileRecords /\ PagesOK(nodes[n].file)
  <2>1. TypeOK
    BY DEF FilesInv, FileTypes
  <2>2. nodes[n] \in NodeRecord /\ PagesOK(nodes[n].file)
    BY <2>1, LiveNode DEF TypeOK
  <2>3. QED BY <2>2 DEF NodeRecord, FileRecords
<1>3. Concatenated(nodes[n].file.pages) \in Seq(Byte)
  <2>1. nodes[n].file.pages \in Seq(Seq(Byte))
    BY <1>2 DEF FileRecords
  <2>2. QED BY <2>1, TextIsBytes
<1>4. Texts[n] = IF n \in strayed THEN NULL ELSE Concatenated(nodes[n].file.pages)
  BY <1>1 DEF Texts, Text
<1>5. NULL \notin Seq(Byte)
  BY FilesAssumption
<1>6. QED BY <1>2, <1>3, <1>4, <1>5 DEF PagesOK

\* Files that are not touched.
LEMMA UntouchedTexts ==
  ASSUME StrayInv, UNCHANGED <<nodes, strayed>>
  PROVE  StrayInv' /\ Texts' = Texts
<1>1. Live' = Live
  BY DEF Live
<1>2. {} \in SUBSET (RamNode \ Live) /\ Live' = Live \cup {}
  BY <1>1
<1>3. QED BY <1>2, SameTexts

\* The same ids, at the same places in the same files.
SamePlaces(files) ==
  \A q \in Process : /\ DOMAIN files[q] = Ids(q)
                     /\ \A i \in Ids(q) : /\ files[q][i].node = open_files[q][i].node
                                          /\ files[q][i].pos = open_files[q][i].pos

\* The places of iterators that are out of date stay.
LEMMA OutdatedPlaces ==
  ASSUME TypeOK, NEW d
  PROVE  SamePlaces(Outdated(d))
<1>1. ASSUME NEW q \in Process PROVE DOMAIN Outdated(d)[q] = Ids(q)
  BY DEF Outdated, Ids
<1>2. ASSUME NEW q \in Process, NEW i \in Ids(q)
      PROVE  /\ Outdated(d)[q][i].node = open_files[q][i].node
             /\ Outdated(d)[q][i].pos = open_files[q][i].pos
  <2>1. \/ Outdated(d)[q][i] = open_files[q][i]
        \/ Outdated(d)[q][i] = [open_files[q][i] EXCEPT !.listing = "stale"]
    BY DEF Outdated, Ids
  <2>2. open_files[q][i] \in ContextRecord
    BY OpenContext
  <2>3. QED BY <2>1, <2>2 DEF ContextRecord
<1>3. QED BY <1>1, <1>2 DEF SamePlaces

\* An id leads where its context does.
LEMMA HandleOf ==
  ASSUME NEW q \in Process
  PROVE  /\ Handles[q] = Opened(q)
         /\ DOMAIN Handles[q] = {i \in Ids(q) : open_files[q][i].node # NULL}
         /\ \A i \in DOMAIN Handles[q] :
              Handles[q][i] = [file |-> open_files[q][i].node, pos |-> open_files[q][i].pos]
BY DEF Handles, Opened

\* Who stays in place is seen to.
LEMMA SameHandles ==
  ASSUME SamePlaces(open_files')
  PROVE  Handles' = Handles
<1>1. ASSUME NEW q \in Process PROVE Opened(q)' = Opened(q)
  <2>1. Ids(q)' = Ids(q)
    BY DEF SamePlaces, Ids
  <2>2. \A i \in Ids(q) : /\ open_files'[q][i].node = open_files[q][i].node
                          /\ open_files'[q][i].pos = open_files[q][i].pos
    BY DEF SamePlaces
  <2>3. QED BY <2>1, <2>2 DEF Opened
<1>2. QED BY <1>1 DEF Handles

\* A call that gives an id, or that fails to.
LEMMA AttachOpens ==
  ASSUME TypeOK, OpenInv, NEW p \in Process, NEW n \in Node, NEW rc, NEW files,
         AreContexts(files), SamePlaces(files),
         next_file_id[p] < MaxIds, Attach(p, n, rc, files), Texts' = Texts
  PROVE  Flat!Other \/ Flat!Open(p)
<1>1. CASE answer' = <<"error">> /\ open_files' = files
  <2>1. Handles' = Handles
    BY <1>1, SameHandles
  <2>2. QED BY <1>1, <2>1 DEF Flat!Other
<1>2. CASE /\ answer' = <<"done">>
           /\ open_files' = [files EXCEPT ![p] = With(@, next_file_id[p], Context(n))]
  <2>1. PICK i : i = next_file_id[p]
    OBVIOUS
  <2>2. i \in 0..MaxIds /\ i \notin Ids(p)
    BY <2>1, FilesAssumption DEF TypeOK, OpenInv
  <2>3. /\ open_files'[p] = With(files[p], i, Context(n))
        /\ \A q \in Process \ {p} : open_files'[q] = files[q]
    BY <1>2, <2>1 DEF AreContexts
  <2>4. /\ DOMAIN open_files'[p] = Ids(p) \cup {i}
        /\ open_files'[p][i] = Context(n)
        /\ \A j \in Ids(p) : open_files'[p][j] = files[p][j]
    BY <2>2, <2>3 DEF With, SamePlaces
  <2>5. n # NULL /\ Context(n).node = n /\ Context(n).pos = 0
    BY FilesAssumption DEF Context
  <2>6. \A q \in Process \ {p} : Opened(q)' = Opened(q)
    <3>1. ASSUME NEW q \in Process \ {p} PROVE Opened(q)' = Opened(q)
      <4>1. Ids(q)' = Ids(q)
        BY <2>3 DEF SamePlaces, Ids
      <4>2. \A j \in Ids(q) : /\ open_files'[q][j].node = open_files[q][j].node
                              /\ open_files'[q][j].pos = open_files[q][j].pos
        BY <2>3 DEF SamePlaces
      <4>3. QED BY <4>1, <4>2 DEF Opened
    <3>2. QED BY <3>1
  <2>7. Opened(p)' = Flat!With(p, i, [file |-> n, pos |-> 0])
    <3>1. /\ Ids(p)' = Ids(p) \cup {i}
          /\ \A j \in Ids(p) : /\ open_files'[p][j].node = open_files[p][j].node
                               /\ open_files'[p][j].pos = open_files[p][j].pos
      BY <2>4 DEF SamePlaces, Ids
    <3>2. {j \in Ids(p)' : open_files'[p][j].node # NULL} =
            {j \in Ids(p) : open_files[p][j].node # NULL} \cup {i}
      BY <2>2, <2>4, <2>5, <3>1
    <3>3. Opened(p)' = [j \in {k \in Ids(p) : open_files[p][k].node # NULL} \cup {i} |->
                          [file |-> open_files'[p][j].node, pos |-> open_files'[p][j].pos]]
      BY <3>2 DEF Opened
    <3>4. Flat!Handle(p) = {j \in Ids(p) : open_files[p][j].node # NULL}
      BY HandleOf DEF Flat!Handle
    <3>5. ASSUME NEW j \in Flat!Handle(p) \cup {i}
          PROVE  [file |-> open_files'[p][j].node, pos |-> open_files'[p][j].pos] =
                   IF j = i THEN [file |-> n, pos |-> 0] ELSE Handles[p][j]
      <4>1. CASE j = i
        BY <2>4, <2>5, <4>1
      <4>2. CASE j # i
        <5>1. j \in DOMAIN Handles[p] /\ j \in Ids(p)
          BY <3>4, <3>5, <4>2 DEF Flat!Handle
        <5>2. QED BY <3>1, <4>2, <5>1, HandleOf
      <4>3. QED BY <4>1, <4>2
    <3>6. QED BY <3>3, <3>4, <3>5 DEF Flat!With
  <2>8. Handles' = [Handles EXCEPT ![p] = Flat!With(p, i, [file |-> n, pos |-> 0])]
    BY <2>6, <2>7 DEF Handles
  <2>9. i \in (0..MaxIds) \ Flat!Handle(p)
    BY <2>2, HandleOf DEF Flat!Handle
  <2>10. QED BY <1>2, <2>8, <2>9 DEF Flat!Open
<1>3. QED BY <1>1, <1>2 DEF Attach

\* A call that moves an open file.
LEMMA PlaceMoves ==
  ASSUME TypeOK, NEW p \in Process, NEW id, Usable(p, id), NEW pos,
         open_files' = [open_files EXCEPT ![p][id].pos = pos]
  PROVE  /\ id \in Flat!Handle(p) /\ Flat!Move(p, id, pos)
         /\ Handles[p][id] = [file |-> open_files[p][id].node, pos |-> open_files[p][id].pos]
<1>1. id \in Ids(p) /\ open_files[p][id].node # NULL
  BY DEF Usable
<1>2. id \in Flat!Handle(p)
  BY <1>1, HandleOf DEF Flat!Handle
<1>3. Handles[p][id] = [file |-> open_files[p][id].node, pos |-> open_files[p][id].pos]
  BY <1>2, HandleOf DEF Flat!Handle
<1>4. \A q \in Process : open_files[q] \in [Ids(q) -> ContextRecord]
  BY DEF TypeOK, AreContexts, Ids
<1>5. /\ \A q \in Process \ {p} : open_files'[q] = open_files[q]
      /\ open_files'[p] = [open_files[p] EXCEPT ![id] = [open_files[p][id] EXCEPT !.pos = pos]]
  BY DEF TypeOK, AreContexts
<1>6. /\ DOMAIN open_files'[p] = Ids(p)
      /\ open_files'[p][id] = [open_files[p][id] EXCEPT !.pos = pos]
      /\ \A j \in Ids(p) \ {id} : open_files'[p][j] = open_files[p][j]
  BY <1>1, <1>4, <1>5
<1>7. open_files'[p][id].node = open_files[p][id].node /\ open_files'[p][id].pos = pos
  BY <1>1, <1>4, <1>6 DEF ContextRecord
<1>8. \A q \in Process \ {p} : Opened(q)' = Opened(q)
  BY <1>5 DEF Opened, Ids
<1>9. Opened(p)' = [Opened(p) EXCEPT ![id].pos = pos]
  <2> DEFINE ids == {j \in Ids(p) : open_files[p][j].node # NULL}
  <2>1. ids = {j \in Ids(p)' : open_files'[p][j].node # NULL}
    BY <1>6, <1>7 DEF Ids
  <2>2. Opened(p)' = [j \in ids |-> [file |-> open_files'[p][j].node, pos |-> open_files'[p][j].pos]]
    BY <2>1 DEF Opened
  <2>3. Opened(p) = [j \in ids |-> [file |-> open_files[p][j].node, pos |-> open_files[p][j].pos]]
    BY DEF Opened
  <2>4. ASSUME NEW j \in ids
        PROVE  [file |-> open_files'[p][j].node, pos |-> open_files'[p][j].pos] =
                 [Opened(p) EXCEPT ![id].pos = pos][j]
    <3>1. CASE j = id
      BY <1>7, <2>3, <3>1
    <3>2. CASE j # id
      BY <1>6, <2>3, <3>2
    <3>3. QED BY <3>1, <3>2
  <2>5. /\ DOMAIN [Opened(p) EXCEPT ![id].pos = pos] = ids
        /\ [Opened(p) EXCEPT ![id].pos = pos] = [j \in ids |-> [Opened(p) EXCEPT ![id].pos = pos][j]]
    BY <2>3
  <2> HIDE DEF ids
  <2>6. QED BY <2>2, <2>4, <2>5
<1>10. Handles' = [Handles EXCEPT ![p] = [Opened(p) EXCEPT ![id].pos = pos]]
  BY <1>8, <1>9 DEF Handles
<1>11. Handles' = [Handles EXCEPT ![p][id].pos = pos]
  BY <1>10, HandleOf
<1>12. QED BY <1>2, <1>3, <1>11 DEF Flat!Move

\* What a step must show: that it is one of FlatFiles, or none that can be seen.
FlatStep == [Flat!Next]_Flat!vars

\* Steps that open files do not see.
LEMMA OtherSteps ==
  ASSUME TypeOK, StrayInv, UNCHANGED <<nodes, strayed, open_files>>,
         answer' \in {<<"done">>, <<"error">>}
  PROVE  StrayInv' /\ FlatStep
<1>1. StrayInv' /\ Texts' = Texts
  BY UntouchedTexts
<1>2. SamePlaces(open_files')
  BY DEF SamePlaces, Ids
<1>3. Handles' = Handles
  BY <1>2, SameHandles
<1>4. Flat!Other
  BY <1>1, <1>3 DEF Flat!Other
<1>5. QED BY <1>1, <1>4 DEF FlatStep, Flat!Next

\* The kernel that stops shows nothing more.
LEMMA HaltedSteps ==
  ASSUME TypeOK, StrayInv, UNCHANGED <<nodes, strayed, open_files, answer>>
  PROVE  StrayInv' /\ FlatStep
<1>1. StrayInv' /\ Texts' = Texts
  BY UntouchedTexts
<1>2. SamePlaces(open_files')
  BY DEF SamePlaces, Ids
<1>3. Handles' = Handles
  BY <1>2, SameHandles
<1>4. QED BY <1>1, <1>3 DEF FlatStep, Flat!vars

\* A new node is a file without text, or a directory.
LEMMA AddedTexts ==
  ASSUME FilesInv, StrayInv, strayed' = strayed, NEW p \in Process, NEW path \in Path,
         CreateError(p, path) = "none", NEW kind \in {"file", "directory"},
         NEW n \in RamNode, Added(p, path, kind, n)
  PROVE  StrayInv' /\ Texts' = Texts /\ n \in Node
<1>1. TypeOK /\ TreeInv
  BY DEF FilesInv, FileTypes
<1>2. PICK d : d = Content(ResolveParent(p, path).node)
  OBVIOUS
<1>3. /\ n \notin Live /\ d \in Live /\ n # d
      /\ Live' = Live \cup {n}
      /\ nodes'[n] = NewNode(kind, d)
      /\ nodes'[d] = [nodes[d] EXCEPT !.nodes = With(nodes[d].nodes, ChildName(p, path), n)]
      /\ \A m \in Live \ {d} : nodes'[m] = nodes[m]
  BY <1>1, <1>2, AddedNodes
<1>4. \A m \in Live : nodes'[m].file = nodes[m].file
  <2>1. nodes[d] \in NodeRecord
    BY <1>1, <1>3, LiveNode
  <2>2. QED BY <1>3, <2>1 DEF NodeRecord
<1>5. {n} \in SUBSET (RamNode \ Live) /\ \A m \in {n} : nodes'[m].file = NewPageFile
  BY <1>3 DEF NewNode
<1>6. QED BY <1>3, <1>4, <1>5, SameTexts DEF Node

\* Submanager.create()
LEMMA CreateIsFlat ==
  ASSUME FilesInv, StrayInv, NEW p \in Process, NEW path \in Path,
         NEW kind \in {"file", "directory"}, Create(p, path, kind)
  PROVE  StrayInv' /\ FlatStep
<1>1. PICK n \in RamNode : Added(p, path, kind, n)
  BY DEF Create
<1>2. /\ CreateError(p, path) = "none" /\ strayed' = strayed /\ answer' = <<"done">>
      /\ open_files' = Outdated(Content(ResolveParent(p, path).node))
  BY DEF Create
<1>3. StrayInv' /\ Texts' = Texts
  BY <1>1, <1>2, AddedTexts
<1>4. Handles' = Handles
  BY <1>2, OutdatedPlaces, SameHandles DEF FilesInv, FileTypes
<1>5. Flat!Other
  BY <1>2, <1>3, <1>4 DEF Flat!Other
<1>6. QED BY <1>3, <1>5 DEF FlatStep, Flat!Next

\* Submanager.open() of what is there
LEMMA OpenIsFlat ==
  ASSUME FilesInv, StrayInv, NEW p \in Process, NEW path \in Path, NEW mode \in Modes,
         Open(p, path, mode)
  PROVE  StrayInv' /\ FlatStep
<1>1. TypeOK /\ TreeInv /\ OpenInv
  BY DEF FilesInv, FileTypes
<1>2. PICK n : n = ToOpen(p, path, mode).node
  OBVIOUS
<1>3. /\ next_file_id[p] < MaxIds /\ Attach(p, n, context_rc[n], open_files)
      /\ nodes' = nodes /\ strayed' = strayed
  BY <1>2 DEF Open
<1>4. n \in Node
  <2>1. n \in Live \cup Disk
    BY <1>1, <1>2, ResolvesLive DEF ToOpen
  <2>2. QED BY <2>1 DEF Live, Node
<1>5. StrayInv' /\ Texts' = Texts
  BY <1>3, UntouchedTexts
<1>6. AreContexts(open_files) /\ SamePlaces(open_files)
  BY <1>1 DEF TypeOK, SamePlaces, Ids
<1>7. Flat!Other \/ Flat!Open(p)
  BY <1>1, <1>3, <1>4, <1>5, <1>6, AttachOpens
<1>8. QED BY <1>5, <1>7 DEF FlatStep, Flat!Next

\* Submanager.open() of a file that it makes
LEMMA OpenNewIsFlat ==
  ASSUME FilesInv, StrayInv, NEW p \in Process, NEW path \in Path, OpenNew(p, path)
  PROVE  StrayInv' /\ FlatStep
<1>1. TypeOK /\ TreeInv /\ OpenInv
  BY DEF FilesInv, FileTypes
<1>2. PICK d : d = Content(ResolveParent(p, path).node)
  OBVIOUS
<1>3. PICK n \in RamNode : Added(p, path, "file", n) /\ Attach(p, n, 0, Outdated(d))
  BY <1>2 DEF OpenNew
<1>4. CreateError(p, path) = "none" /\ next_file_id[p] < MaxIds /\ strayed' = strayed
  BY DEF OpenNew
<1>5. StrayInv' /\ Texts' = Texts /\ n \in Node
  BY <1>3, <1>4, AddedTexts
<1>6. AreContexts(Outdated(d)) /\ SamePlaces(Outdated(d))
  BY <1>1, OutdatedKeeps, OutdatedPlaces
<1>7. Flat!Other \/ Flat!Open(p)
  BY <1>1, <1>3, <1>4, <1>5, <1>6, AttachOpens
<1>8. QED BY <1>5, <1>7 DEF FlatStep, Flat!Next

\* Vnode.unlink(): a file that has pages is not removed, so none that has strayed is.
LEMMA UnlinkIsFlat ==
  ASSUME FilesInv, StrayInv, NEW p \in Process, NEW path \in Path, Unlink(p, path)
  PROVE  StrayInv' /\ FlatStep
<1>1. TypeOK /\ TreeInv /\ OpenInv
  BY DEF FilesInv, FileTypes
<1>2. PICK d : d = Content(ResolveParent(p, path).node)
  OBVIOUS
<1>3. PICK t : t = Target(p, path)
  OBVIOUS
<1>4. /\ t \in Live /\ t # d /\ Live' = Live \ {t}
      /\ nodes'[d].file = nodes[d].file
      /\ \A m \in Live \ {d, t} : nodes'[m] = nodes[m]
  BY <1>1, <1>2, <1>3, UnlinkNodes
<1>5. /\ ~HasPages(t) /\ open_files' = Dangling(Outdated(d), t)
      /\ answer' = <<"done">> /\ strayed' = strayed
  BY <1>2, <1>3 DEF Unlink
<1>6. t \in RamNode /\ t \in Node /\ t # NULL /\ nodes[t] # NULL
  BY <1>4, FilesAssumption DEF Live, Node
<1>7. t \notin strayed
  BY <1>5, <1>6 DEF StrayInv, HasPages
<1>8. \A m \in Live' : nodes'[m].file = nodes[m].file
  BY <1>4
<1>9. StrayInv'
  BY <1>4, <1>5, <1>7, <1>8 DEF StrayInv
<1>10. Texts' = [Texts EXCEPT ![t] = <<>>]
  <2>1. ASSUME NEW n \in Node PROVE Text(n)' = IF n = t THEN <<>> ELSE Text(n)
    <3>1. CASE n \in Disk
      BY <1>6, <3>1, FilesAssumption DEF Text
    <3>2. CASE n \notin Disk /\ n = t
      <4>1. nodes'[t] = NULL
        BY <1>4, <1>6 DEF Live
      <4>2. QED BY <3>2, <4>1 DEF Text
    <3>3. CASE n \notin Disk /\ n # t /\ n \in Live
      <4>1. nodes[n] # NULL /\ nodes'[n] # NULL /\ nodes'[n].file = nodes[n].file
        BY <1>4, <1>8, <3>3 DEF Live
      <4>2. QED BY <1>5, <3>3, <4>1 DEF Text
    <3>4. CASE n \notin Disk /\ n # t /\ n \notin Live
      <4>1. nodes[n] = NULL /\ nodes'[n] = NULL
        BY <1>4, <3>4 DEF Live, Node
      <4>2. QED BY <3>4, <4>1 DEF Text
    <3>5. QED BY <3>1, <3>2, <3>3, <3>4
  <2>2. QED BY <2>1 DEF Texts
<1>11. Handles' = [q \in Process |-> [i \in {j \in Flat!Handle(q) : Handles[q][j].file # t} |-> Handles[q][i]]]
  <2>1. ASSUME NEW q \in Process
        PROVE  Opened(q)' = [i \in {j \in Flat!Handle(q) : Handles[q][j].file # t} |-> Handles[q][i]]
    <3>0. PICK files : files = Outdated(d)
      OBVIOUS
    <3>1. AreContexts(files) /\ SamePlaces(files)
      BY <1>1, <3>0, OutdatedKeeps, OutdatedPlaces
    <3>2. open_files'[q] = [i \in Ids(q) |->
            IF files[q][i].node = t THEN [files[q][i] EXCEPT !.node = NULL] ELSE files[q][i]]
      BY <1>5, <3>0, <3>1 DEF Dangling, SamePlaces
    <3>3. ASSUME NEW i \in Ids(q)
          PROVE  /\ open_files'[q][i].node =
                      IF open_files[q][i].node = t THEN NULL ELSE open_files[q][i].node
                 /\ open_files'[q][i].pos = open_files[q][i].pos
      <4>1. /\ files[q][i] \in ContextRecord /\ files[q][i].node = open_files[q][i].node
            /\ files[q][i].pos = open_files[q][i].pos
        BY <3>1 DEF AreContexts, SamePlaces
      <4>2. QED BY <3>2, <4>1 DEF ContextRecord
    <3>4. Ids(q)' = Ids(q)
      BY <3>2 DEF Ids
    <3>5. Flat!Handle(q) = {i \in Ids(q) : open_files[q][i].node # NULL}
      BY HandleOf DEF Flat!Handle
    <3>6. \A i \in Flat!Handle(q) :
            Handles[q][i] = [file |-> open_files[q][i].node, pos |-> open_files[q][i].pos]
      BY HandleOf DEF Flat!Handle
    <3>7. {i \in Ids(q)' : open_files'[q][i].node # NULL} =
            {i \in Flat!Handle(q) : Handles[q][i].file # t}
      <4>1. ASSUME NEW i \in Flat!Handle(q) PROVE Handles[q][i].file = open_files[q][i].node
        <5>1. Handles[q][i] = [file |-> open_files[q][i].node, pos |-> open_files[q][i].pos]
          BY <3>6
        <5>2. QED BY <5>1
      <4>2. \A i \in Ids(q) : open_files'[q][i].node # NULL <=>
              open_files[q][i].node # NULL /\ open_files[q][i].node # t
        BY <1>6, <3>3
      <4>3. QED BY <3>4, <3>5, <4>1, <4>2
    <3>8. Opened(q)' = [i \in {j \in Flat!Handle(q) : Handles[q][j].file # t} |->
                          [file |-> open_files'[q][i].node, pos |-> open_files'[q][i].pos]]
      BY <3>7 DEF Opened
    <3>9. ASSUME NEW i \in {j \in Flat!Handle(q) : Handles[q][j].file # t}
          PROVE  [file |-> open_files'[q][i].node, pos |-> open_files'[q][i].pos] = Handles[q][i]
      <4>1. i \in Flat!Handle(q) /\ i \in Ids(q) /\ Handles[q][i].file # t
        BY <3>5
      <4>2. Handles[q][i] = [file |-> open_files[q][i].node, pos |-> open_files[q][i].pos]
        BY <3>6, <4>1
      <4>3. open_files[q][i].node # t
        BY <4>1, <4>2
      <4>4. open_files'[q][i].node = open_files[q][i].node /\ open_files'[q][i].pos = open_files[q][i].pos
        BY <3>3, <4>1, <4>3
      <4>5. QED BY <4>2, <4>4
    <3>10. QED BY <3>8, <3>9
  <2>2. QED BY <2>1 DEF Handles
<1>12. Flat!Unlink(t)
  BY <1>5, <1>10, <1>11 DEF Flat!Unlink
<1>13. QED BY <1>6, <1>9, <1>12 DEF FlatStep, Flat!Next

\* Submanager.close()
LEMMA CloseIsFlat ==
  ASSUME FilesInv, StrayInv, NEW p \in Process, NEW id, Close(p, id)
  PROVE  StrayInv' /\ FlatStep
<1>1. TypeOK
  BY DEF FilesInv, FileTypes
<1>2. /\ id \in Ids(p) /\ open_files[p][id].node # NULL /\ answer' = <<"done">>
      /\ open_files' = [open_files EXCEPT ![p] = [i \in Ids(p) \ {id} |-> @[i]]]
      /\ UNCHANGED <<nodes, strayed>>
  BY DEF Close, Usable
<1>3. StrayInv' /\ Texts' = Texts
  BY <1>2, UntouchedTexts
<1>4. /\ \A q \in Process \ {p} : open_files'[q] = open_files[q]
      /\ open_files'[p] = [i \in Ids(p) \ {id} |-> open_files[p][i]]
  BY <1>1, <1>2 DEF TypeOK, AreContexts
<1>5. \A q \in Process \ {p} : Opened(q)' = Opened(q)
  BY <1>4 DEF Opened, Ids
<1>6. Opened(p)' = Flat!Without(p, id)
  <2>1. Ids(p)' = Ids(p) \ {id} /\ \A i \in Ids(p) \ {id} : open_files'[p][i] = open_files[p][i]
    BY <1>4 DEF Ids
  <2>2. Flat!Handle(p) = {i \in Ids(p) : open_files[p][i].node # NULL}
    BY HandleOf DEF Flat!Handle
  <2>3. {i \in Ids(p)' : open_files'[p][i].node # NULL} = Flat!Handle(p) \ {id}
    BY <2>1, <2>2
  <2>4. Opened(p)' = [i \in Flat!Handle(p) \ {id} |->
                        [file |-> open_files'[p][i].node, pos |-> open_files'[p][i].pos]]
    BY <2>3 DEF Opened
  <2>5. ASSUME NEW i \in Flat!Handle(p) \ {id}
        PROVE  [file |-> open_files'[p][i].node, pos |-> open_files'[p][i].pos] = Handles[p][i]
    <3>1. i \in DOMAIN Handles[p] /\ i \in Ids(p) \ {id}
      BY <2>2 DEF Flat!Handle
    <3>2. Handles[p][i] = [file |-> open_files[p][i].node, pos |-> open_files[p][i].pos]
      BY <3>1, HandleOf
    <3>3. QED BY <2>1, <3>1, <3>2
  <2>6. QED BY <2>4, <2>5 DEF Flat!Without
<1>7. Handles' = [Handles EXCEPT ![p] = Flat!Without(p, id)]
  BY <1>5, <1>6 DEF Handles
<1>8. id \in Flat!Handle(p) /\ Flat!Close(p, id)
  BY <1>2, <1>3, <1>7, HandleOf DEF Flat!Close, Flat!Handle
<1>9. QED BY <1>3, <1>8 DEF FlatStep, Flat!Next

\* A directory that is read.
LEMMA ListIsFlat ==
  ASSUME FilesInv, StrayInv, NEW p \in Process, NEW id, List(p, id)
  PROVE  StrayInv' /\ FlatStep
<1>1. TypeOK
  BY DEF FilesInv, FileTypes
<1>2. /\ id \in Ids(p) /\ answer' = <<"done">> /\ UNCHANGED <<nodes, strayed>>
      /\ open_files' = [open_files EXCEPT ![p][id].listing = "fresh"]
  BY DEF List, OnDirectory, Usable, treeVars
<1>3. StrayInv' /\ Texts' = Texts
  BY <1>2, UntouchedTexts
<1>4. SamePlaces(open_files')
  <2>1. \A q \in Process : open_files[q] \in [Ids(q) -> ContextRecord]
    BY <1>1 DEF TypeOK, AreContexts, Ids
  <2>2. /\ \A q \in Process \ {p} : open_files'[q] = open_files[q]
        /\ open_files'[p] = [open_files[p] EXCEPT ![id] = [open_files[p][id] EXCEPT !.listing = "fresh"]]
    BY <1>1, <1>2 DEF TypeOK, AreContexts
  <2>3. /\ DOMAIN open_files'[p] = Ids(p)
        /\ open_files'[p][id] = [open_files[p][id] EXCEPT !.listing = "fresh"]
        /\ \A j \in Ids(p) \ {id} : open_files'[p][j] = open_files[p][j]
    BY <1>2, <2>1, <2>2
  <2>4. /\ open_files'[p][id].node = open_files[p][id].node
        /\ open_files'[p][id].pos = open_files[p][id].pos
    BY <1>2, <2>1, <2>3 DEF ContextRecord
  <2>5. QED BY <2>2, <2>3, <2>4 DEF SamePlaces, Ids
<1>5. Handles' = Handles
  BY <1>4, SameHandles
<1>6. Flat!Other
  BY <1>2, <1>3, <1>5 DEF Flat!Other
<1>7. QED BY <1>3, <1>6 DEF FlatStep, Flat!Next

\* Submanager.seek()
LEMMA SeekIsFlat ==
  ASSUME FilesInv, StrayInv, NEW p \in Process, NEW id, NEW offset \in Offsets,
         NEW from \in {"FromStart", "FromHere", "FromEnd"}, Seek(p, id, offset, from)
  PROVE  StrayInv' /\ FlatStep
<1>1. TypeOK
  BY DEF FilesInv, FileTypes
<1>2. PICK c : c = open_files[p][id]
  OBVIOUS
<1>3. PICK pos : pos = SeekFile(nodes[c.node].file, c.pos, offset, from)
  OBVIOUS
<1>4. /\ OnFile(p, id) /\ pos \in 0..MaxLength /\ answer' = <<"done">>
      /\ open_files' = [open_files EXCEPT ![p][id].pos = pos]
      /\ UNCHANGED <<nodes, strayed>>
  BY <1>2, <1>3 DEF Seek, treeVars
<1>5. StrayInv' /\ Texts' = Texts
  BY <1>4, UntouchedTexts
<1>6. c.node \in Live
  BY <1>2, <1>4, FileOfContext
<1>7. id \in Flat!Handle(p) /\ Flat!Move(p, id, pos) /\ Handles[p][id] = [file |-> c.node, pos |-> c.pos]
  BY <1>1, <1>2, <1>4, PlaceMoves DEF OnFile
<1>8. pos \in Flat!Target(p, id, offset)
  <2>1. /\ Texts[c.node] = IF c.node \in strayed THEN NULL ELSE Concatenated(nodes[c.node].file.pages)
        /\ Len(Concatenated(nodes[c.node].file.pages)) = nodes[c.node].file.total_written
        /\ Texts[c.node] = NULL <=> c.node \in strayed
    BY <1>6, KnownText
  <2>2. PICK h : h = Handles[p][id]
    OBVIOUS
  <2>3. h.file = c.node /\ h.pos = c.pos
    BY <1>7, <2>2
  <2>4. CASE Texts[c.node] = NULL
    BY <1>4, <2>2, <2>3, <2>4 DEF Flat!Target
  <2>5. CASE Texts[c.node] # NULL
    <3>1. Len(Texts[c.node]) = nodes[c.node].file.total_written
      BY <2>1, <2>5
    <3>2. pos = offset + 0 \/ pos = offset + c.pos \/ pos = offset + Len(Texts[c.node])
      BY <1>3, <3>1 DEF SeekFile
    <3>3. \E n \in {0, c.pos, Len(Texts[c.node])} : pos = offset + n
      BY <3>2
    <3>4. \E n \in {0, h.pos, Len(Texts[h.file])} : pos = n + offset
      <4> DEFINE l == Len(Texts[c.node])
      <4>1. l \in Nat /\ c.pos \in Nat /\ offset \in Int
        <5>1. nodes[c.node].file.total_written \in Nat /\ c.pos \in 0..MaxLength
          BY <1>2, <1>4, FileOfContext DEF FileRecords
        <5>2. QED BY <3>1, <5>1, FilesAssumption
      <4>2. PICK n \in {0, c.pos, l} : pos = offset + n
        BY <3>3
      <4> HIDE DEF l
      <4>3. pos = n + offset
        BY <4>1, <4>2
      <4>4. n \in {0, h.pos, Len(Texts[h.file])}
        BY <2>3, <4>2 DEF l
      <4>5. QED BY <4>3, <4>4
    <3>5. QED BY <1>4, <2>2, <2>3, <2>5, <3>4 DEF Flat!Target
  <2>6. QED BY <2>4, <2>5
<1>9. Flat!Seek(p, id, pos)
  BY <1>4, <1>5, <1>7 DEF Flat!Seek
<1>10. QED BY <1>5, <1>7, <1>8, <1>9 DEF FlatStep, Flat!Next

\* Submanager.read()
LEMMA ReadIsFlat ==
  ASSUME FilesInv, StrayInv, NEW p \in Process, NEW id, NEW wanted \in Lengths,
         Read(p, id, wanted)
  PROVE  StrayInv' /\ FlatStep
<1>1. TypeOK
  BY DEF FilesInv, FileTypes
<1>2. PICK c : c = open_files[p][id]
  OBVIOUS
<1>3. PICK file : file = nodes[c.node].file
  OBVIOUS
<1>4. PICK r : r = ReadFile(file, c.pos, wanted)
  OBVIOUS
<1>5. /\ OnFile(p, id) /\ answer' = <<"read", r.bytes>>
      /\ open_files' = [open_files EXCEPT ![p][id].pos = r.pos]
      /\ UNCHANGED <<nodes, strayed>>
  BY <1>2, <1>3, <1>4 DEF Read, treeVars
<1>6. StrayInv' /\ Texts' = Texts
  BY <1>5, UntouchedTexts
<1>7. /\ c.node \in Live /\ c.pos \in 0..MaxLength /\ file \in FileRecords
      /\ PagesOK(file) /\ file.total_written <= MaxLength
  BY <1>2, <1>3, <1>5, FileOfContext
<1>8. PICK text : text = Concatenated(file.pages)
  OBVIOUS
<1>9. /\ r.pos = c.pos + Len(r.bytes) /\ Len(r.bytes) <= wanted
      /\ FullPages(file.pages) =>
           r.bytes = SubSeq(text, c.pos + 1,
                            IF c.pos + wanted < Len(text) THEN c.pos + wanted ELSE Len(text))
  <2>1. wanted \in Nat
    BY FilesAssumption
  <2>2. QED BY <1>4, <1>7, <1>8, <2>1, FileIsRead
<1>10. id \in Flat!Handle(p) /\ Flat!Move(p, id, r.pos) /\ Handles[p][id] = [file |-> c.node, pos |-> c.pos]
  BY <1>1, <1>2, <1>5, PlaceMoves DEF OnFile
<1>11. /\ Texts[c.node] = (IF c.node \in strayed THEN NULL ELSE text)
       /\ Texts[c.node] = NULL <=> c.node \in strayed
  BY <1>3, <1>7, <1>8, KnownText
<1>12. answer'[1] = "read" /\ answer'[2] = r.bytes
  BY <1>5
<1>13. PICK h : h = Handles[p][id]
  OBVIOUS
<1>14. h.file = c.node /\ h.pos = c.pos
  BY <1>10, <1>13
<1>15. Flat!Move(p, id, h.pos + Len(answer'[2]))
  BY <1>9, <1>10, <1>12, <1>14
<1>16. IF Texts[h.file] = NULL THEN Len(answer'[2]) <= wanted
       ELSE answer'[2] = SubSeq(Texts[h.file], h.pos + 1,
                                IF h.pos + wanted < Len(Texts[h.file]) THEN h.pos + wanted
                                ELSE Len(Texts[h.file]))
  <2>1. CASE c.node \in strayed
    BY <1>9, <1>11, <1>12, <1>14, <2>1
  <2>2. CASE c.node \notin strayed
    <3>1. FullPages(file.pages)
      BY <1>3, <1>7, <2>2 DEF StrayInv
    <3>2. Texts[h.file] = text /\ Texts[h.file] # NULL
      BY <1>11, <1>14, <2>2
    <3>3. QED BY <1>9, <1>12, <1>14, <3>1, <3>2
  <2>3. QED BY <2>1, <2>2
<1>17. Flat!Read(p, id, wanted)
  BY <1>6, <1>12, <1>13, <1>15, <1>16, Zenon DEF Flat!Read
<1>18. QED BY <1>6, <1>10, <1>17 DEF FlatStep, Flat!Next

\* What FlatFiles has Put do is what Puts says of the pages.
LEMMA PutsIsPut ==
  ASSUME NEW old \in Seq(Byte), NEW new \in Seq(Byte), NEW pos \in Nat, NEW bytes \in Seq(Byte),
         NEW n \in 0..Len(bytes), Puts(new, old, pos, bytes, n)
  PROVE  new = Flat!Put(old, pos, SubSeq(bytes, 1, n))
<1>1. PICK part : part = SubSeq(bytes, 1, n)
  OBVIOUS
<1>2. Len(part) = n /\ \A k \in 1..n : part[k] = bytes[k]
  BY <1>1
<1>3. /\ Len(new) = IF pos + n > Len(old) THEN pos + n ELSE Len(old)
      /\ \A k \in 1..Len(new) :
           new[k] = IF k \in (pos + 1)..(pos + n) THEN bytes[k - pos] ELSE old[k]
  BY DEF Puts
<1>4. n \in Nat /\ Len(new) \in Nat
  OBVIOUS
<1>5. ASSUME NEW k \in 1..Len(new)
      PROVE  new[k] = IF k \in pos + 1..pos + n THEN part[k - pos] ELSE old[k]
  <2>1. CASE k \in (pos + 1)..(pos + n)
    <3>1. k - pos \in 1..n
      BY <1>4, <2>1
    <3>2. QED BY <1>2, <1>3, <2>1, <3>1
  <2>2. CASE k \notin (pos + 1)..(pos + n)
    BY <1>3, <2>2
  <2>3. QED BY <2>1, <2>2
<1>6. new = [k \in 1..Len(new) |-> new[k]]
  OBVIOUS
<1>7. new = [k \in 1..(IF pos + n > Len(old) THEN pos + n ELSE Len(old)) |->
               IF k \in pos + 1..pos + n THEN part[k - pos] ELSE old[k]]
  BY <1>3, <1>5, <1>6
<1>8. new = Flat!Put(old, pos, part)
  BY <1>2, <1>7 DEF Flat!Put
<1>9. QED BY <1>1, <1>8

\* Submanager.write()
LEMMA WriteIsFlat ==
  ASSUME FilesInv, StrayInv, NEW p \in Process, NEW id, NEW bytes \in Data, Write(p, id, bytes)
  PROVE  StrayInv' /\ FlatStep
<1>1. TypeOK
  BY DEF FilesInv, FileTypes
<1>2. PICK c : c = open_files[p][id]
  OBVIOUS
<1>3. PICK t : t = c.node
  OBVIOUS
<1>4. PICK file : file = nodes[t].file
  OBVIOUS
<1>5. PICK room \in 0..Len(bytes) :
        LET w == WriteFile(file, c.pos, bytes, room)
        IN /\ nodes' = [nodes EXCEPT ![t].file = w.file]
           /\ open_files' = [open_files EXCEPT ![p][id].pos = w.pos]
           /\ strayed' = IF w.pos # c.pos /\ ~Writable(file, c.pos)
                         THEN strayed \cup {t} ELSE strayed
           /\ answer' = IF w.room < 0 THEN <<"error">> ELSE <<"done">>
  BY <1>2, <1>3, <1>4 DEF Write
<1>6. PICK w : w = WriteFile(file, c.pos, bytes, room)
  OBVIOUS
<1>7. /\ nodes' = [nodes EXCEPT ![t].file = w.file]
      /\ open_files' = [open_files EXCEPT ![p][id].pos = w.pos]
      /\ strayed' = IF w.pos # c.pos /\ ~Writable(file, c.pos) THEN strayed \cup {t} ELSE strayed
      /\ answer' = IF w.room < 0 THEN <<"error">> ELSE <<"done">>
      /\ OnFile(p, id)
  BY <1>5, <1>6 DEF Write
<1>8. /\ t \in Live /\ nodes[t] \in NodeRecord /\ file \in FileRecords /\ PagesOK(file)
      /\ c.pos \in Nat /\ bytes \in Seq(Byte) /\ Len(bytes) \in Nat /\ room \in Nat
  BY <1>2, <1>3, <1>4, <1>7, FileOfContext, FilesAssumption
<1>9. PICK n : n = w.pos - c.pos
  OBVIOUS
<1>10. /\ w.file \in FileRecords /\ PagesOK(w.file) /\ w.pos \in Nat /\ w.room \in Int
       /\ n \in 0..Len(bytes) /\ w.pos = c.pos + n
       /\ n = 0 => w.file = file
       /\ n # 0 => w.file.pages # <<>>
       /\ w.room < 0 => n < Len(bytes)
       /\ w.room >= 0 => n = Len(bytes)
       /\ FullPages(file.pages) /\ Writable(file, c.pos) =>
            /\ FullPages(w.file.pages)
            /\ Puts(Concatenated(w.file.pages), Concatenated(file.pages), c.pos, bytes, n)
  <2>1. /\ w.file \in FileRecords /\ PagesOK(w.file)
        /\ w.pos \in 0..(c.pos + Len(bytes)) /\ w.room \in Int
        /\ Written(w, file, c.pos, bytes) /\ (w.room >= 0 => w.pos = c.pos + Len(bytes))
    BY <1>6, <1>8, FileIsWritten
  <2>2. w.pos \in Nat /\ w.pos = c.pos + n /\ (w.room >= 0 => n = Len(bytes))
    BY <1>8, <1>9, <2>1
  <2>3. QED BY <1>9, <2>1, <2>2 DEF Written
<1>11. /\ nodes'[t] = [nodes[t] EXCEPT !.file = w.file]
       /\ \A m \in RamNode \ {t} : nodes'[m] = nodes[m]
       /\ t \in RamNode /\ t \in Node /\ t \notin Disk
  <2>1. t \in RamNode /\ t \in Node /\ t \notin Disk
    BY <1>8, FilesAssumption DEF Live, Node
  <2>2. QED BY <1>1, <1>7, <2>1 DEF TypeOK
<1>12. nodes'[t].file = w.file /\ nodes'[t] \in NodeRecord
  BY <1>8, <1>10, <1>11 DEF NodeRecord, FileRecords
<1>13. Live' = Live
  <2>1. nodes'[t] # NULL
    BY <1>12, FilesAssumption
  <2>2. QED BY <1>8, <1>11, <2>1 DEF Live
<1>14. w.pos # c.pos <=> n # 0
  BY <1>8, <1>10
<1>15. \A m \in Live \ {t} : nodes'[m].file = nodes[m].file
  BY <1>11 DEF Live
<1>16. StrayInv'
  <2>1. strayed' \subseteq Live'
    BY <1>7, <1>8, <1>13 DEF StrayInv
  <2>2. ASSUME NEW m \in strayed' PROVE nodes'[m].file.pages # <<>>
    <3>1. CASE m # t
      <4>1. m \in strayed /\ m \in Live
        BY <1>7, <2>2, <3>1 DEF StrayInv
      <4>2. QED BY <1>15, <3>1, <4>1 DEF StrayInv
    <3>2. CASE m = t /\ n # 0
      BY <1>10, <1>12, <3>2
    <3>3. CASE m = t /\ n = 0
      <4>1. m \in strayed /\ w.file = file
        BY <1>7, <1>10, <1>14, <2>2, <3>3
      <4>2. QED BY <1>4, <1>12, <3>3, <4>1 DEF StrayInv
    <3>4. QED BY <3>1, <3>2, <3>3
  <2>3. ASSUME NEW m \in Live' \ strayed' PROVE FullPages(nodes'[m].file.pages)
    <3>1. m \in Live \ strayed
      BY <1>7, <1>13, <2>3
    <3>2. CASE m # t
      BY <1>15, <3>1, <3>2 DEF StrayInv
    <3>3. CASE m = t
      <4>1. FullPages(file.pages)
        BY <1>4, <3>1, <3>3 DEF StrayInv
      <4>2. CASE n = 0
        BY <1>10, <1>12, <3>3, <4>1, <4>2
      <4>3. CASE n # 0
        <5>1. Writable(file, c.pos)
          BY <1>7, <1>14, <2>3, <3>3, <4>3
        <5>2. QED BY <1>10, <1>12, <3>3, <4>1, <5>1
      <4>4. QED BY <4>2, <4>3
    <3>4. QED BY <3>2, <3>3
  <2>4. QED BY <2>1, <2>2, <2>3 DEF StrayInv
<1>17. /\ Texts[t] = (IF t \in strayed THEN NULL ELSE Concatenated(file.pages))
       /\ Concatenated(file.pages) \in Seq(Byte)
       /\ Len(Concatenated(file.pages)) = file.total_written
       /\ Texts[t] = NULL <=> t \in strayed
  BY <1>4, <1>8, KnownText
<1>18. Texts'[t] = IF t \in strayed' THEN NULL ELSE Concatenated(w.file.pages)
  <2>1. Texts'[t] = Text(t)'
    BY <1>11 DEF Texts
  <2>2. nodes'[t] # NULL
    BY <1>12, FilesAssumption
  <2>3. QED BY <1>11, <1>12, <2>1, <2>2 DEF Text
<1>19. \A m \in Node \ {t} : Texts'[m] = Texts[m]
  <2>1. ASSUME NEW m \in Node \ {t} PROVE Text(m)' = Text(m)
    <3>1. CASE m \in Disk
      BY <3>1 DEF Text
    <3>2. CASE m \notin Disk
      <4>1. nodes'[m] = nodes[m] /\ (m \in strayed' <=> m \in strayed)
        BY <1>7, <1>11, <3>2 DEF Node
      <4>2. QED BY <3>2, <4>1 DEF Text
    <3>3. QED BY <3>1, <3>2
  <2>2. QED BY <2>1 DEF Texts
<1>20. Flat!Writable(Len(Concatenated(file.pages)), c.pos) <=> Writable(file, c.pos)
  BY <1>17 DEF Flat!Writable, Writable
<1>21. Texts'[t] = IF Texts[t] = NULL THEN NULL
                   ELSE IF n = 0 THEN Texts[t]
                   ELSE IF Flat!Writable(Len(Texts[t]), c.pos)
                        THEN Flat!Put(Texts[t], c.pos, SubSeq(bytes, 1, n))
                   ELSE NULL
  <2>1. CASE t \in strayed
    <3>1. t \in strayed'
      BY <1>7, <2>1
    <3>2. QED BY <1>17, <1>18, <2>1, <3>1
  <2>2. CASE t \notin strayed
    <3>1. Texts[t] = Concatenated(file.pages) /\ Texts[t] # NULL
      BY <1>17, <2>2
    <3>2. CASE n = 0
      <4>1. strayed' = strayed /\ w.file = file
        BY <1>7, <1>10, <1>14, <3>2
      <4>2. QED BY <1>18, <2>2, <3>1, <3>2, <4>1
    <3>3. CASE n # 0 /\ ~Writable(file, c.pos)
      <4>1. t \in strayed'
        BY <1>7, <1>14, <3>3
      <4>2. QED BY <1>18, <1>20, <3>1, <3>3, <4>1
    <3>4. CASE n # 0 /\ Writable(file, c.pos)
      <4>1. t \notin strayed' /\ t \in Live' \ strayed'
        BY <1>7, <1>8, <1>13, <2>2, <3>4
      <4>2. FullPages(file.pages)
        BY <1>4, <1>8, <2>2 DEF StrayInv
      <4>3. Puts(Concatenated(w.file.pages), Concatenated(file.pages), c.pos, bytes, n)
        BY <1>10, <3>4, <4>2
      <4>4. Concatenated(w.file.pages) \in Seq(Byte)
        <5>1. w.file.pages \in Seq(Seq(Byte))
          BY <1>10 DEF FileRecords
        <5>2. QED BY <5>1, TextIsBytes
      <4>5. Concatenated(w.file.pages) = Flat!Put(Concatenated(file.pages), c.pos, SubSeq(bytes, 1, n))
        BY <1>8, <1>10, <1>17, <4>3, <4>4, PutsIsPut
      <4>6. Flat!Writable(Len(Texts[t]), c.pos)
        BY <1>20, <3>1, <3>4
      <4>7. Texts'[t] = Concatenated(w.file.pages)
        BY <1>18, <4>1
      <4>8. QED BY <3>1, <3>4, <4>5, <4>6, <4>7
    <3>5. QED BY <3>2, <3>3, <3>4
  <2>3. QED BY <2>1, <2>2
<1>22. id \in Flat!Handle(p) /\ Flat!Move(p, id, w.pos) /\ Handles[p][id] = [file |-> t, pos |-> c.pos]
  BY <1>1, <1>2, <1>3, <1>7, PlaceMoves DEF OnFile
<1>23. PICK h : h = Handles[p][id] /\ h.file = t /\ h.pos = c.pos
  BY <1>22
<1>24. answer' = IF n = Len(bytes) THEN <<"done">> ELSE <<"error">>
  BY <1>7, <1>8, <1>10
<1>25. Texts' = [Texts EXCEPT ![h.file] =
                   IF @ = NULL THEN NULL
                   ELSE IF n = 0 THEN @
                   ELSE IF Flat!Writable(Len(@), h.pos) THEN Flat!Put(@, h.pos, SubSeq(bytes, 1, n))
                   ELSE NULL]
  <2>1. Texts' = [m \in Node |-> Texts'[m]] /\ Texts = [m \in Node |-> Texts[m]]
    BY DEF Texts
  <2>2. QED BY <1>11, <1>19, <1>21, <1>23, <2>1
<1>26. Flat!Write(p, id, bytes)
  <2>1. Flat!Move(p, id, h.pos + n)
    BY <1>10, <1>22, <1>23
  <2>2. QED BY <1>10, <1>23, <1>24, <1>25, <2>1, Zenon DEF Flat!Write
<1>27. QED BY <1>16, <1>22, <1>26 DEF FlatStep, Flat!Next

\* In the beginning there are neither texts nor ids.
LEMMA InitIsFlat == Init => StrayInv /\ Flat!Init
<1> SUFFICES ASSUME Init PROVE StrayInv /\ Flat!Init
  OBVIOUS
<1>1. /\ RamRoot \in RamNode /\ NULL \notin NodeRecord
      /\ NewNode("directory", RamRoot).file.pages = <<>>
  BY FilesAssumption DEF NewNode, NewPageFile
<1>2. Concatenated(<<>>) = <<>> /\ FullPages(<<>>)
  BY NoPages
<1>3. \A n \in Live : n = RamRoot /\ nodes[n].file.pages = <<>>
  BY <1>1 DEF Init, Live
<1>4. StrayInv
  BY <1>2, <1>3 DEF StrayInv, Init
<1>5. \A n \in Node : Text(n) = <<>>
  <2>1. ASSUME NEW n \in Node PROVE Text(n) = <<>>
    <3>1. n \notin strayed
      BY DEF Init
    <3>2. CASE n \in Disk \/ nodes[n] = NULL
      BY <3>2 DEF Text
    <3>3. CASE ~(n \in Disk \/ nodes[n] = NULL)
      <4>1. n \in Live
        BY <3>3 DEF Live, Node
      <4>2. QED BY <1>2, <1>3, <3>1, <3>3, <4>1 DEF Text
    <3>4. QED BY <3>2, <3>3
  <2>2. QED BY <2>1
<1>6. \A p \in Process : Opened(p) = <<>>
  BY DEF Init, Opened, Ids
<1>7. QED BY <1>4, <1>5, <1>6 DEF Flat!Init, Texts, Handles, Init

\* A call on a path, as FlatFiles sees it.
LEMMA OnPathIsFlat ==
  ASSUME FilesInv, StrayInv, NEW p \in Process, NEW path \in Path, OnPath(p, path)
  PROVE  StrayInv' /\ FlatStep
<1>1. TypeOK
  BY DEF FilesInv, FileTypes
<1>2. ASSUME NEW kind \in {"file", "directory"}, Create(p, path, kind) PROVE StrayInv' /\ FlatStep
  BY <1>2, CreateIsFlat
<1>3. ASSUME CreateFails(p, path) \/ UnlinkFails(p, path) PROVE StrayInv' /\ FlatStep
  BY <1>1, <1>3, OtherSteps DEF CreateFails, UnlinkFails, treeVars, openVars
<1>4. CASE Unlink(p, path)
  BY <1>4, UnlinkIsFlat
<1>5. CASE UnlinkPanics(p, path)
  BY <1>1, <1>5, HaltedSteps DEF UnlinkPanics, Halt, treeVars, openVars
<1>6. CASE OpenNew(p, path)
  BY <1>6, OpenNewIsFlat
<1>7. ASSUME NEW mode \in Modes, Open(p, path, mode) PROVE StrayInv' /\ FlatStep
  BY <1>7, OpenIsFlat
<1>8. ASSUME NEW mode \in Modes, OpenFails(p, path, mode) PROVE StrayInv' /\ FlatStep
  BY <1>1, <1>8, OtherSteps DEF OpenFails, Refuse, treeVars, openVars
<1>9. CASE SetCwd(p, path)
  BY <1>1, <1>9, OtherSteps DEF SetCwd, treeVars, openVars
<1>10. CASE SetCwdFails(p, path)
  BY <1>1, <1>10, OtherSteps DEF SetCwdFails, Refuse, treeVars, openVars
<1>11. QED BY <1>2, <1>3, <1>4, <1>5, <1>6, <1>7, <1>8, <1>9, <1>10, Zenon DEF OnPath

\* A call on an id, as FlatFiles sees it.
LEMMA OnIdIsFlat ==
  ASSUME FilesInv, StrayInv, NEW p \in Process, NEW id, OnId(p, id)
  PROVE  StrayInv' /\ FlatStep
<1>1. TypeOK
  BY DEF FilesInv, FileTypes
<1>2. ASSUME InvalidId(p, id) \/ NotOnDirectory(p, id) PROVE StrayInv' /\ FlatStep
  BY <1>1, <1>2, OtherSteps DEF InvalidId, NotOnDirectory, Refuse, treeVars, openVars
<1>3. ASSUME UseFreed(p, id) \/ ListStale(p, id) PROVE StrayInv' /\ FlatStep
  BY <1>1, <1>3, HaltedSteps DEF UseFreed, ListStale, Halt, treeVars, openVars
<1>4. CASE Close(p, id)
  BY <1>4, CloseIsFlat
<1>5. ASSUME NEW wanted \in Lengths, Read(p, id, wanted) PROVE StrayInv' /\ FlatStep
  BY <1>5, ReadIsFlat
<1>6. ASSUME NEW bytes \in Data, Write(p, id, bytes) PROVE StrayInv' /\ FlatStep
  BY <1>6, WriteIsFlat
<1>7. ASSUME NEW offset \in Offsets, NEW from \in {"FromStart", "FromHere", "FromEnd"},
             Seek(p, id, offset, from)
      PROVE  StrayInv' /\ FlatStep
  BY <1>7, SeekIsFlat
<1>8. ASSUME NEW offset \in Offsets, NEW from \in {"FromStart", "FromHere", "FromEnd"},
             SeekFails(p, id, offset, from)
      PROVE  StrayInv' /\ FlatStep
  BY <1>1, <1>8, OtherSteps DEF SeekFails, Refuse, treeVars, openVars
<1>9. CASE List(p, id)
  BY <1>9, ListIsFlat
<1>10. QED BY <1>2, <1>3, <1>4, <1>5, <1>6, <1>7, <1>8, <1>9, Zenon DEF OnId

\* Every step of the file system is one of FlatFiles, or does not show.
LEMMA StepIsFlat == FilesInv /\ StrayInv /\ [Next]_vars => StrayInv' /\ FlatStep
<1> SUFFICES ASSUME FilesInv, StrayInv, [Next]_vars PROVE StrayInv' /\ FlatStep
  OBVIOUS
<1>1. CASE Next
  <2>1. PICK p \in Process : (\E path \in Path : OnPath(p, path)) \/ (\E id \in 0..MaxIds : OnId(p, id))
    BY <1>1 DEF Next
  <2>2. QED BY <2>1, OnPathIsFlat, OnIdIsFlat
<1>2. CASE UNCHANGED vars
  <2>1. TypeOK /\ UNCHANGED <<nodes, strayed, open_files, answer>>
    BY <1>2 DEF vars, treeVars, openVars, FilesInv, FileTypes
  <2>2. QED BY <2>1, HaltedSteps
<1>3. QED BY <1>1, <1>2

\* Whatever happens to directories, ids, positions and pages, processes see files that

\* are sequences of bytes, each of their ids leads to the file it was given for, and a
\* file is read as it was written unless it was written behind its end or before its
\* last page.
THEOREM FilesActFlat == Spec => ActsAsFlatFiles
<1>1. FilesInv /\ StrayInv /\ [Next]_vars => StrayInv' /\ [Flat!Next]_(Flat!vars)
  BY StepIsFlat DEF FlatStep
<1>2. QED BY <1>1, InitIsFlat, FilesInvHolds, PTL DEF Spec, ActsAsFlatFiles, Flat!Spec
=============================================================================
