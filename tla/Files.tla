-------------------------------- MODULE Files --------------------------------
(***************************************************************************)
(* The virtual file system (kernel/fs.zig) with the RAM disk               *)
(* (kernel/fs/RamDisk.zig) that the kernel mounts in a directory of its    *)
(* Ext2 disk, and the files its processes have open.  All calls run with   *)
(* interrupts disabled, so each is one action.                             *)
(***************************************************************************)
EXTENDS PageFile, SequencesExt, FiniteSets, TLC

CONSTANTS
  Process,
  RamNode,      \* memory for nodes of the RAM disk
  RamRoot,      \* root_node
  DiskRoot, MountPoint,   \* the directories of the disk, which cannot be written
  MountName,    \* "ramdisk"
  Name,         \* other names of files
  Path,         \* what programs pass: [absolute, components, slash]
  Data,         \* what they write in one call
  Lengths,      \* how much they read in one call
  Offsets,      \* how far they seek
  NULL,
  MaxIds,       \* bound on next_file_id
  MaxCalls,     \* bound on the number of calls
  MaxLength     \* bound on positions and lengths

Disk == {DiskRoot, MountPoint}
Node == RamNode \cup Disk

\* What a path can have between its slashes, besides "..".
Component == Name \cup {MountName}

Byte == UNION {Range(bytes) : bytes \in Data}

\* Node and its PageFile
NodeRecord ==
  [kind : {"file", "directory"}, parent : RamNode,
   nodes : UNION {[names -> RamNode] : names \in SUBSET Component},
   file : [pages : Seq(Seq(Byte)), total_written : Nat]]

ASSUME FilesAssumption ==
  /\ IsFiniteSet(Process)
  /\ RamRoot \in RamNode /\ NULL \notin Node \cup NodeRecord
  /\ DiskRoot # MountPoint /\ Disk \cap RamNode = {}
  /\ ".." \notin Component
  /\ Path \subseteq [absolute : BOOLEAN, components : Seq(Component \cup {".."}), slash : BOOLEAN]
  /\ Data \subseteq Seq(Byte) /\ NULL \notin Seq(Byte) /\ Lengths \subseteq Nat
  /\ Offsets \subseteq Int
  /\ MaxIds \in Nat /\ MaxLength \in Nat

VARIABLES
  nodes,         \* the nodes of the RAM disk, NULL where there is none
  context_rc,    \* Vnode.context_rc
  open_files,    \* of each Submanager: its contexts by id
  next_file_id,
  cwd,           \* Process.cwd
  answer,        \* of the last call: done, an error, or what was read
  halted,        \* how the kernel stopped
  calls,         \* made so far, up to MaxCalls
  strayed        \* (history) files written where their pages cannot take it

treeVars == <<nodes, context_rc, strayed>>
openVars == <<open_files, next_file_id>>
vars == <<treeVars, openVars, cwd, answer, halted, calls>>

\* A hash map with one more entry.
With(map, key, value) ==
  [k \in DOMAIN map \cup {key} |-> IF k = key THEN value ELSE map[k]]

\* Node.init()
NewNode(kind, parent) ==
  [kind |-> kind, parent |-> parent, nodes |-> <<>>, file |-> NewPageFile]

Init ==
  /\ nodes = [n \in RamNode |-> IF n = RamRoot THEN NewNode("directory", RamRoot) ELSE NULL]
  /\ context_rc = [n \in Node |-> 0]
  /\ open_files = [p \in Process |-> <<>>]
  /\ next_file_id = [p \in Process |-> 0]
  /\ cwd = [p \in Process |-> <<>>]
  /\ answer = <<"done">>
  /\ halted = "no"
  /\ calls = 0
  /\ strayed = {}

Halt(how) == halted' = how /\ UNCHANGED <<treeVars, openVars, cwd, answer>>

Refuse ==
  /\ answer' = <<"error">>
  /\ UNCHANGED <<treeVars, openVars, cwd, halted>>

-----------------------------------------------------------------------------
(* Nodes and paths *)

Live == {n \in RamNode : nodes[n] # NULL}

IsDirectory(n) == n \in Disk \cup {m \in Live : nodes[m].kind = "directory"}

\* node_with_content(): what is mounted on a node hides it.
Content(n) == IF n = MountPoint THEN RamRoot ELSE n

\* find_in_directory_i() of a node with content, NULL if there is nothing.
Find(d, name) ==
  CASE d = DiskRoot /\ name = ".." -> DiskRoot
    [] d = DiskRoot /\ name = MountName -> MountPoint
    [] d \in RamNode /\ name = ".." -> nodes[d].parent
    [] d \in RamNode /\ name # ".." /\ name \in DOMAIN nodes[d].nodes -> nodes[d].nodes[name]
    [] OTHER -> NULL

IsEmpty(d) == d # DiskRoot /\ DOMAIN nodes[d].nodes = {}

\* path_to_list(): an absolute path does not begin with "..".
ToList(path) ==
  LET named == SelectInSeq(path.components, LAMBDA name : name # "..")
  IN CASE ~path.absolute -> path.components
       [] path.absolute /\ named = 0 -> <<>>
       [] OTHER -> SubSeq(path.components, named, Len(path.components))

\* get_absolute_path()
Absolute(p, path) == IF path.absolute THEN ToList(path) ELSE cwd[p] \o ToList(path)

\* A walk along a path: the node reached, the canonical path to it, and its error.
Walked(node, canonical, error) == [node |-> node, canonical |-> canonical, error |-> error]

\* Mutant: ".." takes nothing off the canonical path.
StepKeeping(w, name) ==
  LET d == Content(w.node)
  IN CASE w.error # "none" -> w
       [] w.error = "none" /\ ~IsDirectory(d) -> [w EXCEPT !.error = "NotADirectory"]
       [] w.error = "none" /\ IsDirectory(d) /\ Find(d, name) = NULL ->
            [w EXCEPT !.error = "FileNotFound"]
       [] OTHER ->
            Walked(Find(d, name),
                   IF name = ".." THEN w.canonical ELSE Append(w.canonical, name), "none")

\* One turn of resolve_path_i()'s loop.
Step(w, name) ==
  LET d == Content(w.node)
  IN CASE w.error # "none" -> w
       [] w.error = "none" /\ ~IsDirectory(d) -> [w EXCEPT !.error = "NotADirectory"]
       [] w.error = "none" /\ IsDirectory(d) /\ Find(d, name) = NULL ->
            [w EXCEPT !.error = "FileNotFound"]
       [] OTHER ->
            Walked(Find(d, name),
                   IF name # ".." THEN Append(w.canonical, name)
                   ELSE IF w.canonical = <<>> THEN <<>> ELSE Front(w.canonical),
                   "none")

\* resolve_path_i(): where it is after each turn, and at the end.
Turns(names) ==
  LET walked[i \in 0..Len(names)] ==
        IF i = 0 THEN Walked(DiskRoot, <<>>, "none") ELSE Step(walked[i - 1], names[i])
  IN walked

Walk(names) == Turns(names)[Len(names)]

\* resolve_path()
Resolve(p, path) ==
  LET w == Walk(Absolute(p, path))
  IN IF w.error = "none" /\ path.slash /\ ~IsDirectory(w.node)
     THEN [w EXCEPT !.error = "NotADirectory"] ELSE w

\* resolve_directory() and resolve_file()
ResolveDirectory(p, path) ==
  LET w == Resolve(p, path)
  IN IF w.error = "none" /\ ~IsDirectory(w.node) THEN [w EXCEPT !.error = "NotADirectory"] ELSE w

ResolveFile(p, path) ==
  LET w == Resolve(p, path)
  IN IF w.error = "none" /\ IsDirectory(w.node) THEN [w EXCEPT !.error = "NotAFile"] ELSE w

\* resolve_parent_directory(): the walk to the parent, and filename().
ChildName(p, path) == LET names == Absolute(p, path) IN IF names = <<>> THEN "/" ELSE Last(names)

ResolveParent(p, path) ==
  LET names == Absolute(p, path) IN Walk(IF names = <<>> THEN <<>> ELSE Front(names))

-----------------------------------------------------------------------------
(* Creating and removing *)

\* Vnode.create_node(): why it fails.
CreateError(p, path) ==
  LET w == ResolveParent(p, path)
      d == Content(w.node)
  IN CASE w.error # "none" -> w.error
       [] w.error = "none" /\ ~IsDirectory(d) -> "NotADirectory"
       [] w.error = "none" /\ IsDirectory(d) /\ Find(d, ChildName(p, path)) # NULL -> "AlreadyExists"
       [] w.error = "none" /\ d = DiskRoot /\ Find(d, ChildName(p, path)) = NULL -> "Unsupported"
       [] OTHER -> "none"

\* A directory changed: the iterators over it are out of date.
Outdated(d) ==
  [p \in Process |-> [i \in DOMAIN open_files[p] |->
     LET c == open_files[p][i]
     IN IF c.node # NULL /\ Content(c.node) = d /\ c.listing = "fresh"
        THEN [c EXCEPT !.listing = "stale"] ELSE c]]

\* Manager.create_node() with memory n for the node.
Added(p, path, kind, n) ==
  LET d == Content(ResolveParent(p, path).node)
  IN /\ n \in RamNode \ Live
     /\ nodes' = [nodes EXCEPT ![n] = NewNode(kind, d),
                              ![d].nodes = With(@, ChildName(p, path), n)]

\* Submanager.create() for Dispatcher.create_impl(), which tells the caller nothing.
Create(p, path, kind) ==
  /\ CreateError(p, path) = "none"
  /\ \E n \in RamNode : Added(p, path, kind, n) /\ context_rc' = [context_rc EXCEPT ![n] = 0]
  /\ open_files' = Outdated(Content(ResolveParent(p, path).node))
  /\ answer' = <<"done">>
  /\ UNCHANGED <<next_file_id, cwd, halted, strayed>>

CreateFails(p, path) ==
  /\ CreateError(p, path) # "none" \/ Live = RamNode
  /\ answer' = <<"done">>
  /\ UNCHANGED <<treeVars, openVars, cwd, halted>>

\* Vnode.unlink(): what it removes from which directory, and why it fails.
Target(p, path) == Find(Content(ResolveParent(p, path).node), ChildName(p, path))

\* Mutant: a directory is removed with what is in it.
UnlinkErrorBlind(p, path) ==
  LET w == ResolveParent(p, path)
      d == Content(w.node)
  IN CASE w.error # "none" -> w.error
       [] w.error = "none" /\ ~IsDirectory(d) -> "NotADirectory"
       [] w.error = "none" /\ IsDirectory(d) /\ Target(p, path) = NULL -> "FileNotFound"
       [] OTHER -> IF d = DiskRoot THEN "Unsupported" ELSE "none"

UnlinkError(p, path) ==
  LET w == ResolveParent(p, path)
      d == Content(w.node)
      t == Target(p, path)
  IN CASE w.error # "none" -> w.error
       [] w.error = "none" /\ ~IsDirectory(d) -> "NotADirectory"
       [] w.error = "none" /\ IsDirectory(d) /\ t = NULL -> "FileNotFound"
       [] w.error = "none" /\ IsDirectory(d) /\ t # NULL ->
            IF IsDirectory(t) /\ ~IsEmpty(Content(t)) THEN "DirectoryNotEmpty"
            ELSE IF d = DiskRoot THEN "Unsupported" ELSE "none"

\* Who has the node open keeps a pointer to freed memory.
Dangling(files, n) ==
  [p \in Process |-> [i \in DOMAIN files[p] |->
     IF files[p][i].node = n THEN [files[p][i] EXCEPT !.node = NULL] ELSE files[p][i]]]

\* PageFile.done() hands the pages of a file to an allocator they are not from.
HasPages(t) == t \in RamNode /\ nodes[t].file.pages # <<>>

\* Node.unlink_impl() of a node that is empty.
Unlink(p, path) ==
  LET d == Content(ResolveParent(p, path).node)
      t == Target(p, path)
  IN /\ UnlinkError(p, path) = "none"
     /\ ChildName(p, path) # ".." /\ ~HasPages(t)
     /\ nodes' = [nodes EXCEPT ![t] = NULL,
                              ![d].nodes = [x \in DOMAIN @ \ {ChildName(p, path)} |-> @[x]]]
     /\ open_files' = Dangling(Outdated(d), t)
     /\ context_rc' = [context_rc EXCEPT ![t] = 0]
     /\ answer' = <<"done">>
     /\ UNCHANGED <<strayed, next_file_id, cwd, halted>>

\* ".." is found in a directory but is none of its nodes.
UnlinkPanics(p, path) ==
  /\ UnlinkError(p, path) = "none"
  /\ ChildName(p, path) = ".." \/ HasPages(Target(p, path))
  /\ Halt("panic")

UnlinkFails(p, path) ==
  /\ UnlinkError(p, path) # "none"
  /\ answer' = <<"done">>
  /\ UNCHANGED <<treeVars, openVars, cwd, halted>>

-----------------------------------------------------------------------------
(* Open files *)

Context(n) == [node |-> n, pos |-> 0, listing |-> "none"]

\* The end of Submanager.open(): the context may be counted and the id used up when
\* there is no memory for them.
Attach(p, n, rc, files) ==
  /\ context_rc' = [context_rc EXCEPT ![n] = rc + 1]
  /\ next_file_id' = [next_file_id EXCEPT ![p] = @ + 1]
  /\ \/ /\ open_files' = [files EXCEPT ![p] = With(@, next_file_id[p], Context(n))]
        /\ answer' = <<"done">>
     \/ /\ open_files' = files
        /\ answer' = <<"error">>

\* What OpenOpts ask for: a directory, a file that exists, or any file.
Modes == {"dir", "existing", "create"}

ToOpen(p, path, mode) == IF mode = "dir" THEN ResolveDirectory(p, path) ELSE ResolveFile(p, path)

Open(p, path, mode) ==
  LET w == ToOpen(p, path, mode)
  IN /\ w.error = "none"
     /\ next_file_id[p] < MaxIds
     /\ Attach(p, w.node, context_rc[w.node], open_files)
     /\ UNCHANGED <<nodes, cwd, halted, strayed>>

\* resolve_or_create_file() does not find the file.
OpenNew(p, path) ==
  /\ ToOpen(p, path, "create").error = "FileNotFound"
  /\ CreateError(p, path) = "none"
  /\ next_file_id[p] < MaxIds
  /\ \E n \in RamNode :
       /\ Added(p, path, "file", n)
       /\ Attach(p, n, 0, Outdated(Content(ResolveParent(p, path).node)))
  /\ UNCHANGED <<cwd, halted, strayed>>

OpenFails(p, path, mode) ==
  LET error == ToOpen(p, path, mode).error
      create == mode = "create" /\ error = "FileNotFound"
  IN /\ error # "none"
     /\ create => CreateError(p, path) # "none" \/ Live = RamNode
     /\ Refuse

Ids(p) == DOMAIN open_files[p]

InvalidId(p, id) == id \notin Ids(p) /\ Refuse

\* The node was unlinked while it was open: its memory is used after it was freed.
UseFreed(p, id) == id \in Ids(p) /\ open_files[p][id].node = NULL /\ Halt("undefined")

Usable(p, id) == id \in Ids(p) /\ open_files[p][id].node # NULL

OnFile(p, id) == Usable(p, id) /\ ~IsDirectory(open_files[p][id].node)
OnDirectory(p, id) == Usable(p, id) /\ IsDirectory(open_files[p][id].node)

\* Mutant: the context is counted down twice.
CloseTwice(p, id) ==
  LET n == open_files[p][id].node
  IN /\ Usable(p, id)
     /\ open_files' = [open_files EXCEPT ![p] = [i \in Ids(p) \ {id} |-> @[i]]]
     /\ context_rc' = [context_rc EXCEPT ![n] = IF @ > 1 THEN @ - 2 ELSE 0]
     /\ answer' = <<"done">>
     /\ UNCHANGED <<nodes, strayed, next_file_id, cwd, halted>>

\* Context.close()
Close(p, id) ==
  LET n == open_files[p][id].node
  IN /\ Usable(p, id)
     /\ open_files' = [open_files EXCEPT ![p] = [i \in Ids(p) \ {id} |-> @[i]]]
     /\ context_rc' = [context_rc EXCEPT ![n] = IF @ > 0 THEN @ - 1 ELSE @]
     /\ answer' = <<"done">>
     /\ UNCHANGED <<nodes, strayed, next_file_id, cwd, halted>>

\* The open options are not looked at: what is open can be read and written.
Read(p, id, wanted) ==
  LET c == open_files[p][id]
      r == ReadFile(nodes[c.node].file, c.pos, wanted)
  IN /\ OnFile(p, id)
     /\ open_files' = [open_files EXCEPT ![p][id].pos = r.pos]
     /\ answer' = <<"read", r.bytes>>
     /\ UNCHANGED <<treeVars, next_file_id, cwd, halted>>

\* Pages are full but for the last as long as writes begin here.
Writable(file, pos) ==
  /\ pos <= file.total_written
  /\ pos >= file.total_written - (file.total_written % PageSize)

Write(p, id, bytes) ==
  LET c == open_files[p][id]
      file == nodes[c.node].file
  IN /\ OnFile(p, id)
     /\ c.pos + Len(bytes) <= MaxLength /\ file.total_written + Len(bytes) <= MaxLength
     /\ \E room \in 0..Len(bytes) :
          LET w == WriteFile(file, c.pos, bytes, room)
          IN /\ nodes' = [nodes EXCEPT ![c.node].file = w.file]
             /\ open_files' = [open_files EXCEPT ![p][id].pos = w.pos]
             /\ strayed' = IF w.pos # c.pos /\ ~Writable(file, c.pos)
                           THEN strayed \cup {c.node} ELSE strayed
             /\ answer' = IF w.room < 0 THEN <<"error">> ELSE <<"done">>
     /\ UNCHANGED <<context_rc, next_file_id, cwd, halted>>

Seek(p, id, offset, from) ==
  LET c == open_files[p][id]
      pos == SeekFile(nodes[c.node].file, c.pos, offset, from)
  IN /\ OnFile(p, id)
     /\ pos \in 0..MaxLength
     /\ open_files' = [open_files EXCEPT ![p][id].pos = pos]
     /\ answer' = <<"done">>
     /\ UNCHANGED <<treeVars, next_file_id, cwd, halted>>

SeekFails(p, id, offset, from) ==
  /\ OnFile(p, id)
  /\ SeekFile(nodes[open_files[p][id].node].file, open_files[p][id].pos, offset, from) < 0
  /\ Refuse

\* dir_io_read_impl(): the first read makes the iterator; each returns a name or nothing.
List(p, id) ==
  /\ OnDirectory(p, id)
  /\ open_files[p][id].listing # "stale"
  /\ open_files' = [open_files EXCEPT ![p][id].listing = "fresh"]
  /\ answer' = <<"done">>
  /\ UNCHANGED <<treeVars, next_file_id, cwd, halted>>

\* The iterator goes on in a hash map that has changed below it.
ListStale(p, id) ==
  /\ OnDirectory(p, id)
  /\ open_files[p][id].listing = "stale"
  /\ Halt("undefined")

\* A directory can neither be written nor be moved in.
NotOnDirectory(p, id) == OnDirectory(p, id) /\ Refuse

\* Manager.set_cwd()
SetCwd(p, path) ==
  LET w == ResolveDirectory(p, path)
  IN /\ w.error = "none"
     /\ cwd' = [cwd EXCEPT ![p] = w.canonical]
     /\ answer' = <<"done">>
     /\ UNCHANGED <<treeVars, openVars, halted>>

SetCwdFails(p, path) ==
  LET w == ResolveDirectory(p, path) IN w.error # "none" /\ Refuse

-----------------------------------------------------------------------------
OnPath(p, path) ==
  \/ \E kind \in {"file", "directory"} : Create(p, path, kind)
  \/ CreateFails(p, path)
  \/ Unlink(p, path) \/ UnlinkPanics(p, path) \/ UnlinkFails(p, path)
  \/ OpenNew(p, path)
  \/ \E mode \in Modes : Open(p, path, mode) \/ OpenFails(p, path, mode)
  \/ SetCwd(p, path) \/ SetCwdFails(p, path)

OnId(p, id) ==
  \/ InvalidId(p, id) \/ UseFreed(p, id) \/ NotOnDirectory(p, id)
  \/ Close(p, id)
  \/ \E wanted \in Lengths : Read(p, id, wanted)
  \/ \E bytes \in Data : Write(p, id, bytes)
  \/ \E offset \in Offsets, from \in {"FromStart", "FromHere", "FromEnd"} :
       Seek(p, id, offset, from) \/ SeekFails(p, id, offset, from)
  \/ List(p, id) \/ ListStale(p, id)

Next ==
  /\ halted = "no"
  /\ calls < MaxCalls
  /\ calls' = calls + 1
  /\ \E p \in Process :
       \/ \E path \in Path : OnPath(p, path)
       \/ \E id \in 0..MaxIds : OnId(p, id)

Spec == Init /\ [][Next]_vars

-----------------------------------------------------------------------------
(* Properties *)

\* What the loops of PageFile rely on: no page is empty or too long.
PagesOK(file) ==
  /\ \A i \in DOMAIN file.pages : Len(file.pages[i]) \in 1..PageSize
  /\ file.total_written = Len(Concatenated(file.pages))

\* A context: the offset into its file, and the state of its directory iterator.
ContextRecord ==
  [node : Node \cup {NULL}, pos : 0..MaxLength, listing : {"none", "fresh", "stale"}]

AreContexts(files) ==
  /\ files = [p \in Process |-> files[p]]
  /\ \A p \in Process : /\ DOMAIN files[p] \subseteq 0..MaxIds
                        /\ files[p] \in [DOMAIN files[p] -> ContextRecord]

TypeOK ==
  /\ nodes \in [RamNode -> NodeRecord \cup {NULL}]
  /\ \A n \in Live : PagesOK(nodes[n].file)
  /\ context_rc \in [Node -> Nat]
  /\ AreContexts(open_files)
  /\ next_file_id \in [Process -> 0..MaxIds]
  /\ cwd \in [Process -> Seq(Component)]
  /\ halted \in {"no", "panic", "undefined"}

\* Where a node is found: in which directory, under which name.
Entries(n) ==
  {e \in Live \X Component : e[2] \in DOMAIN nodes[e[1]].nodes /\ nodes[e[1]].nodes[e[2]] = n}

\* Every node but the root is in one directory, under one name, and that directory is
\* its parent; following parents leads to the root.
TreeIsSound ==
  /\ TypeOK
  /\ \A n \in Live \ {RamRoot} :
       /\ nodes[n].parent \in Live
       /\ \E x \in Component : Entries(n) = {<<nodes[n].parent, x>>}
  /\ \A s \in SUBSET (Live \ {RamRoot}) :
       s # {} => \E n \in s : nodes[n].parent \notin s

\* A walk goes through ".." in the root of the RAM disk, which is its own parent.
LeavesMount(names) ==
  \E i \in DOMAIN names :
    /\ names[i] = ".."
    /\ LET w == Turns(names)[i - 1]
       IN w.error = "none" /\ Content(w.node) = RamRoot

\* The canonical path of a directory or file, which is what cwd is set to, leads to the
\* same node, or what is mounted on it, as the path it was made from, and has no "..".
CanonicalPathNamesNode ==
  halted = "no" =>
    \A p \in Process, path \in Path :
      LET w == Resolve(p, path)
      IN w.error = "none" /\ ~LeavesMount(Absolute(p, path)) =>
           /\ Content(Walk(w.canonical).node) = Content(w.node)
           /\ ".." \notin Range(w.canonical)

\* The open contexts of a node.
ContextsOf(n) ==
  {c \in Process \X (0..MaxIds) : c[2] \in Ids(c[1]) /\ open_files[c[1]][c[2]].node = n}

\* No file that is open looks unused: the count covers all contexts, those that got
\* lost for want of memory included.
CountCoversContexts ==
  \A n \in Node : context_rc[n] >= Cardinality(ContextsOf(n))

Text(n) ==
  IF n \in Disk \/ nodes[n] = NULL THEN <<>>
  ELSE IF n \in strayed THEN NULL ELSE Concatenated(nodes[n].file.pages)

Opened(p) ==
  LET ids == {id \in Ids(p) : open_files[p][id].node # NULL}
  IN [id \in ids |-> [file |-> open_files[p][id].node, pos |-> open_files[p][id].pos]]

\* The files and the ids as FlatFiles has them.
Texts == [n \in Node |-> Text(n)]

Handles == [p \in Process |-> Opened(p)]

Flat == INSTANCE FlatFiles WITH
  File <- Node, Id <- 0..MaxIds, Position <- 0..MaxLength, Unknown <- NULL,
  text <- Texts, opened <- Handles

\* Through all that happens to the tree, ids, positions and pages, every process sees
\* files that are sequences of bytes, and its ids lead to the files they were given for.
ActsAsFlatFiles == Flat!Spec
=============================================================================
