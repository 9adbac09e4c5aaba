# A TLA+ model of Georgios: its kernel and the tools that build it

Georgios is an operating system for 32-bit x86 PCs, written in Zig: a kernel
with pre-emptive threads, processes in ring 3, a few drivers and file systems,
and small programs that run on it. Python scripts generate part of its code, manage the
compiler, and are where some of its algorithms were tried out first. The modules here model the parts of it whose
correctness depends on the order in which things happen or on data structures
that are easy to get subtly wrong. TLC checks them on small instances, and TLAPS
proves the most important invariants for every size. File names below are
relative to `src/`.

## Inventory

| Component | Source | State | Operations | What makes it correct |
|---|---|---|---|---|
| Time queue | `kernel/threading.zig` 158-238 | 8 elements linked by `prev`/`next`, `head`, `tail` | `insert`, `check` | a sleeper wakes once, after its deadline, in the order of the deadlines |
| Scheduler | `kernel/threading.zig` 392-451, `kernel/platform/threading.zig` 166-216, `kernel/platform/interrupts.zig` 450-461 | circular thread list, current thread, saved contexts, interrupt flag, `in_tick` | `next`, `yield`, `switch_to`, `tick` | the CPU goes to a thread that exists and may run; each of them gets its turn; the idle thread comes last |
| Thread manager | `kernel/threading.zig` 240-569, `kernel/kernel.zig` 100-176, `kernel/platform/system_calls.zig` | process and thread tables, `wake_on_exit`, `exit_info_map`, the keyboard's waiter | start, exec, wait, exit, get key, sleep | every waiter has one waker; exec returns |
| Lock, Semaphore | `kernel/sync.zig` | `locked`, `value`, queue of thread ids | `lock`, `spin_lock`, `unlock`, `wait`, `signal` | mutual exclusion; a stopped waiter is in the queue |
| PS/2 keyboard and mouse | `kernel/platform/ps2.zig` | recogniser of multi-byte codes, modifier state, two circular buffers | IRQ handlers, `get_key`, `get_mouse_event` | each key pressed is delivered once, in order, or discarded for lack of room |
| Circular buffer | `libs/utils/circular_buffer.zig` | `contents`, `start`, `len` | `push`, `pop`, `get` | a bounded queue that drops the newest or the oldest |
| Buddy allocator | `kernel/buddy_allocator.zig` | free lists by level, status of each block | `alloc`, `free`, split, merge | allocated blocks are disjoint; everything freed can be allocated again |
| Frames and address spaces | `kernel/platform/memory.zig`, `kernel/memory.zig` | stack of free frames, page directories | map, unmap, copy | a frame has one owner; partial failure gives frames back |
| Block cache and files | `kernel/io.zig`, `libs/georgios/io.zig` | cached blocks in order of use, dirty flags | `read`, `write`, `flush` | reads return what was written last |
| Virtual file system | `kernel/fs.zig` | tree of nodes, mounts, open files by id | resolve, open, close, mount, create, unlink | a path names one node; an id one open file |
| RAM disk | `kernel/fs/RamDisk.zig` | nodes, pages of a file | create, unlink, read, write, seek | a file reads as it was written |
| Ext2 reader | `kernel/fs/Ext2.zig` | superblock, inode cache of one file | directory walk, read | block n of a file is the one its inode names |
| ATA driver | `kernel/platform/ata.zig` | the controller's registers | `identify`, `read`, `write` | one command at a time, its data before the next |
| Containers | `kernel/list.zig`, `kernel/map.zig`, `kernel/mapped_list.zig` | links | push, pop, insert, remove | they hold what was put in |
| Dispatcher | `kernel/dispatching.zig` | ports by id | map, send, receive | ids are not reused |
| Tinyish Lisp | `libs/tinyishlisp/TinyishLisp.zig` | expressions, atoms, reference flags | read, evaluate, collect | what is reachable is not freed |
| Console | `libs/georgios/Console.zig`, `libs/utils/AnsiEscProcessor.zig` | cursor, colours, parser state | print, escape sequences | the cursor stays on the screen |
| GPT, ELF | `kernel/gpt.zig`, `kernel/elf.zig` | none between calls | parse | reject what they do not support |
| PCI, USB, ACPI, VBE, BIOS calls | `kernel/platform/*.zig` | device registers | probing, drawing | outside of what a model can say |
| User programs | `programs/` | their own | system calls | the kernel survives them |
| Buddy prototype | `scripts/prototypes/buddy.py` | doubly linked free lists inside the free blocks, statuses | `alloc`, `free`, split, merge | the kernel's allocator is the same algorithm |
| System call generator | `scripts/codegen/generate_system_calls.py` | the interface file, which is also its memory of the error codes | skip or generate: parse, read codes, ask zig, write | a code keeps its meaning; a skipped build is up to date |
| Zig version manager | `scripts/zig.py` | `README.md`, the directories of zigs | update, download, use, list | update ends at the latest, whatever stopped before |
| Code page generator | `scripts/codegen/code_page_437.py` | none | from a list of code points to ranges and a hash table | the console finds what the list has, and nothing else |
| Interface generator | `scripts/codegen/genif.py` | indentation of the file it prints | from an IDL interface to Zig | what is printed nests; arguments arrive |
| Bitmap prototype | `scripts/prototypes/bmp.py` | position in a bitmap | `read_bitmap` | rows come from the top, whatever the buffers |
| Other scripts | `scripts/lint.py`, `scripts/codegen/keys.py`, `scan_codes.py`, ... | none | print tables, or the fields of a number | |

How they interact. Everything runs on one CPU. A program enters the kernel by
`int 100` (`system_calls.zig`), with interrupts disabled by the gate; most
handlers end by returning, some by `Manager.yield`. The timer enters it at 100 Hz
by IRQ 0 (`tick`), the keyboard by IRQ 1. The only place where one thread gives
the CPU to another is `ThreadImpl.switch_to`, called from `yield` and `tick`.
A process execs another and waits for it; the boot thread of the kernel execs
the first. Files go from a system call through the process's `Submanager` to the
VFS, a file system, the block cache and the ATA driver, all in the caller's
thread with interrupts disabled, so they meet no concurrency, only sequences of
calls and failures in the middle of one.

The scripts run one at a time on the machine of a developer, who edits while they do and
may kill them. `zig build` runs the system call generator (which runs `zig` itself) and then
compiles; the `zig` it finds is the one `zig.py current-path` prints, from the version that
`README.md` names. What they leave in files is all they know of earlier runs.

What is hard here: the windows with interrupts enabled (kernel threads, the gap
inside `get_key`), state that is changed in two steps (`insert_thread`, exec,
`sleep`), the end of a thread while others wait for it or are about to, a
deadline that passes too early, errors halfway through an operation, and data
structures made of links. `PROJECT.json` lists each hazard at its line.

## Modules

    TimeQueue      the array of linked elements            (no behaviour of its own)
      SleepTimer   sleeping threads and check(), on their own   --refines--> SleepQueue
      Scheduler    next(), yield(), switch_to(), tick()     uses RoundRobin (the list)
        Threading  processes, threads, waiting, system calls, interrupts
          Semaphore  sync.zig on top of the running kernel
    BuddyAllocator   blocks of physical memory
      BuddyLockstep  the same calls on BuddyPrototype, which is buddy.py
    BlockCache       blocks of a disk in memory            --refines--> BlockContents
    CircularBuffer   a ring of slots                       (no behaviour of its own)
      PS2            keyboard, mouse and their handlers    --refines--> KeyboardStream
    PageFile         the pages of a file                   (no behaviour of its own)
      Files          paths, the RAM disk, open files       --refines--> FlatFiles
    SystemCallGenerator   the interface file through builds, edits and kills
      Workstation    the same with the zig of ZigVersions  --refines--> SystemCallGenerator
        ZigVersions, CodePage437, InterfaceGenerator, BottomUpBitmap
    ThreadingProofs (with Semaphore), SleepTimerProofs, BuddyAllocatorProofs,
    BuddyLockstepProofs, BlockCacheProofs, PS2Proofs, FilesProofs, WorkstationProofs: theorems

**TimeQueue.** `elements`, `head` and `tail` are those of `TimeQueue`. `InsertInto`
follows `insert` branch by branch, its search being the first element reached
from `head` whose deadline is later; `PopHead` and `Due` are `check`. A freed
element keeps its old fields, as in the code.

**SleepTimer** drives the queue with a clock. **SleepQueue** is the promise of
sleep: a deadline for each sleeper; the one to wake is a sleeper with the
smallest deadline that has passed, and every such sleeper is woken in the end.
`SleepTimer` implements it (`SleepPromise`) as long as no sleeper arrives with the
latest deadline of all (`LastMayJoin`): such a one is lost, see Findings.

**RoundRobin** is the circular list of `Thread`s as a sequence that starts at the
head: append, unlink and the walk `next` makes along it.

**Scheduler** models `next` (time queue first, then the walk from the current
thread, then the idle thread), `yield`, and `switch_to` with what becomes of the
interrupt flag and of IRQ 0. A thread's `context` is "new" (it has not run),
"saved" (by the last switch away from it), or "in use". Three facts of the code
shape it. The stack pointer to load is read before the current one is saved, so a
switch of a thread to itself loads an old one. A thread that was switched away
from in `yield` resumes with the flag `after_switch` and its caller leave; a process
returns to its program with interrupts enabled in any case. A new thread starts in
`run_impl`, which enables interrupts but does not acknowledge the IRQ that may
have brought it there, so that no timer or keyboard interrupt reaches the machine
until that thread switches by itself (`in_tick`). `halted` says that the machine
has stopped and how: a panic, a walk without end, a context that was never saved.

**Threading** is the kernel in action: exec (`StartProcess`, `WaitForProcess`,
`ExecReturns`), exit, kernel threads (`InsertThread` and `EnterThread` are the two
halves of `insert_thread`, which an interrupt can separate), `get_key` with the gap
between its look at the buffer and its wait, sleep with the gap between its
insertion into the time queue and its yield, and the two interrupt handlers.
`pc[t]` is where in the kernel t is. Interrupts come only while `interrupts` holds.

**Semaphore** adds `sync.zig` step by step, the timer interrupt coming between any
two steps (`Preempt`). `push_back` may fail, as its allocator may. Programs are
sequences of calls; `MCSemaphore` has a heavier mix of what those of `system_tests()` do.

**BuddyAllocator** has the statuses of all blocks and the free list of each level.
A block is named by its level and its index, as in `unique_id`; its address and its
buddy are computed from them as the code does. `Alloc` takes the first block of the
deepest level that has one and carves it down; `Free` finds the level of an address
by the walk of `BlockStatusIter` and merges upwards as long as the buddy is free.
`Reserve` is what `ManagerImpl.init` does before anything else. Where a `FreeBlock`
is stored is left out. `held` records what callers have, for the properties only.

**BuddyPrototype** is `buddy.py`, the allocator as it was first written, with its
arithmetic on levels and indexes and its doubly linked lists. A pointer in a block is an address,
`Nil`, or `Uninitialized`, for which `Memory.get` raises. The operators take the `Buddy`
object and return it, with the exception that ended the call. **BuddyLockstep** calls it beside
the kernel's allocator, which searches in another order and computes levels, ids and buddies in
another way: `AgreesWithPrototype` says that addresses, statuses and lists are the same, in the same order.
The kernel fixed a fault of the prototype on the way (see below), so the comparison ends where a list of the
prototype is no longer linked both ways; pointers in blocks that are given out are overwritten
by who has them, so that a call that read them would raise.

**BlockCache** is `MemoryBlockStore` used as a cache: `entries` has the `BlockInfo` of
each cached block (its data, its changed flag, what became of its list node),
`order` is the list in order of use, `store` what the store below has. An access is one action whatever it
calls (`get_block`, eviction, write-back, read from below), with one more for each
place where it can fail and what is left behind there. `Faults` says which of
the failures happen. **BlockContents** is the promise: data for each block; a failing
call changes nothing. The cache keeps it in spite of every failure but one (Findings).

**CircularBuffer** defines `push`, `pop` and `get` on a ring of slots.

**PS2** follows a byte from the key to the program: the keyboard's codes, the one
byte of the controller with the interrupt it raises, the handler that reads it, the
recogniser (`byte_count`, `pattern`), the modifiers and the buffer. The switch of
`keyboard_event_occurred` is split in three: the event a byte completes (`Reached`),
the bytes after which the count goes on (`Towards`) and the pattern they leave. The
mouse's handler keeps reading until it has three bytes or gives up, which it may before any of them,
whatever the mouse is still going to send: the rest of that report is then read as the start
of the next. `MousePacketsAreWhole` says when alone an event can be such a mixture. **KeyboardStream** is
the promise: strokes in order, each with the modifiers held when it was made. The devices are
modelled by how the driver reads them, with keys that do not depend on lock states.

**PageFile** has `get_page`, `write_impl`, `read_impl` and `seek_impl`: one turn of
their loops is an operator (`WriteChunk`, `ReadChunk`), the loop a function of the
number of turns. A page is the bytes written to it.

**Files** is a call at a time of what programs do with paths and open files. `nodes`
are those of the RAM disk, in memory that unlinking gives back and creating takes
again; the Ext2 disk is its root and the directory the RAM disk is mounted on. `Walk` is
`resolve_path_i` with the node and the canonical path it builds side by side; `Create`,
`Unlink`, `Open` and the others follow their handlers with each way to fail, memory
running out included. `Attach` is the end of `Submanager.open`, where the context is
counted and the id taken before two allocations. Creating and unlinking come through
the dispatcher, which prints an error and tells its caller nothing: the answer is then
"done". The options of `open` that the code does not look at (append, truncate, read
only, must be created) make no difference. Three things stop the model because nothing can
be said of what follows: a context whose node was unlinked, a directory that is listed on after it
changed ("undefined"), and an unlink that panics. **FlatFiles** is the promise: a file
is one sequence of bytes, each id has its own position in the file it was given for, a
write is all or an error. It promises this of writes that begin in the last page or at the end;
elsewhere the pages do not take them (see below), and `strayed` remembers the file, of whose text
nothing is promised from then on.

**SystemCallGenerator** is one build after the other. `Start` decides by the times of the files
(`need_to_generate`); `ParseImplementation`, `ReadErrorCodes`, `AskZig` (once for each error type),
`NumberError`, `OpenInterface` and `Write` are the parts of the script in their order, each with its
ways to fail; `Compile` is the rest of the build, of which one of two binaries may be used later
than the other. The file is empty between `OpenInterface` and `Write`, and `Kill` there leaves any first part of what
was being written. A line of the implementation is what a regular expression takes from it.
`spoiled` and `lost` remember, for the properties only, that the last write did not finish or was
not of what the implementation says now or of the errors that libs has now (libs was changed after zig was first
asked), and that codes were killed before they were back in the file.

**ZigVersions** takes the commands of `zig.py` a file operation at a time. A directory is absent, there
without the binary, there with the binary (which is when `exists()` holds), or whole; `write_text()` empties `README.md`
before it writes it. A version is its fields in digits, as `__lt__` compares them.

**CodePage437** has the ranges, the offsets and the hash table as sets and functions, and
`from_unicode()` of the console (`kernel/platform/cga_console.zig` 180-203), which reads them.
**InterfaceGenerator** prints an interface as a sequence of openers, lines and closers, laid out as
`ZigFile.print` does, and says what the printed functions do with the arguments of a call.
**BottomUpBitmap** is `read_bitmap`, a turn of its loop at a time.

**Workstation** puts them in one checkout: the `zig` of the generator works if and only if the
version in `README.md` is wholly there. The other scripts share nothing with these but who runs them.

## Runs

| Run | Question | Bounds |
|---|---|---|
| `sleep` | does the time queue keep the promise of sleep? | 3 threads, 3 elements, durations 1-4, clock to 6: every order of three deadlines, ties included, and reuse of elements |
| `sleep_lost` | are all sleepers reached? No | the same |
| `exec` | three processes that exec each other, yield, read keys, exit | 3 processes, keyboard buffer of 2 |
| `exec_sleep` | the same with sleeping programs and a kernel thread | 2 processes, 1 kernel thread, keyboard buffer of 1, 2 elements, durations 1-2, clock to 4 |
| `stale_context` | is a short sleep safe? No | 1 process, clock to 3 |
| `semaphore` | exclusion inside `wait` and `signal`, waiters are queued | 3 threads, 15 semaphore calls, failing allocation |
| `buddy` | is memory given out once, is none lost, and does the prototype agree? | 8 smallest blocks in 4 levels; requests in bytes at both sides of each power of two |
| `block_cache` | is the cache a block store, whatever fails? | 3 blocks, 2 in the cache, 2 data; every failure but that of a read below |
| `block_cache_read` | and if a read below fails? No | the same with that failure |
| `input` | does each key arrive once, and does every handler return? | 4 strokes or reports in any order, 12 codes, 2 reports, buffers of 2 |
| `files` | do paths name nodes, and ids files? | 1 process, 6 calls, 2 nodes besides the root, 2 ids, pages of 2 bytes, files of 3 |
| `tools` | does an error keep its code, is what is skipped up to date, does update end at the latest, is what is generated right? | sessions of 3 builds with 2 edits, of a build, an edit and a command of `zig.py`, and of 3 commands; clock to 1; 4 versions; code pages of 5 among 5 code points; interfaces of up to 3 operations of up to 3 arguments; bitmaps to 4 by 3 |

Why the bounds are enough. In the code as it is deployed the boot thread execs
one process and waits for it, and so does a process with its child, so processes
form a chain: with three of them, one may be waiting, one ending and one starting.
For the same reason only the last of the chain can sleep, or wait for a key, at
any time; `SleepTimer` is where several sleep at once. The keyboard buffer holds 2
keys in place of 128, the queue 2 or 3 elements in place of 8; a full queue is a panic
in `Threading`. The clock is cut off: a sleep that would end after `MaxTime` is not
taken, which leaves out nothing but longer waits. `MaxValue` cuts off the semaphore's
value, 15 calls being too few to reach it. Four levels of blocks are the fewest in which a merge can
go on and stop in the middle, and in which a status two levels up can be wrong. Three
blocks with a limit of two make every access a hit, a miss with room or a miss that
evicts. In `input` four strokes are enough for two that fill a buffer of 2 and one that is
discarded, for a modifier held around a key of two bytes, and for the three keys of the
debug shortcut; the codes chosen share all their bytes with those of PrintScreen and Pause. Keyboard and mouse
are used in turn, and with interrupts allowed before the driver is initialised.
In `files` six calls are enough to enter the mount, make a directory and a file in it, and
open, unlink and use it, or to open a new file, write past a page, move, and read; two nodes make a directory in a directory and a node whose
memory is used again; a file of 3 bytes has a full page and one that is not. Several processes
differ from one only by the file ids and current directories they have apart, and calls do not
overlap. The paths are the empty one, names, `..` at each place, a trailing slash, and absolute
ones into and out of the mount. Symmetry is used there (which memory a node gets makes no difference, and
`ActsAsFlatFiles` is a safety property); the other runs that it would help check liveness.

In `tools` three builds are one to give codes out, one that is stopped and one after it, and two edits change the
implementation and the errors, or take the interface away. Two times are
enough for a file to be older, as old and newer than another. Three commands of `zig.py` are one that is stopped at some point, one
that changes what it left, and an update. The five implementations have calls with and without errors and
results, and both ways to run out of registers; the versions differ in a field of one digit and of two, in builds of two and of three digits
and in a release. Five characters of a code page make two ranges, or one with different offsets, or none.
What a session does not use is the same in all its behaviours.

`CHECK_DEADLOCK FALSE` is in the runs that end by design: the clock of `SleepTimer` runs
out, the user of `PS2` has done all that is counted, the calls of `Files` are used up, the sessions of the tools end, the callers of the allocator may have all there is, and the programs of `Semaphore` end, or spin for ever with interrupts off.

A type invariant is a conjunct of the property of its module that is about the state as a whole
(`SortedByDeadline`, `WaitersAreQueued`, `ListsMatchStatuses`, `LimitIsKept`, `TreeIsSound`,
`RecogniserInStep`). The tools have theirs in the inductive invariants of the proofs.

Fairness. The timer is a periodic hardware interrupt and the clock is the CPU's
counter, so both are weakly fair: they happen when nothing masks them for ever.
Code of the kernel is strongly fair per thread because an interrupt may disable
the step (the other thread has the CPU) over and over without stopping it for ever. Nothing is
assumed of programs: a process may compute for ever, never exec and never exit.
The keyboard owes nobody a key.
`SleeperRunsAgain` assumes in its premise that interrupts are not disabled for ever outside of the handler: a kernel
thread that returns from `yield` with them disabled keeps the CPU. In `PS2` the devices send what was typed and the interrupt
handlers run on, both weakly fair: nothing there disables them for long.

## What is proved

`ThreadingProofs` proves, for any set of threads, any split into processes and kernel
threads, any number of queue elements and any durations:

- `TypeCorrect`: `Spec => []TypeOK`.
- `CurrentAlwaysMayRun`: `Spec => []CurrentMayRun`, the CPU belongs to a thread of the
  list that may run.

`CurrentMayRun` is not inductive alone. The strengthening `IInv` adds to it `TypeOK` and
`ListInv`: the list holds the idle thread, no thread twice and no unused thread;
an unused thread is in state `Run`, as a new one is; the processes of `thread_list` are in the
list, so that what is woken from there can be found; the time queue names processes
only; and a thread in the middle of an insertion or of an exec has a target of its kind. The lemmas follow
the modules: what appending and unlinking do to the list (`AppendThread`,
`UnlinkThread`), what `PopHead` and `Insert` preserve of the time queue, and what
`yield` yields (`YieldResult`: the thread it switches to is in the list and runs).
One step per action then cites them.

- `SleepersAreSorted`: `Spec => []SortedByDeadline`, and
- `NobodyWakesEarly`: `Spec => SleepsUntilDeadline`.

For the first, `LinksInv` is about all elements in use, those a walk from the head has lost included: what `next`
names is in use, names the element back and is not earlier. That the one in front of the place of `insert` is not later
(`BeforeFirstLater`) needs that the walk cannot come back to what it left. For the second,
`WaitInv` says where in the kernel a process is that something will wake: in `get_key` for the keyboard, in
`wait_for_process` of the very thread whose end wakes it, or in its sleep with one element of its own, so that no
waker ever names a thread that waits for another reason.

The other invariants of `exec` do not hold of everything the Manager can be asked for: a sleeper that is lost has no waker
(finding 1), one with a short sleep loads a stale context (finding 2), and who waits for a kernel thread may have no waker (the gap
of `insert_thread`). Under `OnlyExec`, no kernel threads and no sleepers, any number of processes
that exec each other, read keys, yield and exit have:

- `ExecNeverPanics`, `ExitFindsSuccessor` and `ExecContextsAreFresh`: the machine stops in no other way than by the
  shutdown after the first process, `Spec => []NeverPanics` and the two like it;
- `EveryWaitEnds`: `Spec => []EveryWaiterHasOneWaker`.

That a dying thread finds a successor is a fact about all the others at once, so `ExecInv` describes them
all: the threads of the list without idle are one line of parents (`HaveParents`, `HaveOneParent`, `OneIsFree`: at most one
of them has no child that lives), who is awaited and gone has left its exit info (`LeaveExitInfo`), where a thread is
in the kernel tells its state and its waker, and the other way round (`StatesFit`, `WakersFit`). The lemmas say what
each thing that can happen to the line does to it: a child is added, its parent awaits it or comes too late, the last
of the line ends and its parent may run (`FamilyShrinks`, `ParentMayRun`), a key is awaited and comes.
`QuietYield` says that a yield disturbs none of it.

- `IdleComesLast`: under `NoSleepers`, for any processes and kernel threads, `Spec => IdleIsLastResort`: the CPU
  goes to the idle thread only when no other thread of the list may run. `IdleInv` says that idle never waits for anything
  and may run only while it does. With sleepers that is false: `next` wakes a sleeper
  without making idle wait, so that idle stays runnable; what the runs check then has no theorem.

`SleepTimerProofs` is about the time queue on its own, of any size, with any threads and deadlines, under
`NoneJoinsLast`: nobody comes with the latest deadline of all (finding 1; without this they are false).

- `NoSleeperIsForgotten` (`NoSleeperLost`) and `SleepersStaySorted` (`SortedByDeadline`).
- `SleepersWakeInOrder`: the timer implements `SleepQueue` without its fairness: each step wakes a sleeper with
  the smallest deadline, once it has passed, or lets one come, or does nothing to them.

The invariant `TimerInv` is the types, `ChainInv` and `NoCycles`. `ChainInv` says of all elements in use, not of those that a
walk reaches, that `next` and `prev` agree, that deadlines do not fall along `next`, that only `head` has no `prev`, and that
each has its own thread. It allows a cycle beside the chain, whose elements no walk would reach. `NoCycles` excludes it:
out of every set of elements in use, some element's `prev` leads out. From the two, a walk from the head reaches them all,
which is what `NoSleeperLost` says, without induction along the chain.

The end of `ThreadingProofs` is about `Semaphore` and proves, for any programs, any number of threads and locks, memory that runs out and any preemption:

- `SemaphoreIsExclusive`: at most one thread is between the lock and the unlock of a semaphore.
- `NoWakeUpIsLost`: `WaitersAreQueued`.

For the first the strengthening `SemInv` adds the types of `locked` and `at`, and that
the lock is held whenever somebody is there. For the second `SyncInv` adds where a waiter is: a thread is in the queue exactly from
`push_back` until `signal` pops it, and once (`QueueInv`); its state is `Wait` at the steps
`asleep`, `yield` and `blocked` only; nobody sleeps in the time queue and only the boot thread waits for an end (`ManagerInv`), so that nothing else wakes it; and
who runs may run, or is about to yield (`CpuInv`). Exclusion is needed there:
else two could change the queue at once.

`BuddyAllocatorProofs` proves, for an area of any size with any number of levels, for requests of
any size, and for any sequence of calls:

- `MemoryIsGivenOnce`: what callers hold never overlaps.
- `ListsAgree`: the free lists are the free blocks of the statuses, each of them once.
- `NothingIsLost`: every byte is in a block that is free or held.

None of the three is inductive. A merge that stops too early, or a status that says `Used` for a block that
was split, leaves them true until the calls after it. The invariant `HeapInv` says what the statuses are at rest:
they are those of one tree (`IsTree`: a block is there exactly when the one around it is split, and the
smallest are never split), without two free halves side by side (`IsMerged`); the list of each level has the
free blocks of that level once (`IsListed`); and what is held is `Used`. Two blocks that are there cannot overlap: else the
smaller one is inside the larger one, and the lowest split block around it that is not there would have
a half that is (`SplitAbove`, by a least number and not by induction, which is beyond the provers here).
Half of the proof is about one loop each: `Carve` splits from the level found to the level asked for, and the blocks on the
way keep the tree (`CarveKeepsTree` and its like); `MergedStatuses` and `MergedLists` undo this from a block to the top of its merge. The
theorems are about the `Spec` of `BuddyAllocator`; the run checks the same properties in lockstep
with the prototype, where each step is one of these.

`BuddyLockstepProofs` proves `PrototypeAgrees` (`AgreesWithPrototype`): for an area of any size and any requests of
bytes, the kernel's allocator and `buddy.py` give the same addresses, statuses and lists, and run out of memory at the same calls, for as long as
the prototype's lists are linked both ways. It rests on `LockstepAssumption`: both have the same area, requests are of sizes that
the prototype takes, and `Nil` and `Uninitialized` are no addresses.

The invariant `LockInv` is `HeapInv` with `IsBeside`: while the prototype is called, what its callers hold is what the kernel's hold, and its object
`Follows` the kernel's: the statuses are the same, and each list of the kernel is a `Chain` of `next` and `prev` pointers
from the prototype's first block to `Nil`. The argument, from the inside out:

- `remove_block` on a chain takes one block out of the sequence (`Removal`), so that a split does the same to both (`SplitMirrors`), and
  what is in no list can be overwritten between the calls;
- the level that `pot` and `log2` give for bytes is the one that the kernel has for smallest blocks (`SameTarget`); the loop of `alloc` splits the same blocks
  down to it (`LoopEnds`, `SameIsCarved`);
- a merge leaves the old head of a list without a pointer back. During the loop of `free` the lists are therefore chains only `Loosely`, and the loop still ends at
  the kernel's level (`MergeUpEnds`, `SameIsFreed`): the next merge removes the new block
  before its buddy, and then the old head is the first again, which is what its pointer says.
  `IsDoublyLinked`, at the end of the call, gives the chains back (`DoublyLinkedEnds`).

The loops are recursive functions. That the functions chosen by the definitions are the loops is proved first (`SplitDownSteps`, `MergeUpSteps`), as in `WorkstationProofs`.

`BlockCacheProofs` proves, for any blocks, data and limit and any failures but that of
a read below:

- `CacheIsBlockStore`: the cache implements `BlockContents`.
- `CleanBlocksAreStored`: an entry that is not marked changed has the data of the store.

The invariant `CacheInv` is `TypeOK`, `CleanIsStored`, that every block of the list has an
entry, that no entry holds data nobody wrote or read (which is what a failing read
breaks), and that a changed entry has data. Evicting (`Evict`), flushing
(`FlushStep`) and each failure map to a stutter or to `Fail`. And for any failures, that of a read included:

- `CacheKeepsItsLimit` (`LimitIsKept`): the map never outgrows its limit while every entry has its node. `LimitInv` adds
  that the list has exactly the blocks whose entries say so, which are those that eviction can find.
- `CacheDropsNothingWritten` (`WrittenIsNotDropped`).

`PS2Proofs` is about keyboard and mouse that are not used at the same time (`OneAtATime`; with both, the handler of one takes
the bytes of the other, as `README.md:54-56` of the repository reports, and all three are false), any tables of scan codes, keys and reports, and buffers of any length:

- `RecogniserKeepsStep` (`RecogniserInStep`).
- `MouseReportsAreWhole` (`MousePacketsAreWhole`): while the handler takes each byte for the place that it has in its report
  (`InReport`), an event is a report that the mouse sent. Only giving up in the middle of a report that is still
  coming ends that, and it is so again when the mouse rests.
- `DriverDeliversKeys`: the driver implements `KeyboardStream`.

`PS2Inv` says which bytes are on their way and who has them. What the keyboard has still to send, what is in the controller and what the
recogniser has seen make up the stroke that is being typed (`KeyboardInStep`); the bytes that the handler has and those on their way
are a report of the mouse as long as it is in step (`MouseInStep`), and bytes of reports in any case (`MouseBytes`); and one of
the two rests (`OneRests`). A stroke that comes before the driver is initialised is lost whole.
The refinement rests on what a ring of any length does: `PushQueues` and `PopDequeues` say that `push` appends to the queue
that it holds, or does what its kind does when it is full, and `pop` takes the first.
The heart of these is that `WrappedOffset` is injective on offsets below the length (`WrapIsInjective`).

`FilesProofs` proves, for any names, paths, data, processes and nodes, and any order of calls:

- `TreeStaysSound`: the nodes of the RAM disk are a tree (`TreeIsSound`).
- `OpenFilesAreCounted` (`CountCoversContexts`): `context_rc` is never below the number of a node's contexts.
- `CanonicalPathsLeadBack` (`CanonicalPathNamesNode`): the path that `resolve_path` puts together leads to the node that it found.
- `FilesActFlat` (`ActsAsFlatFiles`): the file system implements `FlatFiles`. Every call is a step of it or one that open files do not see.

`FilesInv` is `FileTypes`, `TreeInv`, `NoLoops` and `OpenInv`. `TreeInv` is local: a directory names live nodes, whose parent it is, each by one name, and the parent of a
node names it. That parents lead to the root follows from it and `NoLoops` (out of every set of nodes without the root, the
parent of one leads out), as in `SleepTimerProofs`. The walk along a path, the write loop and the read loop are recursive functions over numbers.
That such a function exists (`Recursion`) and what holds of all its values (`Least`: else there is a first number for which it does not) is
proved by least numbers, because induction as a rule is beyond the provers here. The third theorem compares two walks: that of `resolve_path`, which puts
names on the canonical path and takes one off for each `..`, and that of the canonical path itself. At each step the second has come where
the first is, because in a tree the directory one leaves by `..` is the one whose name was put there last.

The refinement needs `StrayInv` as well: where all writes began in the last page or at the end of a file, its pages are full but for the last, and
a file that was written elsewhere has pages, so that it is never unlinked (`UnlinkPanics` comes first). Under the refinement mapping the text of a file is its
pages one after the other, and `strayed` ones are `Unknown`. Two loops carry it. That of `read_impl` (`FileIsRead`) goes on while there is something to read,
because `get_page` finds no page only at the end of such a file (`PageBeforeEnd`), so that it returns the part of the text that was asked for.
That of `write_impl` (`FileIsWritten`) puts at each turn what fits into the page, and what turns put one behind the other
is put as a whole (`Puts`, `PutsTogether`); it stops short only where it asked for a page too many, which is an error. The rest is that ids are never
given twice, that an unlinked file is gone for all who had it open, and that what happens to the tree and to iterators shows in neither.

`WorkstationProofs` proves of the whole checkout, any files, versions and commands in any order:

- `ErrorsArriveWithAnyZig`: an error that a kernel returns arrives in a program compiled at another
  time as the same error, or as `Unknown` where the program does not know it, until a write is killed
  before the codes are back. `ErrorsArrive` is about two binaries, but the codes come from the interface, so it is not inductive; `CodesInv`
  says where they are: those of both binaries are among the codes of the interface or, while it is
  rewritten, of `all_error_codes`; no two errors have one code there; `max_error_code` is not below any of
  them, so that the next number is new; every error of a type that zig was asked for has a code, or
  is still to be numbered; and a code that both binaries have is the same error in both, which holds on when the interface is gone.
- `SkippedIsUpToDateWithAnyZig` (`SkipMeansUpToDate`): by `SkipInv` the interface is older than the implementation until
  it is opened for writing; what has been read stays the implementation's, and the errors that zig has given so far stay those of libs
  (`AskedOfLibs`), unless these are edited meanwhile (`spoiled`); and at rest there is something to do, or the interface is spoiled, or it
  is whole, with the calls, their types with the errors of libs, and a code for each, which it has by `CodesInv` (`CodesAreKept`).
- `UpdateEndsAtLatestZig` (`UpdateEndsAtLatest`): `ZigInv` says that what only
  looks whole is known to be `broken`, and that a command which is past its download, or past `use`'s check, has a
  version that exists.

The first two are theorems of `SystemCallGenerator` (`ErrorsAlwaysArrive`, `SkippedIsUpToDate`) that the checkout inherits because it implements
that module (`WorkstationImplementsGenerator`: what happens to the zigs is `ZigChanges` or nothing to it); the third is one of `ZigVersions`. Of the small generators:

- `CodePageIsAlwaysExact` (`CodePageIsExact`), for every list of up to 256 characters of 16 bits: two keys of a bucket have
  different ranks below its length (were there fewer ranks than keys, two keys would share one), so that the places `hash * longest + rank`
  of two keys are different (`Division`), and within a contiguous range the offset from key to value is one number.
- `ArgumentsAlwaysArrive` (`ArgumentsArrive`), for operations of any number of arguments.
- `RowsAlwaysComeFromTheTop` (`RowsComeFromTheTop`), for bitmaps and buffers of any sizes: the place in the file of the n-th byte is what the
  reader's arithmetic of rows and columns says (`Quotient`), whatever reads went before.
- `ScopesAlwaysNest` (`ScopesNest`), for every interface: calls of `print` *nest* (`Nests`) if from any closers that are due they lead back to
  the same ones, and what leads on from what leads there can be put behind it (`LeadsOn`), in a scope or once per operation (`FlatNests`).
  The levels that `print` counts are the numbers of closers that are due (`LevelsCountDue`).
- `ListIsAlwaysNewestFirst` (`ListIsNewestFirst`), for any versions: `__lt__` is a total order of them (`VersionsAreOrdered`), so that what is sorted by it is one
  list, with everything once (`DownloadedIsSorted`, by how many are greater); and of two fields with as many digits the lesser string is the lesser number (`LessIsSmaller`).

A recursive function is reasoned about by making it first: `StepByStep` has a function for any first value and steps, so the one that
the definition chooses is there, and `SameSteps` says it is that one. Both come from least numbers, as induction as a rule is beyond the provers.

All rest on the assumptions named in the modules, which TLC evaluates in every run: the kinds
of threads are disjoint and the bounds natural numbers (`ThreadingAssumption` and its like), memory is no element of its own
`..` is no name, and `Unknown` is no text (`FilesAssumption`), the semaphore's own lock is used by `wait` and `signal` only (`SemaphoreAssumption`), the two allocators are asked for what both take (`LockstepAssumption`), the tables of
scan codes give a key one other meaning at most and no bytes that the patterns go on with (`ScanCodeAssumption`), a code page has at most 256 characters, none
above 16 bits (`CodePageAssumption`), versions are three fields and a dev number in digits, or `NULL` for a release (`ZigAssumption`), and `None` is no text (`InterfaceAssumption`).

Only model-checked:

- all liveness, which TLAPS cannot prove: the fair half of `SleepPromise` (every sleeper wakes in the end), `EveryReadyThreadRuns`,
  `ExecReturnsToParent`, `SleeperRunsAgain` and `HandlersReturn`. Every safety property of a passing run has a theorem, some under
  the assumptions named above.

## Findings

1. *A sleeper with the latest deadline is lost* (`sleep_lost`). `TimeQueue.insert`
   points the new element at the old tail but not the old tail at it.
2. *A short sleep corrupts its caller* (`stale_context`). If the deadline passes
   before the yield of the same call, `next` returns the current thread and
   `switch_to` loads the stack pointer of its last switch. This explains the TODO
   at `kernel/threading.zig:550`.
3. *A failed read leaves garbage in the cache* (`block_cache_read`). `read_block_impl`
   (`kernel/io.zig:346`) keeps the entry that `get_block` made when the store below fails,
   and the next read of that block succeeds with what its memory happened to hold.

Seen while modelling, with no run of its own:

- `system_tests()` can hang: `run_impl` of a thread that `tick` switched to enables interrupts but sends no end
  of interrupt, so it is never preempted; if thread a starts that way it spins on lock 1 for ever
  and the boot thread's `wait_for_thread` never returns. `in_tick` of `Scheduler` is this.
- `merge()` of `buddy.py` (285-315) puts the new block in front of its list without pointing the block
  that was there back at it, although the comment at 306 says `Set new pointers to and from the new
  block`. On an area of 32 bytes, after three `alloc(8)` that are freed in their order, the next `alloc` raises
  `WrongBlockStatus`. The kernel's `merge` is right. The two messages for a size out of range (240-246) add a number to
  a string, so that a `TypeError` is raised in place of the `ValueError`.
- `generate_system_calls.py` decides that it must generate because the interface is missing (53-55) and then
  opens it to read the old codes (138), which raises: a deleted interface stops every build. Not asked for either way:
  the error sets in `libs/` are no dependency of the file (61), so a build after they changed skips it and
  does not compile until the implementation is touched (`EditLibs`, which `SkipMeansUpToDate` excepts); `>=` in `add_arg` (326) keeps
  the last register from ever being used, and `error()` there, or a kill, leaves the file half written with a new
  time, so that the next build finds nothing to do and compiles that. The comment at 133 says of the codes in that file `Do this
  to make sure error value are the same between runs`; a build killed before they are back in it makes the next one count
  from one, and a program of before takes an error of a kernel of after for another (`lost`).
- `Zig.__lt__` compares strings, so `0.10.0` is listed as older than `0.9.1`; `ListIsNewestFirst` is of fields with as many digits.
  `use` changes nothing, and says nothing, when `README.md` has no line for it (133-139), as after a command that was killed
  when `write_text()` had emptied the file. `exists()` looks for the binary alone (80), so that an extraction which stopped behind it
  is never done again, by `update` or by `download` (`broken`).
- `genif.py` sends `.{}` for an operation without arguments, whose member is `void` (176, 202).
- `code_page_437.py` would divide by no buckets if every character were in a range, and write an offset like
  `0x-005` for a range below its characters; `Usable` excludes both, which the real list does too.
- `lint.py:16` has `\s$`, which `match` (36) tries at the beginning of a line: trailing space is only found on lines of
  one character.
- `read_paging.py` reads tables at a fixed address (106) and tests one bit for both PAT and Global.

- A kernel thread that is inserted with interrupts enabled can run and end between the
  two halves of `insert_thread`; it is entered in `thread_list` when it is gone, and
  whoever waits for it waits for ever. `exec_sleep` has these behaviours, which is
  why `EveryWaiterHasOneWaker` excepts who waits for a kernel thread.
- `BuddyAllocator.free` never returns `InvalidFree`: `BlockStatusIter.next` leaves an id at the
  end, so that a second free pushes the whole area. `reserve` and `is_free` go on from
  the address plus the size and not from the block's end.
- A failed eviction or allocation in `get_block` leaves an entry without its node in
  the list; it is never evicted, and the limit is then kept for the others only
  (`LimitIsKept` says so).
- `process_multiboot2_mmap` passes a size where an end is expected (`kernel/platform/memory.zig:242`), and
  `page_alloc` (`:560`) returns with part of the range mapped when a frame is missing.
- A key that comes after `get_key` found none and before `wait_for_keyboard` disables interrupts
  leaves its reader asleep until the next event, usually the key's release (`key_gap`).
- Between `allow_irq` and `keyboard_initialized = true` a handler returns without reading its
  byte; the controller then sends nothing more. `PS2` has this: strokes made then are
  never delivered, and those after them neither.
- `PageFile.done` gives pages, which are from `big_alloc`, to `alloc` (`kernel/fs/RamDisk.zig:80`):
  unlinking a file that was written reaches the `unreachable` of `BlockStatusIter.next`
  and panics; the unit tests use one allocator for both and unlink empty files only. So does
  `unlink` of `..` in an empty directory: the name is found but is none of the nodes (`:315`).
- A write that begins in a full page is appended to the file as a new page and its position goes
  on from where it was, as the TODO at `kernel/fs/RamDisk.zig:112` suspects.
- `/ramdisk/..` is the RAM disk's root, whose parent is itself, but its canonical path is `/`;
  a process that goes there finds itself in the disk's root. `CanonicalPathNamesNode` excepts such paths.
- `Submanager.done` is never called, so files stay open when a process ends, and nothing
  looks at `context_rc` anyway.
- The keyboard and mouse cross talk that `README.md:54-56` reports is
  in `PS2` with `SameTime = TRUE`: the mouse's handler reads the keyboard's bytes.

## Not modelled, and what comes next

Left out of the modelled components: the contents of processes, registers and
stacks; memory that is used after it was freed (`remove_process` frees a process,
with its thread inside, that `switch_to` saves a context into);
`wait_for_mouse`, whose caller nothing would wake. Of the files: those
of the Ext2 disk, nodes that are neither file nor directory (or both), a kernel without a disk whose root is the RAM
disk, the creation of `/x/` (which makes a file the first time and fails the second), and
allocations that fail while a path is resolved, which change nothing. Code outside of `src/`: the
hardware (timer, interrupt controller) is modelled by how the handlers use it.
Of the tools: the text that is generated beyond what a property is about, imports, URLs, the IDL parser, which is not in
the repository, and the real list of 256 characters, all of them different but for one that is none.
`lint.py`, `keys.py`, `scan_codes.py`, `constant_guids.py`, `read_paging.py`, `bits.py`, `flags.py`,
`gpf_error_code.py` and `gen-test-file.py` turn one text into another and keep no state.

In this order:

1. Frames and address spaces, whose partial failures leak.
2. The ATA protocol with late data and time limits; the block walk of Ext2.
3. `Map`, `List` and `MappedList`; the dispatcher; the Lisp collector; the console and
   its escape sequences.
4. More theorems: the walk of `next` reaches every thread;
   `IdleIsLastResort` with sleepers.
