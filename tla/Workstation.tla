----------------------------- MODULE Workstation -----------------------------
(***************************************************************************)
(* The scripts of one checkout.  The zig that the system call generator and *)
(* the compiler run is the one that README.md names, as the CI has it: it   *)
(* puts what `zig.py current-path' prints into PATH.  The other generators  *)
(* and the bitmap prototype have only the developer in common with them.    *)
(***************************************************************************)
EXTENDS SystemCallGenerator

CONSTANTS
  Version, Committed,                      \* ZigVersions
  KeyTables, CodePoints,                   \* CodePage437
  Nodes,                                   \* InterfaceGenerator
  Widths, Heights, BufferSizes             \* BottomUpBitmap

\* The three fields and the dev number, as digits.
ASSUME ZigAssumption ==
  /\ IsFiniteSet(Version) /\ Committed \in Version
  /\ NULL \notin Seq(0..9)
  /\ \A v \in Version : /\ v \in [1..4 -> Seq(0..9) \cup {NULL}]
                        /\ \A i \in 1..3 : v[i] # NULL

\* A script has 256 characters; their code points are written with 16 bits.
ASSUME CodePageAssumption ==
  /\ NULL \notin Nat /\ NULL \notin [key : Nat, value : Nat]
  /\ KeyTables \subseteq Seq(0..(2^16 - 1) \cup {NULL})
  /\ \A ks \in KeyTables : Len(ks) <= 256
  /\ CodePoints \subseteq Nat

\* Operations and arguments are in lists; None is no text.
ASSUME InterfaceAssumption ==
  /\ \A n \in Nodes : /\ n.ops \in Seq(Range(n.ops))
                       /\ \A i \in DOMAIN n.ops : n.ops[i].args \in Seq(Range(n.ops[i].args))
  /\ NULL \notin {"}", "};"}

ASSUME BitmapAssumption ==
  /\ Widths \subseteq Nat \ {0} /\ Heights \subseteq Nat
  /\ BufferSizes \subseteq Nat

VARIABLES
  readme, zigs, archives, master, cmd, commands, broken,
  keys, tables,
  node, zig_file,
  width, height, pos, taken,
  scripts                                  \* which of the others may be run in this session

Zig == INSTANCE ZigVersions
CodePage == INSTANCE CodePage437
Interface == INSTANCE InterfaceGenerator
Bitmap == INSTANCE BottomUpBitmap

zigVars == <<readme, zigs, archives, master, cmd, commands, broken>>
codePageVars == <<keys, tables>>
interfaceVars == <<node, zig_file>>
bitmapVars == <<width, height, pos, taken>>
otherVars == <<codePageVars, interfaceVars, bitmapVars>>
workstationVars == <<vars, zigVars, otherVars, scripts>>

\* The zig in PATH runs if everything it needs was extracted.
CurrentWorks == readme # NULL /\ zigs[readme] = "whole"

WorkstationInit ==
  /\ Prepared /\ Zig!Prepared
  /\ zigs = [v \in Version |-> IF v = Committed THEN "whole" ELSE "absent"]
  /\ CodePage!Init /\ Interface!Init /\ Bitmap!Init
  /\ \E b \in Budgets :
       /\ runs = b.runs /\ edits = b.edits /\ commands = b.commands
       /\ scripts = b.scripts

\* A build, or what the developer does to what it reads.
Building ==
  /\ \/ Generate
     \/ EditImplementation \/ EditLibs \/ DeleteInterface \/ Tick
  /\ UNCHANGED <<zigVars, otherVars, scripts>>

ManagingZig ==
  /\ Zig!Next
  /\ zigWorks' = CurrentWorks'
  /\ UNCHANGED <<impl, implTime, libs, now, runs, edits, fileVars, step, localVars, binaryVars, spoiled, lost>>
  /\ UNCHANGED <<otherVars, scripts>>

Other(script) == script \in scripts /\ UNCHANGED <<vars, zigVars, scripts>>

GeneratingCodePage ==
  /\ Other("code_page_437.py") /\ CodePage!Next
  /\ UNCHANGED <<interfaceVars, bitmapVars>>

GeneratingInterface ==
  /\ Other("genif.py") /\ Interface!Next
  /\ UNCHANGED <<codePageVars, bitmapVars>>

ReadingBitmap ==
  /\ Other("bmp.py") /\ Bitmap!Next
  /\ UNCHANGED <<codePageVars, interfaceVars>>

WorkstationNext ==
  Building \/ ManagingZig \/ GeneratingCodePage \/ GeneratingInterface \/ ReadingBitmap

WorkstationSpec == WorkstationInit /\ [][WorkstationNext]_workstationVars

-----------------------------------------------------------------------------
\* After zig.py update without a failure the build runs the latest zig: it is in
\* README.md and wholly extracted, unless its extraction once stopped half way.
UpdateEndsAtLatest == Zig!UpdateEndsAtLatest

\* zig.py list has each downloaded version once, the newest first, as long as
\* the fields that are compared have as many digits.
ListIsNewestFirst == Zig!ListIsNewestFirst

\* The tables of code_page_437.py give from_unicode() of the console exactly the
\* code page.
CodePageIsExact == CodePage!CodePageIsExact

\* What genif.py prints is nested, closed and indented as Zig has it.
ScopesNest == Interface!ScopesNest

\* The functions that genif.py prints pass every argument on where it belongs.
ArgumentsArrive == Interface!ArgumentsArrive

\* bmp.py reads a bottom-up bitmap from the top, whatever buffers it is given.
RowsComeFromTheTop == Bitmap!RowsComeFromTheTop
=============================================================================
