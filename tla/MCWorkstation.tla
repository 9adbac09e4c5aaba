---------------------------- MODULE MCWorkstation ----------------------------
(***************************************************************************)
(* Workstation for TLC.  A session is one of: three builds with two changes, *)
(* one build with the versions of Zig changing, three commands of zig.py, one *)
(* of the other scripts.                                                    *)
(***************************************************************************)
EXTENDS Workstation

MCBudgets ==
  LET Session(r, e, c, s) == [runs |-> r, edits |-> e, commands |-> c, scripts |-> s]
  IN {Session(3, 2, 0, {}), Session(1, 1, 1, {}), Session(0, 0, 3, {})}
     \cup {Session(0, 0, 0, {s}) : s \in {"code_page_437.py", "genif.py", "bmp.py"}}

\* What a session does not read is the same in all of its behaviours.
MCInit ==
  /\ WorkstationInit
  /\ runs = 0 => /\ impl = CHOOSE lines \in Impl : TRUE
                 /\ libs = CHOOSE sets \in ErrorSets : TRUE
  /\ commands = 0 => master = Committed

MCSpec == MCInit /\ [][WorkstationNext]_workstationVars

-----------------------------------------------------------------------------
(* What the implementation file may say. *)

TextLine(kind, value) == [kind |-> kind, value |-> value]
Signature(args, returns, error) ==
  [args |-> args, returns |-> returns, error |-> error, valid |-> TRUE]

Registers == <<TextLine("interrupt_number", 100), TextLine("arg", 1), TextLine("arg", 2),
               TextLine("arg", 3)>>
CallOf(sig, num) == <<TextLine("SYSCALL", sig), TextLine("number", num)>>
OneError == CallOf(Signature(1, TRUE, "T1"), 0)
TwoErrors == CallOf(Signature(0, FALSE, "T2"), 1)

\* The third has a number without a signature; in the fourth the result has no
\* register left for it, in the fifth the last argument has none.
MCImpl ==
  {Registers \o part :
     part \in {OneError, OneError \o TwoErrors, TwoErrors \o <<TextLine("number", 2)>>,
               OneError \o CallOf(Signature(2, TRUE, "T2"), 1),
               TwoErrors \o CallOf(Signature(3, TRUE, NULL), 2)}}

MCErrorSets ==
  {[T1 |-> <<"a">>, T2 |-> <<"a", "b">>], [T1 |-> <<"b", "a">>, T2 |-> <<"c">>]}

-----------------------------------------------------------------------------
Old == <<<<0>>, <<9>>, <<1>>, NULL>>
MCVersions == {Old} \cup {<<<<0>>, <<1, 0>>, <<0>>, dev>> : dev \in {<<5, 2>>, <<1, 0, 0>>, NULL}}

-----------------------------------------------------------------------------
(* Code pages with five characters, and the code points around them. *)

MCKeyTables == [1..5 -> {NULL, 5, 6, 7, 9, 12}]
MCCodePoints == 0..14

-----------------------------------------------------------------------------
Operation(args) == [args |-> args]
Operations == {Operation(args) : args \in {<<>>, <<"a">>, <<"b", "a">>, <<"c", "a", "b">>}}

MCNodes ==
  [annotations : SUBSET {"syscalls", "virtual_dispatch"},
   ops : UNION {[1..n -> Operations] : n \in 0..3}]
=============================================================================
