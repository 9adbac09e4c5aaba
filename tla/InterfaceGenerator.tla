------------------------- MODULE InterfaceGenerator -------------------------
(***************************************************************************)
(* scripts/codegen/genif.py: from an interface of an IDL file a Zig struct   *)
(* whose functions put their arguments into a message, and one that takes   *)
(* them out of it again and calls the implementation.  A type is a name, an *)
(* operation its name, its arguments in order and what it returns.          *)
(***************************************************************************)
EXTENDS Integers, Sequences, SequencesExt

CONSTANTS
  Nodes,   \* the interfaces that an IDL file may hold
  NULL

VARIABLES
  node,      \* the interface
  zig_file   \* what is printed for it; NULL, both, until there is one

interfaceVars == <<node, zig_file>>

-----------------------------------------------------------------------------
(* ZigFile: what print() is called with, an opener with how Zig has it closed. *)

Open(what, closer) == <<[what |-> what, closer |-> closer, indent_change |-> 1]>>
Line(what) == <<[what |-> what, closer |-> NULL, indent_change |-> 0]>>
Close(closer) == <<[what |-> "close", closer |-> closer, indent_change |-> -1]>>

open_scope(what) == Open(what, "};")
close_scope == Close("};")
open_function == Open("fn", "}")
close_block == Close("}")
function(body) == open_function \o body \o close_block

\* For each operation of the interface.
EachOp(print(_)) == FlattenSeq([i \in DOMAIN node.ops |-> print(node.ops[i])])

\* The union member that holds the arguments of an operation.
ArgsType(op) ==
  CASE Len(op.args) = 0 -> [kind |-> "void"]
    [] Len(op.args) = 1 -> [kind |-> "value"]
    [] OTHER -> [kind |-> "struct", fields |-> Range(op.args)]

\* Mutant: the switch is closed as a block.
RecvClosedTwice ==
  open_function
  \o Open("return switch", "};")
  \o EachOp(LAMBDA op : Line("prong"))
  \o close_block \o close_block

\* _recv_value(), whose switch is a block that ends like a scope.
RecvValue ==
  open_function
  \o Open("return switch", "};")
  \o EachOp(LAMBDA op : Line("prong"))
  \o close_scope \o close_block

gen_syscall == EachOp(LAMBDA op : function(<<>>))

gen_dispatch ==
  EachOp(LAMBDA op : function(Line("return impl")))
  \o open_scope("_ArgVals") \o EachOp(LAMBDA op : Line("member")) \o close_scope
  \o open_scope("_RetVals") \o EachOp(LAMBDA op : Line("member")) \o close_scope
  \o open_scope("_dispatch_impls")
  \o EachOp(LAMBDA op : function(Line("return send_value")))
  \o close_scope
  \o RecvValue
  \o Line("_port_id") \o EachOp(LAMBDA op : Line("member"))

\* The interface of the file.
Printed ==
  open_scope("struct")
  \o (IF "syscalls" \in node.annotations THEN gen_syscall
      ELSE IF "virtual_dispatch" \in node.annotations THEN gen_dispatch
      ELSE <<>>)
  \o close_scope

\* ZigFile.print(): how far each line is indented, and whether an empty line
\* comes before it.
Layout(calls) ==
  LET level[i \in 0..Len(calls)] ==
        IF i = 0 THEN 0 ELSE level[i - 1] + calls[i].indent_change
      last(i) == IF i = 1 THEN 0 ELSE calls[i - 1].indent_change
      change(i) == calls[i].indent_change
  IN [i \in DOMAIN calls |->
        [what |-> calls[i].what,
         closer |-> calls[i].closer,
         indent |-> IF change(i) < 0 THEN level[i] ELSE level[i - 1],
         spaced |-> \/ change(i) >= 0 /\ last(i) < 0
                    \/ change(i) > 0 /\ last(i) = 0]]

Init == node = NULL /\ zig_file = NULL

\* Somebody changes the IDL file.
EditInterface == node = NULL /\ node' \in Nodes /\ UNCHANGED zig_file

\* main(), which build.zig runs for the file.
Generate ==
  /\ node # NULL /\ zig_file = NULL
  /\ zig_file' = Layout(Printed)
  /\ UNCHANGED node

Next == EditInterface \/ Generate

Spec == Init /\ [][Next]_interfaceVars

-----------------------------------------------------------------------------
(* What the printed functions do with the arguments of a call. *)

\* Mutant: every message is a struct.
AlwaysStruct(op, value) == [kind |-> "struct", of |-> [n \in Range(op.args) |-> value[n]]]

\* The message of an operation with these values of its arguments.
SendValue(op, value) ==
  IF Len(op.args) = 1 THEN [kind |-> "value", of |-> value[op.args[1]]]
  ELSE [kind |-> "struct", of |-> [n \in Range(op.args) |-> value[n]]]

\* What the implementation is called with, for a message.
RecvArguments(op, message) ==
  CASE Len(op.args) = 0 -> <<>>
    [] Len(op.args) = 1 -> <<message.of>>
    [] OTHER -> [i \in DOMAIN op.args |-> message.of[op.args[i]]]

\* The implementation gets each argument where the caller gave it, through a
\* message of the shape that the member of _ArgVals has.  An operation with no
\* arguments sends an empty struct where its member is void.
ArgumentsArrive ==
  node # NULL => \A i \in DOMAIN node.ops :
    LET op == node.ops[i]
        value == [n \in Range(op.args) |-> n]
        message == SendValue(op, value)
    IN /\ op.args # <<>> => message.kind = ArgsType(op).kind
       /\ RecvArguments(op, message) = [k \in DOMAIN op.args |-> value[op.args[k]]]

\* Every scope and block that is opened is closed once, the innermost first,
\* the way Zig wants it closed, and the lines are indented by their depth.
ScopesNest ==
  zig_file # NULL =>
    LET open[i \in 0..Len(zig_file)] ==   \* the closers that are due
          IF i = 0 THEN <<>>
          ELSE IF zig_file[i].what = "close" THEN Tail(open[i - 1])
          ELSE IF zig_file[i].closer # NULL THEN <<zig_file[i].closer>> \o open[i - 1]
          ELSE open[i - 1]
    IN /\ \A i \in DOMAIN zig_file :
            IF zig_file[i].what = "close"
            THEN /\ open[i - 1] # <<>> /\ Head(open[i - 1]) = zig_file[i].closer
                 /\ zig_file[i].indent = Len(open[i])
            ELSE zig_file[i].indent = Len(open[i - 1])
       /\ open[Len(zig_file)] = <<>>
=============================================================================
