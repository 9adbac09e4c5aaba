------------------------ MODULE SystemCallGenerator -------------------------
(***************************************************************************)
(* scripts/codegen/generate_system_calls.py, which zig build runs before it *)
(* compiles: it reads the system calls from the comments of their           *)
(* implementation and writes the interface that the kernel and the programs *)
(* are compiled with.  The interface is also where it finds the error codes *)
(* that it gave out before.  The developer edits while it runs, and it may  *)
(* be killed.  A line of the implementation is what one of the regular      *)
(* expressions takes from it; the other lines are left out.                 *)
(***************************************************************************)
EXTENDS Naturals, Sequences, FiniteSets, FiniteSetsExt, Functions

CONSTANTS
  Impl,        \* what the implementation file may say: sequences of lines
  ErrorName,
  ErrorSets,   \* what libs/georgios may say: for each error type, its errors
  MaxTime,     \* bound on the clock
  Budgets,     \* bounds on builds and on changes to files in a session
  NULL

ErrorType == UNION {DOMAIN sets : sets \in ErrorSets}

ASSUME GeneratorAssumption ==
  /\ MaxTime \in Nat
  /\ \A b \in Budgets : b.runs \in Nat /\ b.edits \in Nat
  /\ \A sets \in ErrorSets : sets \in [ErrorType -> Seq(ErrorName)]

VARIABLES
  impl, implTime,               \* kernel/platform/system_calls.zig and its mtime
  libs,                         \* the error sets in libs/georgios
  interface, interfaceTime,     \* libs/georgios/system_calls.zig, or NULL
  now,
  zigWorks,                     \* the zig in PATH runs
  runs, edits,                  \* how many more builds and changes there may be
  step,                         \* where the generator, or the build after it, is
  parsed,                       \* what it has read from impl
  error_types,                  \* the types it has asked zig for, with their errors
  error_codes,                  \* the errors of one type that are not numbered yet
  all_error_codes, max_error_code,
  kernel, program,              \* the codes and types that two binaries were compiled with
  spoiled,                      \* the last write did not finish, or something that it is made
                                \* from changed after it was read, without being newer than it
  lost                          \* a write was killed before all the codes were in the file

sourceVars == <<impl, implTime, libs, now, zigWorks>>
envVars == <<sourceVars, runs, edits>>
fileVars == <<interface, interfaceTime>>
localVars == <<parsed, error_types, error_codes, all_error_codes, max_error_code>>
binaryVars == <<kernel, program>>
vars == <<envVars, fileVars, step, localVars, binaryVars, spoiled, lost>>

-----------------------------------------------------------------------------
NothingParsed ==
  [int_num |-> NULL, syscall |-> NULL, syscalls |-> <<>>, regs |-> {}, failed |-> FALSE]

\* One line; parsed.syscalls is in the order of the file, a later signature of
\* a number instead of an earlier one.
ParseLine(p, line) ==
  LET failed == [p EXCEPT !.failed = TRUE]
  IN IF p.failed THEN p ELSE
     CASE line.kind = "interrupt_number" ->
            IF p.syscall # NULL \/ p.int_num # NULL THEN failed
            ELSE [p EXCEPT !.int_num = line.value]
       [] line.kind = "arg" ->
            IF p.syscall # NULL THEN failed ELSE [p EXCEPT !.regs = @ \cup {line.value}]
       [] line.kind = "SYSCALL" ->
            IF p.syscall # NULL THEN failed ELSE [p EXCEPT !.syscall = line.value]
       [] line.kind = "IMPORT" -> IF p.syscall = NULL THEN failed ELSE p
       [] line.kind = "number" ->
            IF p.syscall = NULL THEN failed
            ELSE [p EXCEPT !.syscall = NULL,
                           !.syscalls = LET call == [num |-> line.value, sig |-> p.syscall]
                                        IN IF \E i \in DOMAIN @ : @[i].num = line.value
                                           THEN [i \in DOMAIN @ |->
                                                   IF @[i].num = line.value THEN call ELSE @[i]]
                                           ELSE Append(@, call)]

Parse(lines) ==
  LET upTo[i \in 0..Len(lines)] ==
        IF i = 0 THEN NothingParsed ELSE ParseLine(upTo[i - 1], lines[i])
  IN upTo[Len(lines)]

\* Registers that a call takes: its arguments, then where to put what it returns.
Uses(sig) == sig.args + (IF sig.returns THEN 1 ELSE 0)

\* The calls, in order, whose functions are written before error() or an
\* exception ends the writing.  A fifth argument is one too many for five
\* registers.
TooManyRegisters(sig, regs) == sig.returns /\ Uses(sig) > Cardinality(regs)
TooManyArguments(sig, regs) ==
  Uses(sig) >= Cardinality(regs) \/ ~(1..Uses(sig) \subseteq regs)

Fails(sig, regs) == TooManyRegisters(sig, regs) \/ TooManyArguments(sig, regs)

Written(p) ==
  LET stops == {i \in DOMAIN p.syscalls : Fails(p.syscalls[i].sig, p.regs)}
  IN IF stops = {} THEN p.syscalls ELSE SubSeq(p.syscalls, 1, Min(stops) - 1)

\* The error types of the calls.
TypesOf(p) == {p.syscalls[i].sig.error : i \in DOMAIN p.syscalls} \ {NULL}

-----------------------------------------------------------------------------
\* The interface without what the next write puts in.
Empty == [codes |-> <<>>, types |-> <<>>, calls |-> <<>>, end |-> "inside"]

Prepared ==
  /\ impl \in Impl /\ implTime = 0
  /\ libs \in ErrorSets
  /\ now = 0
  /\ zigWorks = TRUE
  /\ interface = [Empty EXCEPT !.end = "whole"] /\ interfaceTime = 0
  /\ step = "idle"
  /\ parsed = NothingParsed
  /\ error_types = <<>> /\ error_codes = <<>>
  /\ all_error_codes = <<>> /\ max_error_code = 0
  /\ kernel = NULL /\ program = NULL
  /\ spoiled = FALSE /\ lost = FALSE

Init == Prepared /\ \E b \in Budgets : runs = b.runs /\ edits = b.edits

\* Mutant: a file of the same age is taken to be up to date.
NeedIfNewer == interface # NULL => implTime > interfaceTime

\* implTime is the later of the times of the implementation and of the script.
need_to_generate == interface # NULL => implTime >= interfaceTime

\* zig build starts the generator, which may have nothing to do.
Start ==
  /\ step = "idle" /\ runs > 0
  /\ runs' = runs - 1
  /\ step' = IF need_to_generate THEN "parse" ELSE "compile"
  /\ UNCHANGED <<sourceVars, edits, fileVars, localVars, binaryVars, spoiled, lost>>

\* The process ends, by itself or not.
Exit(next) ==
  /\ step' = next
  /\ parsed' = NothingParsed
  /\ error_types' = <<>> /\ error_codes' = <<>>
  /\ all_error_codes' = <<>> /\ max_error_code' = 0

\* error(), or an exception, before the file is opened to be written: the build
\* stops.
Fail == Exit("idle") /\ UNCHANGED fileVars

ParseImplementation ==
  /\ step = "parse"
  /\ \/ Parse(impl).failed /\ Fail
     \/ /\ ~Parse(impl).failed
        /\ parsed' = Parse(impl)
        /\ step' = "codes"
        /\ UNCHANGED <<fileVars, error_types, error_codes, all_error_codes, max_error_code>>
  /\ spoiled' = FALSE
  /\ UNCHANGED <<envVars, binaryVars, lost>>

Values(codes) == {codes[e] : e \in DOMAIN codes}

\* Mutant: numbering begins anew.
FromZero(codes, m) == m = 0

\* What numbering goes on from.
IsLargest(codes, m) == \A v \in Values(codes) : v <= m

\* The codes of the interface as it is; open() raises when it is missing,
\* whatever the start of the script made of that.
ReadErrorCodes ==
  /\ step = "codes"
  /\ \/ interface = NULL /\ Fail
     \/ /\ interface # NULL
        /\ all_error_codes' = interface.codes
        /\ \E m \in Values(interface.codes) \cup {0} :
             IsLargest(interface.codes, m) /\ max_error_code' = m
        /\ step' = "errors"
        /\ UNCHANGED <<fileVars, parsed, error_types, error_codes>>
  /\ UNCHANGED <<envVars, binaryVars, spoiled, lost>>

Undecomposable == \E i \in DOMAIN parsed.syscalls : ~parsed.syscalls[i].sig.valid

\* Calls whose error type zig has not been asked for.
Unasked == {i \in DOMAIN parsed.syscalls :
              parsed.syscalls[i].sig.error \notin DOMAIN error_types \cup {NULL}}

\* zig run prints the errors of the next type, unless there is no such type,
\* something in libs does not compile or there is no zig.
AskZig ==
  /\ step = "errors" /\ error_codes = <<>> /\ Unasked # {}
  /\ \/ ~Undecomposable /\ zigWorks
        /\ \E next \in Unasked :
           LET type == parsed.syscalls[next].sig.error
           IN /\ \A i \in Unasked : next <= i
              /\ type \in DOMAIN libs
              /\ error_types' = [t \in DOMAIN error_types \cup {type} |->
                                   IF t = type THEN Range(libs[type]) ELSE error_types[t]]
              /\ error_codes' = libs[type]
        /\ UNCHANGED <<fileVars, step, parsed, all_error_codes, max_error_code>>
     \/ Fail
  /\ UNCHANGED <<envVars, binaryVars, spoiled, lost>>

NumberError ==
  /\ step = "errors" /\ error_codes # <<>>
  /\ error_codes' = Tail(error_codes)
  /\ IF Head(error_codes) \in DOMAIN all_error_codes
     THEN UNCHANGED <<all_error_codes, max_error_code>>
     ELSE /\ max_error_code' = max_error_code + 1
          /\ all_error_codes' = [e \in DOMAIN all_error_codes \cup {Head(error_codes)} |->
                                   IF e \in DOMAIN all_error_codes THEN all_error_codes[e]
                                   ELSE max_error_code + 1]
  /\ UNCHANGED <<envVars, fileVars, step, parsed, error_types, binaryVars, spoiled, lost>>

Incomplete == NULL = parsed.int_num \/ parsed.regs = {} \/ parsed.syscalls = <<>>

\* The checks, and open(), which empties the file.
OpenInterface ==
  /\ step = "errors" /\ error_codes = <<>> /\ Unasked = {}
  /\ \/ (Incomplete \/ Undecomposable) /\ Fail
     \/ /\ ~Incomplete /\ ~Undecomposable
        /\ interface' = Empty /\ interfaceTime' = now
        /\ step' = "write"
        /\ UNCHANGED localVars
  /\ UNCHANGED <<envVars, binaryVars, spoiled, lost>>

\* The whole file, or up to the first call that there are not enough registers for.
Write ==
  LET calls == Written(parsed)
      whole == calls = parsed.syscalls
      failing == parsed.syscalls[Len(calls) + 1].sig
  IN /\ step = "write"
     /\ interface' = [codes |-> all_error_codes, types |-> error_types, calls |-> calls,
                      end |-> IF whole THEN "whole"
                              ELSE IF TooManyRegisters(failing, parsed.regs) THEN "between"
                              ELSE "inside"]
     /\ interfaceTime' = now
     /\ Exit(IF whole THEN "compile" ELSE "idle")
     /\ spoiled' = (spoiled \/ ~whole)
     /\ UNCHANGED <<envVars, binaryVars, lost>>

\* Killed: of what was being written some first part is in the file.
Kill ==
  /\ step # "idle"
  /\ Exit("idle")
  /\ IF step = "write"
     THEN \E largest \in 0..max_error_code, n \in 0..Len(Written(parsed)) :
            LET names == {e \in DOMAIN all_error_codes : all_error_codes[e] <= largest}
                all == names = DOMAIN all_error_codes
            IN /\ \/ interface' = [Empty EXCEPT !.codes = [e \in names |-> all_error_codes[e]]]
                  \/ /\ all
                     /\ \E end \in {"between", "inside"} :
                          interface' = [codes |-> all_error_codes, types |-> error_types,
                                        calls |-> SubSeq(Written(parsed), 1, n), end |-> end]
               /\ interfaceTime' = now
               /\ spoiled' = TRUE
               /\ lost' = (lost \/ ~all)
     ELSE UNCHANGED <<fileVars, spoiled, lost>>
  /\ UNCHANGED <<envVars, binaryVars>>

\* What compiles: switches over errors must name each of a type's errors, and a
\* handler's type must have one.
Compiles ==
  /\ zigWorks
  /\ interface # NULL /\ interface.end # "inside"
  /\ \A t \in DOMAIN interface.types : interface.types[t] = Range(libs[t])
  /\ TypesOf(Parse(impl)) \subseteq DOMAIN interface.types

\* The rest of the build; the kernel and the programs that are used may be older
\* ones.
Compile ==
  /\ step = "compile"
  /\ step' = "idle"
  /\ IF Compiles
     THEN LET built == [codes |-> interface.codes, types |-> interface.types]
          IN kernel' \in {kernel, built} /\ program' \in {program, built}
     ELSE UNCHANGED binaryVars
  /\ UNCHANGED <<envVars, fileVars, localVars, spoiled, lost>>

-----------------------------------------------------------------------------
\* The developer.
Edit == edits > 0 /\ edits' = edits - 1

EditImplementation ==
  /\ Edit
  /\ impl' \in Impl \ {impl} /\ implTime' = now
  /\ spoiled' = (spoiled \/ step \in {"codes", "errors", "write"})
  /\ UNCHANGED <<libs, now, zigWorks, runs, fileVars, step, localVars, binaryVars, lost>>

\* The time of libs is none that the start of the script looks at.
EditLibs ==
  /\ Edit
  /\ libs' \in ErrorSets \ {libs}
  /\ spoiled' = (spoiled \/ step \notin {"parse", "codes"})
  /\ UNCHANGED <<impl, implTime, now, zigWorks, runs, fileVars, step, localVars, binaryVars, lost>>

DeleteInterface ==
  /\ Edit
  /\ step = "idle"
  /\ interface' = NULL
  /\ UNCHANGED <<sourceVars, runs, interfaceTime, step, localVars, binaryVars, spoiled, lost>>

\* The clock matters as long as something may still be written.
Tick ==
  /\ now < MaxTime /\ runs + edits > 0
  /\ now' = now + 1
  /\ UNCHANGED <<impl, implTime, libs, zigWorks, runs, edits, fileVars, step, localVars, binaryVars, spoiled, lost>>

ZigChanges ==
  /\ zigWorks' \in BOOLEAN
  /\ UNCHANGED <<impl, implTime, libs, now, runs, edits, fileVars, step, localVars, binaryVars, spoiled, lost>>

Generate ==
  \/ Start \/ ParseImplementation \/ ReadErrorCodes \/ AskZig \/ NumberError
  \/ OpenInterface \/ Write \/ Kill \/ Compile

Next ==
  \/ Generate
  \/ EditImplementation \/ EditLibs \/ DeleteInterface \/ Tick
  \/ ZigChanges

Spec == Init /\ [][Next]_vars

-----------------------------------------------------------------------------
\* ValueOrError.get() in a program, of the code that set_error() put there in a
\* kernel for an error of a type.
Received(type, error) ==
  LET named == {e \in program.types[type] : program.codes[e] = kernel.codes[error]}
  IN IF named = {} THEN {"Unknown"} ELSE named

\* An error that a kernel returns arrives in a program as the same error, or as
\* Unknown where the program does not know it, though the two were compiled with
\* different interfaces: codes are never given to another error, whatever fails
\* and whoever edits, until a write is killed before all codes are back in the
\* file.
ErrorsArrive ==
  ~lost /\ kernel # NULL /\ program # NULL =>
    \A type \in DOMAIN kernel.types \cap DOMAIN program.types :
      \A error \in kernel.types[type] :
        Received(type, error) =
          {IF error \in program.types[type] THEN error ELSE "Unknown"}

\* When the generator has no need to generate, the interface is what it would write: whole,
\* with the calls of the implementation, their error types with the errors that libs has now,
\* and a code for each of these.  This is not so when the last write did not finish, or when
\* the implementation was edited since it was read and still is older than the interface, or
\* when libs was edited after zig was first asked.
SkipMeansUpToDate ==
  ~need_to_generate /\ ~spoiled /\ step = "idle" =>
    /\ interface.end = "whole"
    /\ interface.calls = Parse(impl).syscalls
    /\ interface.types = [t \in TypesOf(Parse(impl)) |-> Range(libs[t])]
    /\ UNION Range(interface.types) \subseteq DOMAIN interface.codes
=============================================================================
