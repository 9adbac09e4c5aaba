-------------------------- MODULE WorkstationProofs --------------------------
(***************************************************************************)
(* The system call generator never gives a code that it gave to an error to *)
(* another one, and skips nothing that it should have generated again, in   *)
(* every program, for any implementation, error types, number of builds and *)
(* changes.  It does not notice more of the scripts beside it than that zig *)
(* runs or does not, so this is true of the whole checkout, in which zig.py *)
(* update ends with the latest zig and list has the newest first.  Then, of *)
(* the other scripts: the tables of every code page are exact, what is      *)
(* printed for an interface is nested and its arguments arrive, and every   *)
(* bitmap is read from the top.                                             *)
(***************************************************************************)
EXTENDS Workstation, SequenceTheorems, FiniteSetTheorems, WellFoundedInduction, TLAPS

\* Every error has a code of its own.
OneToOne(codes) ==
  /\ \A e \in DOMAIN codes : codes[e] \in Nat
  /\ \A e, f \in DOMAIN codes : codes[e] = codes[f] => e = f

\* What was compiled with the codes `older' can talk to what has `newer' ones.
Keeps(newer, older) ==
  \A e \in DOMAIN older : e \in DOMAIN newer /\ newer[e] = older[e]

\* The errors of the types all have codes.
Named(types, codes) == \A t \in DOMAIN types : types[t] \subseteq DOMAIN codes

\* The errors of the types that are not numbered yet are those that are to be
\* numbered.
Numbering ==
  step \in {"errors", "write"} =>
    /\ OneToOne(all_error_codes)
    /\ max_error_code \in Nat
    /\ \A e \in DOMAIN all_error_codes : all_error_codes[e] <= max_error_code
    /\ error_codes \in Seq(ErrorName)
    /\ \A t \in DOMAIN error_types :
         error_types[t] \subseteq DOMAIN all_error_codes \cup Range(error_codes)
    /\ step = "write" => error_codes = <<>>

\* Nothing is left of the process before.
Afresh ==
  step \notin {"errors", "write"} => error_types = <<>> /\ error_codes = <<>>

InterfaceIsSound ==
  /\ interface # NULL => OneToOne(interface.codes) /\ Named(interface.types, interface.codes)
  /\ step = "errors" => interface # NULL /\ Keeps(all_error_codes, interface.codes)

\* The codes of a binary are among the ones that the next interface will have.
IsCurrent(binary) ==
  binary # NULL =>
    /\ Named(binary.types, binary.codes)
    /\ ~lost /\ step = "write" => Keeps(all_error_codes, binary.codes)
    /\ ~lost /\ step # "write" /\ interface # NULL => Keeps(interface.codes, binary.codes)

\* A code is the same error in both, even when the interface is gone.
Compatible ==
  ~lost /\ kernel # NULL /\ program # NULL =>
    \A e \in DOMAIN kernel.codes, f \in DOMAIN program.codes :
      kernel.codes[e] = program.codes[f] <=> e = f

CodesInv ==
  /\ libs \in ErrorSets /\ lost \in BOOLEAN
  /\ Numbering /\ Afresh
  /\ InterfaceIsSound
  /\ IsCurrent(kernel) /\ IsCurrent(program)
  /\ Compatible

-----------------------------------------------------------------------------
\* A step that leaves the codes of the file and of the binaries alone, outside
\* of what numbers and writes them.
LEMMA UntouchedCodes ==
  ASSUME CodesInv, libs' \in ErrorSets,
         step' \notin {"errors", "write"}, step # "write",
         error_types' = <<>>, error_codes' = <<>>,
         UNCHANGED <<interface, kernel, program, lost>>
  PROVE  CodesInv'
BY DEF CodesInv, Numbering, Afresh, InterfaceIsSound, IsCurrent, Compatible, Named, OneToOne,
       Keeps

\* A step that leaves everything that the invariant speaks of alone.
LEMMA UntouchedState ==
  ASSUME CodesInv, libs' \in ErrorSets,
         UNCHANGED <<fileVars, step, localVars, binaryVars, lost>>
  PROVE  CodesInv'
BY DEF CodesInv, Numbering, Afresh, InterfaceIsSound, IsCurrent, Compatible, Named, OneToOne,
       Keeps, fileVars, localVars, binaryVars

LEMMA InitKeepsCodes == ASSUME Init PROVE CodesInv
<1>1. OneToOne(<<>>) /\ Named(<<>>, <<>>)
  BY DEF OneToOne, Named
<1>2. interface.codes = <<>> /\ interface.types = <<>>
  BY DEF Init, Prepared, Empty
<1>3. QED
  BY <1>1, <1>2
  DEF Init, Prepared, CodesInv, Numbering, Afresh, InterfaceIsSound, IsCurrent, Compatible

LEMMA StartKeepsCodes == ASSUME CodesInv, Start PROVE CodesInv'
BY UntouchedCodes
DEF Start, CodesInv, Afresh, sourceVars, fileVars, localVars, binaryVars

LEMMA FailKeepsCodes ==
  ASSUME CodesInv, Fail, step # "write", UNCHANGED <<libs, kernel, program, lost>>
  PROVE  CodesInv'
BY UntouchedCodes DEF Fail, Exit, CodesInv, fileVars

LEMMA ParseKeepsCodes == ASSUME CodesInv, ParseImplementation PROVE CodesInv'
<1>1. step = "parse" /\ UNCHANGED <<libs, kernel, program, lost>>
  BY DEF ParseImplementation, envVars, sourceVars, binaryVars
<1>2. CASE Parse(impl).failed
  BY <1>1, <1>2, FailKeepsCodes DEF ParseImplementation
<1>3. CASE ~Parse(impl).failed
  BY <1>1, <1>3, UntouchedCodes DEF ParseImplementation, CodesInv, Afresh, fileVars
<1>4. QED BY <1>2, <1>3

\* Reading takes up the codes of the file and the largest of them.
LEMMA ReadKeepsCodes == ASSUME CodesInv, ReadErrorCodes PROVE CodesInv'
<1>1. step = "codes" /\ UNCHANGED <<libs, kernel, program, lost>>
  BY DEF ReadErrorCodes, envVars, sourceVars, binaryVars
<1>2. CASE interface = NULL
  BY <1>1, <1>2, FailKeepsCodes DEF ReadErrorCodes
<1>3. CASE interface # NULL
  <2>1. /\ all_error_codes' = interface.codes /\ step' = "errors"
        /\ UNCHANGED <<interface, error_types, error_codes>>
    BY <1>3 DEF ReadErrorCodes, fileVars
  <2>2. PICK m \in Values(interface.codes) \cup {0} :
          IsLargest(interface.codes, m) /\ max_error_code' = m
    BY <1>3 DEF ReadErrorCodes
  <2>3. OneToOne(interface.codes)
    BY <1>3 DEF CodesInv, InterfaceIsSound
  <2>4. m \in Nat /\ \A e \in DOMAIN interface.codes : interface.codes[e] <= m
    BY <2>2, <2>3 DEF OneToOne, Values, IsLargest
  <2>5. Numbering' /\ Afresh'
    BY <1>1, <2>1, <2>2, <2>3, <2>4 DEF CodesInv, Afresh, Numbering, OneToOne
  <2>6. InterfaceIsSound'
    BY <1>3, <2>1 DEF CodesInv, InterfaceIsSound, Keeps, OneToOne, Named
  <2>7. IsCurrent(kernel)' /\ IsCurrent(program)' /\ Compatible'
    BY <1>1, <2>1 DEF CodesInv, IsCurrent, Compatible, Named, Keeps
  <2>8. QED BY <1>1, <2>5, <2>6, <2>7 DEF CodesInv
<1>4. QED BY <1>2, <1>3

\* While zig is asked and errors are numbered, file and binaries stay as they are.
LEMMA ErrorsKeepRest ==
  ASSUME CodesInv, step = "errors", step' = "errors", Numbering',
         Keeps(all_error_codes', interface.codes),
         UNCHANGED <<libs, interface, kernel, program, lost>>
  PROVE  CodesInv'
<1>1. InterfaceIsSound'
  BY DEF CodesInv, InterfaceIsSound, Keeps, OneToOne, Named
<1>2. IsCurrent(kernel)' /\ IsCurrent(program)' /\ Compatible'
  BY DEF CodesInv, IsCurrent, Compatible, Named, Keeps
<1>3. QED BY <1>1, <1>2 DEF CodesInv, Afresh

LEMMA AskKeepsCodes == ASSUME CodesInv, AskZig PROVE CodesInv'
<1>1. step = "errors" /\ error_codes = <<>> /\ UNCHANGED <<libs, kernel, program, lost>>
  BY DEF AskZig, envVars, sourceVars, binaryVars
<1>2. CASE Fail
  BY <1>1, <1>2, FailKeepsCodes
<1>3. CASE ~Fail
  <2>0. PICK next \in Unasked :
          LET type == parsed.syscalls[next].sig.error
          IN /\ type \in DOMAIN libs
             /\ error_types' = [t \in DOMAIN error_types \cup {type} |->
                                  IF t = type THEN Range(libs[type]) ELSE error_types[t]]
             /\ error_codes' = libs[type]
    BY <1>3 DEF AskZig
  <2> DEFINE type == parsed.syscalls[next].sig.error
  <2>1. /\ type \in DOMAIN libs
        /\ error_types' = [t \in DOMAIN error_types \cup {type} |->
                             IF t = type THEN Range(libs[type]) ELSE error_types[t]]
        /\ error_codes' = libs[type]
        /\ UNCHANGED <<interface, step, all_error_codes, max_error_code>>
    BY <1>3, <2>0 DEF AskZig, fileVars
  <2> HIDE DEF type
  <2>2. libs[type] \in Seq(ErrorName)
    BY <2>1, GeneratorAssumption DEF CodesInv
  <2>3. Range(error_codes) = {}
    BY <1>1 DEF Range
  <2>4. \A t \in DOMAIN error_types' :
          error_types'[t] \subseteq DOMAIN all_error_codes \cup Range(error_codes')
    BY <1>1, <2>1, <2>3 DEF CodesInv, Numbering
  <2>5. Numbering'
    BY <1>1, <2>1, <2>2, <2>4 DEF CodesInv, Numbering, OneToOne
  <2>6. QED
    BY <1>1, <2>1, <2>5, ErrorsKeepRest DEF CodesInv, InterfaceIsSound
<1>4. QED BY <1>2, <1>3

\* An error that has no code gets one above all others.
LEMMA NumberKeepsCodes == ASSUME CodesInv, NumberError PROVE CodesInv'
<1>1. /\ step = "errors" /\ error_codes # <<>>
      /\ error_codes' = Tail(error_codes)
      /\ UNCHANGED <<libs, interface, step, error_types, kernel, program, lost>>
  BY DEF NumberError, envVars, sourceVars, fileVars, binaryVars
<1> DEFINE error == Head(error_codes)
<1>2. error_codes \in Seq(ErrorName) /\ error_codes' \in Seq(ErrorName)
  BY <1>1 DEF CodesInv, Numbering
<1>3. Range(error_codes) \subseteq {error} \cup Range(error_codes')
  <2> SUFFICES ASSUME NEW i \in DOMAIN error_codes
               PROVE  error_codes[i] = error \/ \E k \in DOMAIN Tail(error_codes) :
                                                 error_codes[i] = Tail(error_codes)[k]
    BY <1>1 DEF Range
  <2>1. CASE i = 1
    BY <2>1
  <2>2. CASE i # 1
    <3>1. i - 1 \in DOMAIN Tail(error_codes) /\ Tail(error_codes)[i - 1] = error_codes[i]
      BY <1>1, <1>2, <2>2
    <3>2. QED BY <3>1
  <2>3. QED BY <2>1, <2>2
<1>4. /\ error \in DOMAIN all_error_codes'
      /\ DOMAIN all_error_codes \subseteq DOMAIN all_error_codes'
      /\ Keeps(all_error_codes', all_error_codes)
  BY DEF NumberError, Keeps
<1>5. /\ OneToOne(all_error_codes') /\ max_error_code' \in Nat
      /\ \A e \in DOMAIN all_error_codes' : all_error_codes'[e] <= max_error_code'
  <2>1. CASE error \in DOMAIN all_error_codes
    BY <1>1, <2>1 DEF NumberError, CodesInv, Numbering
  <2>2. CASE error \notin DOMAIN all_error_codes
    <3>1. /\ max_error_code' = max_error_code + 1
          /\ DOMAIN all_error_codes' = DOMAIN all_error_codes \cup {error}
          /\ \A e \in DOMAIN all_error_codes : all_error_codes'[e] = all_error_codes[e]
          /\ all_error_codes'[error] = max_error_code + 1
      BY <2>2 DEF NumberError
    <3>2. /\ OneToOne(all_error_codes) /\ max_error_code \in Nat
          /\ \A e \in DOMAIN all_error_codes : all_error_codes[e] <= max_error_code
      BY <1>1 DEF CodesInv, Numbering
    <3> HIDE DEF error
    <3>3. QED BY <2>2, <3>1, <3>2 DEF OneToOne
  <2>3. QED BY <2>1, <2>2
<1>6. Numbering'
  <2>1. \A t \in DOMAIN error_types :
          error_types[t] \subseteq DOMAIN all_error_codes' \cup Range(error_codes')
    BY <1>1, <1>3, <1>4 DEF CodesInv, Numbering
  <2>2. QED BY <1>1, <1>2, <1>5, <2>1 DEF Numbering
<1>7. Keeps(all_error_codes', interface.codes)
  BY <1>1, <1>4 DEF CodesInv, InterfaceIsSound, Keeps
<1>8. QED BY <1>1, <1>6, <1>7, ErrorsKeepRest

\* The file is emptied, but the generator has its codes.
LEMMA OpenKeepsCodes == ASSUME CodesInv, OpenInterface PROVE CodesInv'
<1>1. step = "errors" /\ error_codes = <<>> /\ UNCHANGED <<libs, kernel, program, lost>>
  BY DEF OpenInterface, envVars, sourceVars, binaryVars
<1>2. CASE Fail
  BY <1>1, <1>2, FailKeepsCodes
<1>3. CASE ~Fail
  <2>1. interface' = Empty /\ step' = "write" /\ UNCHANGED localVars
    BY <1>3 DEF OpenInterface
  <2>2. Numbering' /\ Afresh'
    BY <1>1, <2>1 DEF CodesInv, Numbering, Afresh, localVars, OneToOne
  <2>3. InterfaceIsSound'
    BY <2>1 DEF InterfaceIsSound, Empty, OneToOne, Named
  <2>4. IsCurrent(kernel)' /\ IsCurrent(program)'
    BY <1>1, <2>1 DEF CodesInv, InterfaceIsSound, IsCurrent, Keeps, Named, localVars
  <2>5. Compatible'
    BY <1>1 DEF CodesInv, Compatible
  <2>6. QED BY <1>1, <2>2, <2>3, <2>4, <2>5 DEF CodesInv
<1>4. QED BY <1>2, <1>3

\* A file that has all codes again can stand for the codes of the generator.
LEMMA WrittenKeepsCodes ==
  ASSUME CodesInv, step = "write", step' \notin {"errors", "write"},
         interface'.codes = all_error_codes, interface'.types \in {<<>>, error_types},
         error_types' = <<>>, error_codes' = <<>>,
         UNCHANGED <<libs, kernel, program, lost>>
  PROVE  CodesInv'
<1>1. /\ OneToOne(all_error_codes)
      /\ Named(error_types, all_error_codes) /\ Named(<<>>, all_error_codes)
  BY DEF CodesInv, Numbering, Named, Range
<1>2. InterfaceIsSound'
  BY <1>1 DEF InterfaceIsSound
<1>3. IsCurrent(kernel)' /\ IsCurrent(program)' /\ Compatible'
  BY DEF CodesInv, IsCurrent, Compatible, Keeps, Named
<1>4. Numbering' /\ Afresh'
  BY DEF Numbering, Afresh
<1>5. QED BY <1>2, <1>3, <1>4 DEF CodesInv

LEMMA WriteKeepsCodes == ASSUME CodesInv, Write PROVE CodesInv'
<1>1. /\ step = "write" /\ step' \in {"compile", "idle"}
      /\ interface'.codes = all_error_codes /\ interface'.types = error_types
      /\ error_types' = <<>> /\ error_codes' = <<>>
      /\ UNCHANGED <<libs, kernel, program, lost>>
  BY DEF Write, Exit, envVars, sourceVars, binaryVars
<1>2. QED BY <1>1, WrittenKeepsCodes

\* Killed before all codes are in the file: what is there is still sound, and
\* `lost' tells that it is not everything.
LEMMA KillKeepsCodes == ASSUME CodesInv, Kill PROVE CodesInv'
<1>1. /\ step' = "idle" /\ error_types' = <<>> /\ error_codes' = <<>>
      /\ UNCHANGED <<libs, kernel, program>>
  BY DEF Kill, Exit, envVars, sourceVars, binaryVars
<1>2. CASE step # "write"
  BY <1>1, <1>2, UntouchedCodes DEF Kill, CodesInv, fileVars
<1>3. CASE step = "write"
  <2> DEFINE Names(largest) == {e \in DOMAIN all_error_codes : all_error_codes[e] <= largest}
             Part(largest) == [e \in Names(largest) |-> all_error_codes[e]]
  <2>1. PICK largest \in 0..max_error_code, n \in 0..Len(Written(parsed)) :
          /\ \/ interface' = [Empty EXCEPT !.codes = Part(largest)]
             \/ /\ Names(largest) = DOMAIN all_error_codes
                /\ \E end \in {"between", "inside"} :
                     interface' = [codes |-> all_error_codes, types |-> error_types,
                                   calls |-> SubSeq(Written(parsed), 1, n), end |-> end]
          /\ lost' = (lost \/ ~(Names(largest) = DOMAIN all_error_codes))
    BY <1>3, Zenon DEF Kill
  <2>2. OneToOne(all_error_codes) /\ Named(error_types, all_error_codes)
    BY <1>3 DEF CodesInv, Numbering, Named, Range
  <2>3. CASE interface' = [Empty EXCEPT !.codes = Part(largest)]
    <3>1. interface'.codes = Part(largest) /\ interface'.types = <<>>
      BY <2>3 DEF Empty
    <3>2. InterfaceIsSound'
      BY <1>1, <2>2, <3>1 DEF InterfaceIsSound, OneToOne, Named
    <3>3. ~lost' => ~lost /\ Keeps(interface'.codes, all_error_codes)
      BY <2>1, <3>1 DEF Keeps
    <3>4. IsCurrent(kernel)' /\ IsCurrent(program)' /\ Compatible'
      BY <1>1, <1>3, <3>3 DEF CodesInv, IsCurrent, Compatible, Keeps, Named
    <3>5. lost' \in BOOLEAN
      BY <2>1
    <3>6. QED BY <1>1, <3>2, <3>4, <3>5 DEF CodesInv, Numbering, Afresh
  <2>4. CASE /\ Names(largest) = DOMAIN all_error_codes
             /\ \E end \in {"between", "inside"} :
                  interface' = [codes |-> all_error_codes, types |-> error_types,
                                calls |-> SubSeq(Written(parsed), 1, n), end |-> end]
    <3>1. interface'.codes = all_error_codes /\ interface'.types = error_types
      BY <2>4
    <3>2. lost' = lost
      BY <2>1, <2>4 DEF CodesInv
    <3>3. QED BY <1>1, <1>3, <3>1, <3>2, WrittenKeepsCodes
  <2>5. QED BY <2>1, <2>3, <2>4
<1>4. QED BY <1>2, <1>3

\* What is compiled takes the codes of the interface, which have those of the
\* binary before.
LEMMA CompileKeepsCodes == ASSUME CodesInv, Compile PROVE CodesInv'
<1>1. /\ step = "compile" /\ step' = "idle"
      /\ UNCHANGED <<libs, interface, error_types, error_codes, lost>>
  BY DEF Compile, envVars, sourceVars, fileVars, localVars
<1>2. CASE ~Compiles
  BY <1>1, <1>2, UntouchedCodes DEF Compile, CodesInv, Afresh, binaryVars
<1>3. CASE Compiles
  <2> DEFINE built == [codes |-> interface.codes, types |-> interface.types]
  <2>1. interface # NULL /\ kernel' \in {kernel, built} /\ program' \in {program, built}
    BY <1>3 DEF Compile, Compiles
  <2>2. OneToOne(interface.codes) /\ Named(interface.types, interface.codes)
    BY <2>1 DEF CodesInv, InterfaceIsSound
  <2>3. IsCurrent(kernel)' /\ IsCurrent(program)'
    BY <1>1, <2>1, <2>2 DEF CodesInv, IsCurrent, Keeps, Named
  <2>4. Compatible'
    <3>1. \A binary \in {kernel', program'} :
            ~lost /\ binary # NULL => Keeps(interface.codes, binary.codes)
      BY <1>1, <2>1, <2>3 DEF IsCurrent
    <3>2. QED BY <1>1, <2>2, <3>1 DEF Compatible, Keeps, OneToOne
  <2>5. QED
    BY <1>1, <2>3, <2>4 DEF CodesInv, Numbering, Afresh, InterfaceIsSound
<1>4. QED BY <1>2, <1>3

\* The developer changes what is read, or takes the interface away.
LEMMA EditsKeepCodes ==
  ASSUME CodesInv,
         EditImplementation \/ EditLibs \/ DeleteInterface \/ Tick \/ ZigChanges
  PROVE  CodesInv'
<1>1. CASE EditImplementation
  BY <1>1, UntouchedState DEF EditImplementation, CodesInv
<1>2. CASE EditLibs
  BY <1>2, UntouchedState DEF EditLibs, CodesInv
<1>3. CASE DeleteInterface
  BY <1>3
  DEF DeleteInterface, sourceVars, localVars, binaryVars, CodesInv, Numbering, Afresh,
      InterfaceIsSound, IsCurrent, Compatible, Named
<1>4. CASE Tick
  BY <1>4, UntouchedState DEF Tick, CodesInv
<1>5. CASE ZigChanges
  BY <1>5, UntouchedState DEF ZigChanges, CodesInv
<1>6. QED BY <1>1, <1>2, <1>3, <1>4, <1>5

LEMMA NextKeepsCodes == ASSUME CodesInv, [Next]_vars PROVE CodesInv'
<1>1. CASE Generate
  BY <1>1, StartKeepsCodes, ParseKeepsCodes, ReadKeepsCodes, AskKeepsCodes, NumberKeepsCodes,
     OpenKeepsCodes, WriteKeepsCodes, KillKeepsCodes, CompileKeepsCodes
  DEF Generate
<1>2. CASE Next /\ ~Generate
  BY <1>2, EditsKeepCodes DEF Next
<1>3. CASE UNCHANGED vars
  BY <1>3, UntouchedState DEF vars, envVars, sourceVars, CodesInv
<1>4. QED BY <1>1, <1>2, <1>3

\* The invariant says what a program makes of a kernel's code.
LEMMA CodesInvImpliesArrival == ASSUME CodesInv PROVE ErrorsArrive
<1> SUFFICES ASSUME ~lost, kernel # NULL, program # NULL,
                    NEW type \in DOMAIN kernel.types \cap DOMAIN program.types,
                    NEW error \in kernel.types[type]
             PROVE  Received(type, error) =
                      {IF error \in program.types[type] THEN error ELSE "Unknown"}
  BY DEF ErrorsArrive
<1>1. error \in DOMAIN kernel.codes /\ program.types[type] \subseteq DOMAIN program.codes
  BY DEF CodesInv, IsCurrent, Named
<1>2. \A e \in program.types[type] : program.codes[e] = kernel.codes[error] <=> e = error
  BY <1>1 DEF CodesInv, Compatible
<1>3. QED BY <1>2 DEF Received

\* The inductive invariant of the codes.
THEOREM CodesAreKept == Spec => []CodesInv
<1>1. Init => CodesInv
  BY InitKeepsCodes
<1>2. CodesInv /\ [Next]_vars => CodesInv'
  BY NextKeepsCodes
<1>3. QED BY <1>1, <1>2, PTL DEF Spec

\* Whatever the implementation and the errors come to be, however often builds
\* are run, fail or are killed: an error of the kernel arrives in a program as
\* that error, or as Unknown where the program has no such error, as long as no
\* write was killed before the codes were back in the file.
THEOREM ErrorsAlwaysArrive == Spec => []ErrorsArrive
<1>1. CodesInv => ErrorsArrive
  BY CodesInvImpliesArrival
<1>2. QED BY <1>1, CodesAreKept, PTL
-----------------------------------------------------------------------------
(* When there is nothing to generate *)

UpToDate ==
  /\ interface.end = "whole"
  /\ interface.calls = Parse(impl).syscalls
  /\ interface.types = [t \in TypesOf(Parse(impl)) |-> Range(libs[t])]

\* The types that zig was asked for are types of the calls, with the errors of libs.
AskedOfLibs ==
  \E asked \in SUBSET TypesOf(parsed) : error_types = [t \in asked |-> Range(libs[t])]

\* The interface is older than the implementation until it is opened; what has been read
\* stays what is in the files; and what has been written is generated from it.
SkipInv ==
  /\ now \in Nat /\ implTime \in 0..now /\ interfaceTime \in 0..now
  /\ step \in {"idle", "parse", "codes", "errors", "write", "compile"}
  /\ step \in {"parse", "codes", "errors"} => need_to_generate
  /\ step \in {"codes", "errors", "write"} /\ ~spoiled => parsed = Parse(impl)
  /\ step = "errors" /\ ~spoiled => AskedOfLibs
  /\ step = "write" /\ ~spoiled => error_types = [t \in TypesOf(parsed) |-> Range(libs[t])]
  /\ step \in {"idle", "compile"} => need_to_generate \/ spoiled \/ UpToDate

\* Whoever edits the implementation makes it newer than the interface, or spoils what is
\* being generated; whoever edits libs spoils what zig was asked.
LEMMA EditsSkip ==
  ASSUME SkipInv, EditImplementation \/ EditLibs \/ DeleteInterface \/ Tick \/ ZigChanges
  PROVE  SkipInv'
<1>1. CASE EditImplementation
  <2>1. /\ implTime' = now /\ spoiled' = (spoiled \/ step \in {"codes", "errors", "write"})
        /\ UNCHANGED <<now, interface, interfaceTime, step, parsed>>
    BY <1>1 DEF EditImplementation, fileVars, localVars
  <2>2. need_to_generate'
    BY <2>1 DEF SkipInv, need_to_generate
  <2>3. step \in {"codes", "errors", "write"} => spoiled'
    BY <2>1
  <2>4. now \in Nat /\ implTime' \in 0..now' /\ interfaceTime' \in 0..now'
    BY <2>1 DEF SkipInv
  <2>5. QED BY <2>1, <2>2, <2>3, <2>4 DEF SkipInv
<1>2. CASE DeleteInterface
  <2>1. /\ step = "idle" /\ interface' = NULL
        /\ UNCHANGED <<now, implTime, interfaceTime, step>>
    BY <1>2 DEF DeleteInterface, sourceVars
  <2>2. QED BY <2>1 DEF SkipInv, need_to_generate
<1>3. CASE EditLibs
  <2>1. /\ UNCHANGED <<impl, implTime, now, interface, interfaceTime, step, parsed>>
        /\ spoiled' = (spoiled \/ step \notin {"parse", "codes"})
    BY <1>3 DEF EditLibs, fileVars, localVars
  <2>2. QED BY <2>1 DEF SkipInv, need_to_generate
<1>4. CASE Tick \/ ZigChanges
  <2>1. /\ UNCHANGED <<impl, implTime, libs, interface, interfaceTime, step, parsed, error_types, spoiled>>
        /\ now' \in {now, now + 1}
    BY <1>4 DEF Tick, ZigChanges, fileVars, localVars
  <2>2. QED BY <2>1 DEF SkipInv, need_to_generate, UpToDate, AskedOfLibs
<1>5. QED BY <1>1, <1>2, <1>3, <1>4

\* The generator gives up, or is killed, before it opens the interface.
LEMMA StopsSkip ==
  ASSUME SkipInv, step \in {"parse", "codes", "errors"}, step' = "idle",
         UNCHANGED <<now, implTime, interface, interfaceTime>>
  PROVE  SkipInv'
BY DEF SkipInv, need_to_generate

\* The generator opens the interface after it has read the implementation, and leaves it
\* whole only if it has written all calls.
LEMMA GenerateSkips ==
  ASSUME SkipInv, CodesInv, Generate
  PROVE  SkipInv'
<1>0. UNCHANGED <<impl, implTime, libs, now>>
  BY DEF Generate, Start, ParseImplementation, ReadErrorCodes, AskZig, NumberError,
         OpenInterface, Write, Kill, Compile, envVars, sourceVars
<1>1. CASE Start
  <2>1. UNCHANGED <<interface, interfaceTime, spoiled>> /\ step = "idle"
    BY <1>1 DEF Start, fileVars
  <2>2. step' = IF need_to_generate THEN "parse" ELSE "compile"
    BY <1>1 DEF Start
  <2>3. QED BY <1>0, <2>1, <2>2 DEF SkipInv, need_to_generate, UpToDate
<1>2. CASE ParseImplementation
  <2>1. CASE Parse(impl).failed
    BY <1>0, <1>2, <2>1, StopsSkip DEF ParseImplementation, Fail, Exit, fileVars
  <2>2. CASE ~Parse(impl).failed
    <3>1. /\ step = "parse" /\ step' = "codes" /\ parsed' = Parse(impl)
          /\ UNCHANGED <<interface, interfaceTime>>
      BY <1>2, <2>2 DEF ParseImplementation, fileVars
    <3>2. QED BY <1>0, <3>1 DEF SkipInv, need_to_generate
  <2>3. QED BY <2>1, <2>2
<1>3. CASE ReadErrorCodes
  <2>1. CASE interface = NULL
    BY <1>0, <1>3, <2>1, StopsSkip DEF ReadErrorCodes, Fail, Exit, fileVars
  <2>2. CASE interface # NULL
    <3>1. /\ step = "codes" /\ step' = "errors"
          /\ UNCHANGED <<interface, interfaceTime, parsed, error_types, spoiled>>
      BY <1>3, <2>2 DEF ReadErrorCodes, fileVars
    <3>2. AskedOfLibs'
      <4>1. error_types' = <<>>
        BY <3>1 DEF CodesInv, Afresh
      <4>2. <<>> = [t \in {} |-> Range(libs[t])]
        OBVIOUS
      <4>3. QED BY <1>0, <4>1, <4>2 DEF AskedOfLibs
    <3>3. QED BY <1>0, <3>1, <3>2 DEF SkipInv, need_to_generate
  <2>3. QED BY <2>1, <2>2
<1>4. CASE AskZig
  <2>1. CASE Fail
    BY <1>0, <1>4, <2>1, StopsSkip DEF AskZig, Fail, Exit, fileVars
  <2>2. CASE ~Fail
    <3>1. step = "errors" /\ UNCHANGED <<step, interface, interfaceTime, parsed, spoiled>>
      BY <1>4, <2>2 DEF AskZig, fileVars
    <3>2. PICK next \in Unasked :
            LET type == parsed.syscalls[next].sig.error
            IN  error_types' = [t \in DOMAIN error_types \cup {type} |->
                                  IF t = type THEN Range(libs[type]) ELSE error_types[t]]
      BY <1>4, <2>2 DEF AskZig
    <3> DEFINE type == parsed.syscalls[next].sig.error
    <3>3. type \in TypesOf(parsed)
      BY DEF Unasked, TypesOf
    <3>4. ASSUME AskedOfLibs PROVE AskedOfLibs'
      <4>1. PICK asked \in SUBSET TypesOf(parsed) : error_types = [t \in asked |-> Range(libs[t])]
        BY <3>4 DEF AskedOfLibs
      <4>2. error_types' = [t \in asked \cup {type} |-> Range(libs[t])]
        BY <3>2, <4>1
      <4> HIDE DEF type
      <4>3. asked \cup {type} \in SUBSET TypesOf(parsed')
        BY <3>1, <3>3
      <4>4. QED BY <1>0, <4>2, <4>3 DEF AskedOfLibs
    <3> HIDE DEF type
    <3>5. QED BY <1>0, <3>1, <3>4 DEF SkipInv, need_to_generate
  <2>3. QED BY <2>1, <2>2
<1>5. CASE NumberError
  <2>1. step = "errors" /\ UNCHANGED <<step, interface, interfaceTime, parsed, error_types, spoiled>>
    BY <1>5 DEF NumberError, fileVars
  <2>2. QED BY <1>0, <2>1 DEF SkipInv, need_to_generate, AskedOfLibs
<1>6. CASE OpenInterface
  <2>1. CASE Fail
    BY <1>0, <1>6, <2>1, StopsSkip DEF OpenInterface, Fail, Exit, fileVars
  <2>2. CASE ~Fail
    <3>1. /\ step = "errors" /\ step' = "write" /\ interfaceTime' = now
          /\ UNCHANGED <<parsed, error_types, spoiled>> /\ Unasked = {}
      BY <1>6, <2>2 DEF OpenInterface, localVars
    <3>2. ASSUME AskedOfLibs
          PROVE  error_types' = [t \in TypesOf(parsed') |-> Range(libs'[t])]
      <4>1. PICK asked \in SUBSET TypesOf(parsed) : error_types = [t \in asked |-> Range(libs[t])]
        BY <3>2 DEF AskedOfLibs
      <4>2. TypesOf(parsed) \subseteq DOMAIN error_types
        BY <3>1 DEF Unasked, TypesOf
      <4>3. asked = TypesOf(parsed)
        BY <4>1, <4>2
      <4>4. QED BY <1>0, <3>1, <4>1, <4>3
    <3>3. QED BY <1>0, <3>1, <3>2 DEF SkipInv
  <2>3. QED BY <2>1, <2>2
<1>7. CASE Write
  <2> DEFINE calls == Written(parsed)
             whole == calls = parsed.syscalls
  <2>1. /\ step = "write" /\ interfaceTime' = now
        /\ interface'.calls = calls /\ interface'.types = error_types
        /\ (whole => interface'.end = "whole")
        /\ step' = IF whole THEN "compile" ELSE "idle"
        /\ spoiled' = (spoiled \/ ~whole)
    BY <1>7 DEF Write, Exit
  <2>2. ~spoiled' => /\ whole /\ parsed = Parse(impl)
                     /\ error_types = [t \in TypesOf(parsed) |-> Range(libs[t])]
    BY <2>1 DEF SkipInv
  <2>3. ~spoiled' => UpToDate'
    BY <1>0, <2>1, <2>2 DEF UpToDate
  <2> HIDE DEF calls, whole
  <2>4. QED BY <1>0, <2>1, <2>3 DEF SkipInv
<1>8. CASE Kill
  <2>1. step' = "idle"
    BY <1>8 DEF Kill, Exit
  <2>2. CASE step = "write"
    <3>1. interfaceTime' = now /\ spoiled' = TRUE
      BY <1>8, <2>2, Zenon DEF Kill
    <3>2. QED BY <1>0, <2>1, <3>1 DEF SkipInv
  <2>3. CASE step = "compile"
    <3>1. UNCHANGED <<interface, interfaceTime, spoiled>>
      BY <1>8, <2>3 DEF Kill, fileVars
    <3>2. QED BY <1>0, <2>1, <2>3, <3>1 DEF SkipInv, need_to_generate, UpToDate
  <2>4. CASE step \notin {"write", "compile"}
    <3>1. UNCHANGED <<interface, interfaceTime>> /\ step # "idle"
      BY <1>8, <2>4 DEF Kill, fileVars
    <3>2. QED BY <1>0, <2>1, <2>4, <3>1, StopsSkip DEF SkipInv
  <2>5. QED BY <2>2, <2>3, <2>4
<1>9. CASE Compile
  <2>1. /\ step = "compile" /\ step' = "idle"
        /\ UNCHANGED <<interface, interfaceTime, spoiled>>
    BY <1>9 DEF Compile, fileVars
  <2>2. QED BY <1>0, <2>1 DEF SkipInv, need_to_generate, UpToDate
<1>10. QED
  BY <1>1, <1>2, <1>3, <1>4, <1>5, <1>6, <1>7, <1>8, <1>9 DEF Generate

\* When the generator finds nothing to do, the interface is what it would write from the
\* implementation and from libs, calls, types and codes, though it goes by the clock alone:
\* an interface that is as old as the implementation is generated again, and whatever is
\* edited while it runs has a time no earlier.  The errors have codes because of CodesInv.
THEOREM SkippedIsUpToDate == Spec => []SkipMeansUpToDate
<1>1. Init => SkipInv
  BY DEF Init, Prepared, SkipInv, need_to_generate
<1>2. SkipInv /\ CodesInv /\ [Next]_vars => SkipInv'
  <2> SUFFICES ASSUME SkipInv, CodesInv, [Next]_vars PROVE SkipInv'
    OBVIOUS
  <2>1. CASE Next
    BY <2>1, GenerateSkips, EditsSkip DEF Next
  <2>2. CASE UNCHANGED vars
    BY <2>2
    DEF vars, envVars, sourceVars, fileVars, localVars, SkipInv, need_to_generate, UpToDate, AskedOfLibs
  <2>3. QED BY <2>1, <2>2
<1>3. SkipInv /\ CodesInv => SkipMeansUpToDate
  <2> SUFFICES ASSUME SkipInv, CodesInv, ~need_to_generate, ~spoiled, step = "idle"
               PROVE  UpToDate /\ UNION Range(interface.types) \subseteq DOMAIN interface.codes
    BY DEF SkipMeansUpToDate, UpToDate
  <2>1. UpToDate /\ interface # NULL
    BY DEF SkipInv, need_to_generate
  <2>2. Named(interface.types, interface.codes)
    BY <2>1 DEF CodesInv, InterfaceIsSound
  <2>3. QED BY <2>1, <2>2 DEF Named, Range
<1>4. QED BY <1>1, <1>2, <1>3, CodesAreKept, PTL DEF Spec

-----------------------------------------------------------------------------

\* A step of any script is a step of the generator, a change that its model
\* allows for, or nothing to it.
LEMMA StepsAreGeneratorSteps ==
  ASSUME [WorkstationNext]_workstationVars PROVE [Next]_vars
<1>1. CASE Building
  BY <1>1 DEF Building, Next
<1>2. CASE ManagingZig
  <2>1. zigWorks' \in BOOLEAN
    BY <1>2 DEF ManagingZig, CurrentWorks
  <2>2. ZigChanges
    BY <1>2, <2>1 DEF ManagingZig, ZigChanges
  <2>3. QED BY <2>2 DEF Next
<1>3. CASE GeneratingCodePage \/ GeneratingInterface \/ ReadingBitmap
  BY <1>3 DEF GeneratingCodePage, GeneratingInterface, ReadingBitmap, Other
<1>4. CASE UNCHANGED workstationVars
  BY <1>4 DEF workstationVars
<1>5. QED BY <1>1, <1>2, <1>3, <1>4 DEF WorkstationNext

\* The scripts together do what the generator's own model allows: builds, with
\* a zig that comes and goes.
THEOREM WorkstationImplementsGenerator == WorkstationSpec => Spec
<1>1. WorkstationInit => Init
  BY DEF WorkstationInit, Init
<1>2. [WorkstationNext]_workstationVars => [Next]_vars
  BY StepsAreGeneratorSteps
<1>3. QED BY <1>1, <1>2, PTL DEF WorkstationSpec, Spec

\* So errors arrive whichever versions of zig are downloaded, used or half
\* extracted between and during the builds.
THEOREM ErrorsArriveWithAnyZig == WorkstationSpec => []ErrorsArrive
BY WorkstationImplementsGenerator, ErrorsAlwaysArrive

\* And when the generator has nothing to do, the interface is what it would write, unless
\* its last write did not finish, or libs changed since zig was asked, or the implementation
\* since it was read without being newer.
THEOREM SkippedIsUpToDateWithAnyZig == WorkstationSpec => []SkipMeansUpToDate
BY WorkstationImplementsGenerator, SkippedIsUpToDate

-----------------------------------------------------------------------------
\* What zig.py update leaves behind, for any set of versions and whatever the
\* commands before it came to.
Steps == {"open", "fetch", "extract", "unlink", "use", "write", "done", "failed"}

ZigTypeOK ==
  /\ readme \in Version \cup {NULL} /\ master \in Version
  /\ zigs \in [Version -> {"absent", "nothing", "binary", "whole"}]
  /\ cmd \in [name : {"none", "update", "download", "use"}, zig : Version \cup {NULL}, step : Steps]
  /\ Zig!Running => cmd.zig \in Version

\* What only looks whole is known to be broken.
BrokenAreKnown == \A v \in Version : zigs[v] = "binary" => v \in broken

\* Only a version that exists is written into README.md, and an update has a
\* line there to put the latest in.
UsesWhatExists ==
  /\ cmd.step = "write" => Zig!Exists(cmd.zig)
  /\ cmd.name = "update" /\ cmd.step # "failed" =>
       /\ cmd.zig = master
       /\ cmd.step \notin {"write", "done"} => readme # NULL
       /\ cmd.step = "done" => readme = master /\ Zig!Exists(master)

ZigInv == ZigTypeOK /\ BrokenAreKnown /\ UsesWhatExists

-----------------------------------------------------------------------------
\* A command starts.
LEMMA CommandsStart ==
  ASSUME ZigInv, Zig!Update \/ Zig!Download \/ \E v \in Version : Zig!UseVersion(v) PROVE ZigInv'
<1>1. UNCHANGED <<readme, zigs, broken, master>>
  BY DEF Zig!Update, Zig!Download, Zig!UseVersion, Zig!dirVars
<1>2. CASE Zig!Update
  <2>1. /\ cmd'.name = "update" /\ cmd'.zig = master
        /\ cmd' \in [name : {"none", "update", "download", "use"}, zig : Version \cup {NULL},
                     step : Steps]
        /\ \/ cmd'.step = "failed"
           \/ readme # NULL /\ cmd'.step \in {"open", "use"}
           \/ readme = master /\ readme # NULL /\ cmd'.step = "done" /\ Zig!Exists(master)
    BY <1>2 DEF Zig!Update, Zig!Run, ZigInv, ZigTypeOK, Steps
  <2>2. QED
    BY <1>1, <2>1 DEF ZigInv, ZigTypeOK, BrokenAreKnown, UsesWhatExists, Zig!Running, Zig!Exists
<1>3. CASE Zig!Download
  <2>1. /\ cmd'.name = "download" /\ cmd'.step # "write"
        /\ cmd' \in [name : {"none", "update", "download", "use"}, zig : Version \cup {NULL},
                     step : Steps]
        /\ cmd'.step \notin {"done", "failed"} => cmd'.zig \in Version
    BY <1>3 DEF Zig!Download, Zig!Run, ZigInv, ZigTypeOK, Steps
  <2>2. QED
    BY <1>1, <2>1 DEF ZigInv, ZigTypeOK, BrokenAreKnown, UsesWhatExists, Zig!Running, Zig!Exists
<1>4. ASSUME NEW v \in Version, Zig!UseVersion(v) PROVE ZigInv'
  <2>1. cmd' = [name |-> "use", zig |-> v, step |-> "use"]
    BY <1>4 DEF Zig!UseVersion, Zig!Run
  <2>2. QED
    BY <1>1, <2>1 DEF ZigInv, ZigTypeOK, BrokenAreKnown, UsesWhatExists,
                       Zig!Running, Zig!Exists, Steps
<1>5. QED BY <1>2, <1>3, <1>4

\* A command goes on to a step that is neither the writing of README.md nor the
\* end of an update.
LEMMA CommandsGoOn ==
  ASSUME ZigInv, NEW next \in Steps, Zig!GoOn(next), Zig!Running,
         next # "write", cmd.step # "write" \/ next = "failed",
         cmd.name = "update" => next # "done",
         zigs' \in [Version -> {"absent", "nothing", "binary", "whole"}], BrokenAreKnown',
         UNCHANGED <<readme, master>>
  PROVE  ZigInv'
<1>1. cmd' = [cmd EXCEPT !.step = next]
  BY DEF Zig!GoOn
<1>2. ZigTypeOK'
  BY <1>1 DEF ZigInv, ZigTypeOK, Zig!Running
<1>3. UsesWhatExists'
  BY <1>1 DEF ZigInv, ZigTypeOK, UsesWhatExists, Zig!Running
<1>4. QED BY <1>2, <1>3 DEF ZigInv

LEMMA DownloadsGoOn ==
  ASSUME ZigInv,
         \/ Zig!Fail \/ Zig!OpenArchive \/ Zig!Fetch \/ Zig!Extract
         \/ Zig!ExtractPart \/ Zig!Unlink \/ Zig!Kill
  PROVE  ZigInv'
<1>1. CASE Zig!Fail \/ Zig!Kill
  <2>1. Zig!GoOn("failed") /\ Zig!Running /\ BrokenAreKnown' /\ UNCHANGED <<readme, zigs, master>>
    BY <1>1 DEF Zig!Fail, Zig!Kill, Zig!dirVars, ZigInv, BrokenAreKnown
  <2>2. QED BY <2>1, CommandsGoOn DEF Steps, ZigInv, ZigTypeOK
<1>2. CASE Zig!OpenArchive \/ Zig!Fetch
  <2>1. /\ BrokenAreKnown' /\ UNCHANGED <<readme, zigs, master>> /\ Zig!Running
        /\ \E next \in {"fetch", "extract"} : Zig!GoOn(next)
        /\ cmd.step # "write"
    BY <1>2 DEF Zig!OpenArchive, Zig!Fetch, Zig!Running, ZigInv, BrokenAreKnown
  <2>2. QED BY <2>1, CommandsGoOn DEF Steps, ZigInv, ZigTypeOK
<1>3. CASE Zig!Extract
  <2>1. Zig!GoOn("unlink") /\ Zig!Running /\ cmd.step # "write" /\ UNCHANGED <<readme, master>>
    BY <1>3 DEF Zig!Extract, Zig!Running
  <2>2. zigs' \in [Version -> {"absent", "nothing", "binary", "whole"}] /\ BrokenAreKnown'
    BY <1>3 DEF Zig!Extract, ZigInv, ZigTypeOK, BrokenAreKnown
  <2>3. QED BY <2>1, <2>2, CommandsGoOn DEF Steps
<1>4. CASE Zig!ExtractPart
  <2>1. Zig!GoOn("failed") /\ Zig!Running /\ UNCHANGED <<readme, master>>
    BY <1>4 DEF Zig!ExtractPart, Zig!Running
  <2>2. zigs' \in [Version -> {"absent", "nothing", "binary", "whole"}] /\ BrokenAreKnown'
    BY <1>4 DEF Zig!ExtractPart, ZigInv, ZigTypeOK, BrokenAreKnown
  <2>3. QED BY <2>1, <2>2, CommandsGoOn DEF Steps
<1>5. CASE Zig!Unlink
  <2>1. /\ BrokenAreKnown' /\ UNCHANGED <<readme, zigs, master>> /\ Zig!Running
        /\ Zig!GoOn(Zig!AfterDownload(cmd.name)) /\ cmd.step # "write"
    BY <1>5 DEF Zig!Unlink, Zig!Running, ZigInv, BrokenAreKnown
  <2>2. /\ Zig!AfterDownload(cmd.name) \in {"use", "done"}
        /\ cmd.name = "update" => Zig!AfterDownload(cmd.name) # "done"
    BY DEF Zig!AfterDownload
  <2>3. QED BY <2>1, <2>2, CommandsGoOn DEF Steps, ZigInv, ZigTypeOK
<1>6. QED BY <1>1, <1>2, <1>3, <1>4, <1>5

LEMMA UsesGoOn == ASSUME ZigInv, Zig!Use \/ Zig!WriteReadme PROVE ZigInv'
<1>1. CASE Zig!Use
  <2>1. UNCHANGED <<zigs, broken, master>> /\ Zig!Running
    BY <1>1 DEF Zig!Use, Zig!dirVars, Zig!Running
  <2>2. CASE ~Zig!Exists(cmd.zig)
    BY <1>1, <2>1, <2>2, CommandsGoOn DEF Zig!Use, Steps, ZigInv, ZigTypeOK, BrokenAreKnown
  <2>3. CASE Zig!Exists(cmd.zig) /\ readme = NULL
    <3>1. cmd.name # "update"
      BY <1>1, <2>3 DEF Zig!Use, ZigInv, UsesWhatExists
    <3>2. QED
      BY <1>1, <2>1, <2>3, <3>1, CommandsGoOn DEF Zig!Use, Steps, ZigInv, ZigTypeOK, BrokenAreKnown
  <2>4. CASE Zig!Exists(cmd.zig) /\ readme # NULL
    <3>1. cmd' = [cmd EXCEPT !.step = "write"] /\ readme' = NULL
      BY <1>1, <2>4 DEF Zig!Use, Zig!GoOn
    <3>2. ZigTypeOK' /\ BrokenAreKnown'
      BY <2>1, <3>1 DEF ZigInv, ZigTypeOK, BrokenAreKnown, Zig!Running, Steps
    <3>3. UsesWhatExists'
      BY <1>1, <2>1, <2>4, <3>1 DEF Zig!Use, ZigInv, ZigTypeOK, UsesWhatExists, Zig!Exists
    <3>4. QED BY <3>2, <3>3 DEF ZigInv
  <2>5. QED BY <2>2, <2>3, <2>4
<1>2. CASE Zig!WriteReadme
  <2>1. /\ cmd.step = "write" /\ cmd' = [cmd EXCEPT !.step = "done"] /\ readme' = cmd.zig
        /\ UNCHANGED <<zigs, broken, master>>
    BY <1>2 DEF Zig!WriteReadme, Zig!GoOn, Zig!dirVars
  <2>2. ZigTypeOK' /\ BrokenAreKnown'
    BY <2>1 DEF ZigInv, ZigTypeOK, BrokenAreKnown, Zig!Running, Steps
  <2>3. Zig!Exists(cmd.zig) /\ (cmd.name = "update" => cmd.zig = master)
    BY <2>1 DEF ZigInv, UsesWhatExists
  <2>4. cmd'.name = cmd.name /\ cmd'.zig = cmd.zig /\ cmd'.step = "done"
    BY <2>1 DEF ZigInv, ZigTypeOK
  <2>5. CASE cmd.name = "update"
    <3>1. UsesWhatExists'
      <4>1. readme' = master' /\ Zig!Exists(master)'
        BY <2>1, <2>3, <2>5 DEF Zig!Exists
      <4>2. cmd'.zig = master'
        BY <2>1, <2>3, <2>4, <2>5
      <4>3. QED BY <2>4, <4>1, <4>2 DEF UsesWhatExists
    <3>2. QED BY <2>2, <3>1 DEF ZigInv
  <2>6. CASE cmd.name # "update"
    BY <2>2, <2>4, <2>6 DEF ZigInv, UsesWhatExists
  <2>7. QED BY <2>5, <2>6
<1>3. QED BY <1>1, <1>2

LEMMA AroundKeepsZigs == ASSUME ZigInv, Zig!Around PROVE ZigInv'
<1>1. cmd' = [name |-> "none", zig |-> NULL, step |-> "done"]
  BY DEF Zig!Around
<1>2. UsesWhatExists'
  BY <1>1 DEF UsesWhatExists
<1>3. ZigTypeOK' /\ BrokenAreKnown'
  <2>1. CASE master' \in Version \ {master} /\ UNCHANGED <<readme, Zig!dirVars>>
    BY <1>1, <2>1 DEF ZigInv, ZigTypeOK, BrokenAreKnown, Zig!Running, Steps, Zig!dirVars
  <2>2. CASE readme' = Committed /\ UNCHANGED <<Zig!dirVars, master>>
    BY <1>1, <2>2, ZigAssumption
    DEF ZigInv, ZigTypeOK, BrokenAreKnown, Zig!Running, Steps, Zig!dirVars
  <2>3. ASSUME NEW v \in Version, zigs' = [zigs EXCEPT ![v] = "absent"],
               broken' = broken \ {v}, UNCHANGED <<readme, archives, master>>
        PROVE  ZigTypeOK' /\ BrokenAreKnown'
    BY <1>1, <2>3 DEF ZigInv, ZigTypeOK, BrokenAreKnown, Zig!Running, Steps
  <2>4. QED BY <2>1, <2>2, <2>3 DEF Zig!Around
<1>4. QED BY <1>2, <1>3 DEF ZigInv

LEMMA ZigStarts == ASSUME Zig!Init PROVE ZigInv
BY ZigAssumption
DEF Zig!Init, Zig!Prepared, ZigInv, ZigTypeOK, BrokenAreKnown, UsesWhatExists, Zig!Running, Steps

LEMMA StepsKeepZigs == ASSUME ZigInv, [Zig!Next]_(Zig!zigVars) PROVE ZigInv'
<1>1. CASE Zig!ZigNext
  BY <1>1, CommandsStart, DownloadsGoOn, UsesGoOn DEF Zig!ZigNext
<1>2. CASE Zig!Around
  BY <1>2, AroundKeepsZigs
<1>3. CASE UNCHANGED Zig!zigVars
  BY <1>3
  DEF Zig!zigVars, Zig!dirVars, ZigInv, ZigTypeOK, BrokenAreKnown, UsesWhatExists,
      Zig!Running, Zig!Exists
<1>4. QED BY <1>1, <1>2, <1>3 DEF Zig!Next

\* Whatever was downloaded, removed, killed half way or left without a line in
\* README.md before: update ends, if it does not fail, with the latest version
\* in README.md and wholly there, or there as far as an extraction once got.
THEOREM UpdateAlwaysEndsAtLatest == Zig!Spec => []Zig!UpdateEndsAtLatest
<1>1. Zig!Init => ZigInv
  BY ZigStarts
<1>2. ZigInv /\ [Zig!Next]_(Zig!zigVars) => ZigInv'
  BY StepsKeepZigs
<1>3. ZigInv => Zig!UpdateEndsAtLatest
  BY DEF ZigInv, ZigTypeOK, BrokenAreKnown, UsesWhatExists, Zig!UpdateEndsAtLatest, Zig!Exists
<1>4. QED BY <1>1, <1>2, <1>3, PTL DEF Zig!Spec

-----------------------------------------------------------------------------
\* And a step of any script is a step of zig.py and of what is around it, or
\* nothing to it.
LEMMA StepsAreZigSteps ==
  ASSUME [WorkstationNext]_workstationVars PROVE [Zig!Next]_(Zig!zigVars)
<1>1. CASE Building
  BY <1>1 DEF Building, zigVars, Zig!zigVars, Zig!dirVars
<1>2. CASE ManagingZig
  BY <1>2 DEF ManagingZig
<1>3. CASE GeneratingCodePage \/ GeneratingInterface \/ ReadingBitmap
  BY <1>3 DEF GeneratingCodePage, GeneratingInterface, ReadingBitmap, Other, zigVars,
              Zig!zigVars, Zig!dirVars
<1>4. CASE UNCHANGED workstationVars
  BY <1>4 DEF workstationVars, zigVars, Zig!zigVars, Zig!dirVars
<1>5. QED BY <1>1, <1>2, <1>3, <1>4 DEF WorkstationNext

\* The commands of zig.py alone keep to this as well, whatever else runs in
\* between.
THEOREM UpdateEndsAtLatestZig == WorkstationSpec => []UpdateEndsAtLatest
<1>1. WorkstationInit => Zig!Init
  BY DEF WorkstationInit, Zig!Init, Zig!Prepared
<1>2. WorkstationSpec => Zig!Spec
  BY <1>1, StepsAreZigSteps, PTL DEF WorkstationSpec, Zig!Spec
<1>3. Zig!UpdateEndsAtLatest => UpdateEndsAtLatest
  BY DEF UpdateEndsAtLatest
<1>4. QED BY <1>2, <1>3, UpdateAlwaysEndsAtLatest, PTL

-----------------------------------------------------------------------------
(* The code page generator *)

\* Dividing with what is left over, and back.
LEMMA Division ==
  ASSUME NEW w \in Nat \ {0}, NEW p \in Nat
  PROVE  p \div w \in Nat /\ p % w \in 0..(w - 1) /\ p = (p \div w) * w + (p % w)
BY Z3

LEMMA Quotient ==
  ASSUME NEW w \in Nat \ {0}, NEW row \in Nat, NEW col \in 0..(w - 1)
  PROVE  (row * w + col) \div w = row /\ (row * w + col) % w = col
<1>1. row * w \in Nat BY Z3
<1>2. QED BY <1>1, Z3

\* Any natural numbers have a least one.
LEMMA LeastOne ==
  ASSUME NEW S \in SUBSET Nat, S # {}
  PROVE  \E m \in S : \A k \in S : m <= k
<1> DEFINE Below == {p \in Nat \X Nat : p[1] < p[2]}
<1>1. IsWellFoundedOn(Below, Nat)
  BY NatLessThanWellFounded, Zenon DEF OpToRel
<1>2. \E m \in S : \A k \in S : <<k, m>> \notin Below
  <2> HIDE DEF Below
  <2>1. QED BY <1>1, WFMin
<1>3. \A m, k \in Nat : <<k, m>> \in Below \/ m <= k
  OBVIOUS
<1>4. QED BY <1>2, <1>3

\* Those that are bounded have a greatest one.
LEMMA GreatestOne ==
  ASSUME NEW n \in Nat, NEW S \in SUBSET (0..n), S # {}
  PROVE  \E m \in S : \A k \in S : k <= m
<1> DEFINE T == {n - k : k \in S}
<1>1. T \in SUBSET Nat /\ T # {}
  <2>1. \A k \in S : n - k \in Nat
    OBVIOUS
  <2>2. QED BY <2>1
<1>2. PICK t \in T : \A k \in T : t <= k
  BY <1>1, LeastOne
<1>3. QED BY <1>2

\* What holds of the first number, and with a number of the next one up to n.
LEMMA UpToAll ==
  ASSUME NEW n \in Nat, NEW S, 0 \in S, \A i \in 0..(n - 1) : i \in S => i + 1 \in S
  PROVE  0..n \subseteq S
<1> DEFINE Missing == {i \in 0..n : i \notin S}
<1> SUFFICES ASSUME Missing # {} PROVE FALSE
  OBVIOUS
<1>1. Missing \in SUBSET Nat
  OBVIOUS
<1>2. PICK m \in Missing : \A k \in Missing : m <= k
  <2> HIDE DEF Missing
  <2>1. QED BY <1>1, LeastOne
<1>3. m \in 1..n
  BY <1>2
<1>4. m - 1 \in 0..(n - 1) /\ m - 1 \notin Missing /\ (m - 1) + 1 = m
  BY <1>2, <1>3
<1>5. QED BY <1>2, <1>3, <1>4

Made(f, n, V, first, turn) ==
  /\ f \in [0..n -> V]
  /\ f[0] = first
  /\ \A i \in 1..n : f[i] = turn[i][f[i - 1]]

\* A function is there for any first value and steps from each value to the next.
LEMMA StepByStep ==
  ASSUME NEW n \in Nat, NEW V, NEW first \in V, NEW turn \in [1..n -> [V -> V]]
  PROVE  \E f : Made(f, n, V, first, turn)
<1> DEFINE S == {m \in 0..n : \E f : Made(f, m, V, first, turn)}
<1>1. 0 \in S
  <2> DEFINE f == [i \in 0..0 |-> first]
  <2>1. Made(f, 0, V, first, turn)
    BY DEF Made
  <2> HIDE DEF f
  <2>2. QED BY <2>1
<1>2. ASSUME NEW m \in 0..(n - 1), m \in S PROVE m + 1 \in S
  <2>1. PICK f : Made(f, m, V, first, turn)
    BY <1>2
  <2> DEFINE g == [i \in 0..(m + 1) |-> IF i <= m THEN f[i] ELSE turn[m + 1][f[m]]]
  <2>2. m + 1 \in 1..n /\ f[m] \in V
    BY <2>1 DEF Made
  <2>3. g \in [0..(m + 1) -> V]
    BY <2>1, <2>2 DEF Made
  <2>4. ASSUME NEW i \in 1..(m + 1) PROVE g[i] = turn[i][g[i - 1]]
    <3>1. CASE i = m + 1
      BY <3>1
    <3>2. CASE i # m + 1
      <4>1. i \in 1..m /\ g[i] = f[i] /\ g[i - 1] = f[i - 1]
        BY <3>2
      <4>2. QED BY <2>1, <4>1 DEF Made
    <3>3. QED BY <3>1, <3>2
  <2>5. Made(g, m + 1, V, first, turn)
    <3>1. g[0] = first
      BY <2>1 DEF Made
    <3> HIDE DEF g
    <3>2. QED BY <2>3, <2>4, <3>1 DEF Made
  <2>6. m + 1 \in 0..n
    BY <2>2
  <2> HIDE DEF g
  <2>7. QED BY <2>5, <2>6
<1>3. n \in S
  <2> HIDE DEF S
  <2>1. 0..n \subseteq S
    BY <1>1, <1>2, UpToAll
  <2>2. QED BY <2>1
<1>4. QED BY <1>3

\* Two functions that go on from the same value in the same way are the same.
LEMMA SameSteps ==
  ASSUME NEW n \in Nat, NEW f, NEW g, f[0] = g[0],
         \A i \in 1..n : f[i - 1] = g[i - 1] => f[i] = g[i]
  PROVE  \A i \in 0..n : f[i] = g[i]
<1> DEFINE T == {i \in 0..n : f[i] = g[i]}
<1>1. 0 \in T
  OBVIOUS
<1>2. ASSUME NEW i \in 0..(n - 1), i \in T PROVE i + 1 \in T
  <2>1. i + 1 \in 1..n /\ (i + 1) - 1 = i
    OBVIOUS
  <2>2. QED BY <1>2, <2>1
<1>3. 0..n \subseteq T
  <2> HIDE DEF T
  <2>1. QED BY <1>1, <1>2, UpToAll
<1>4. QED BY <1>3

\* What the CHOOSE of Max and Min finds.
LEMMA MaxIsGreatest ==
  ASSUME NEW n \in Nat, NEW S \in SUBSET (0..n), S # {}
  PROVE  /\ CodePage!Max(S) \in S /\ \A k \in S : k <= CodePage!Max(S)
         /\ CodePage!Min(S) \in S /\ \A k \in S : CodePage!Min(S) <= k
<1>1. \E m \in S : \A k \in S : m >= k
  BY GreatestOne
<1>2. \E m \in S : \A k \in S : m <= k
  BY LeastOne
<1>3. CodePage!Max(S) \in S /\ \A k \in S : CodePage!Max(S) >= k
  BY <1>1 DEF CodePage!Max
<1>4. CodePage!Min(S) \in S /\ \A k \in S : CodePage!Min(S) <= k
  BY <1>2 DEF CodePage!Min
<1>5. QED BY <1>3, <1>4

\* The generator's Cardinality is that of the theorems about finite sets.
LEMMA CardinalityIsSame == \A S : CodePage!Cardinality(S) = Cardinality(S)
BY DEF CodePage!Cardinality, Cardinality

\* The rank of a number among others: how many of them are smaller.
Rank(S, c) == Cardinality({d \in S : d < c})

\* The ranks of the numbers of a set are 0 and what follows, as many as they are.
LEMMA RanksAreThere ==
  ASSUME NEW n \in Nat, NEW S \in SUBSET (0..n)
  PROVE  /\ Cardinality(S) \in Nat
         /\ \A c \in S : Rank(S, c) \in 0..(Cardinality(S) - 1)
         /\ \A c, d \in S : Rank(S, c) = Rank(S, d) => c = d
         /\ \A i \in 0..(Cardinality(S) - 1) : \E c \in S : Rank(S, c) = i
<1>1. IsFiniteSet(S) /\ Cardinality(S) \in Nat
  BY FS_BoundedSetOfNaturals, FS_CardinalityType
<1>2. ASSUME NEW c \in S
      PROVE  Rank(S, c) \in 0..(Cardinality(S) - 1)
  <2> DEFINE L == {d \in S : d < c}
  <2>1. L \in SUBSET S /\ c \notin L /\ IsFiniteSet(L)
    BY <1>1, FS_Subset
  <2>2. Cardinality(L) \in Nat /\ Cardinality(L) <= Cardinality(S) /\ Cardinality(L) # Cardinality(S)
    BY <1>1, <2>1, FS_Subset, FS_CardinalityType
  <2>3. QED BY <1>1, <2>2 DEF Rank
<1>3. ASSUME NEW c \in S, NEW d \in S, c < d
      PROVE  Rank(S, c) # Rank(S, d)
  <2> DEFINE L == {e \in S : e < c}
             M == {e \in S : e < d}
  <2>1. L \in SUBSET M /\ c \in M /\ c \notin L /\ M \in SUBSET S
    <3>1. \A e \in S : e \in Nat
      OBVIOUS
    <3>2. \A e \in S : e < c => e < d
      BY <1>3, <3>1
    <3>3. ~(c < c)
      BY <3>1
    <3>4. QED BY <1>3, <3>2, <3>3
  <2>2. IsFiniteSet(M)
    BY <1>1, <2>1, FS_Subset
  <2>3. Cardinality(L) # Cardinality(M)
    BY <2>1, <2>2, FS_Subset
  <2>4. QED BY <2>3 DEF Rank
<1>4. \A c, d \in S : Rank(S, c) = Rank(S, d) => c = d
  <2>1. \A c, d \in S : c < d \/ d < c \/ c = d
    OBVIOUS
  <2>2. QED BY <1>3, <2>1
<1>5. ASSUME NEW i \in 0..(Cardinality(S) - 1)
      PROVE  \E c \in S : Rank(S, c) = i
  <2> DEFINE T == 0..(Cardinality(S) - 1)
             f == [c \in S |-> Rank(S, c)]
  <2>1. IsFiniteSet(T) /\ Cardinality(T) = Cardinality(S)
    BY <1>1, FS_Interval
  <2>2. f \in [S -> T]
    BY <1>2
  <2>3. f \in Injection(S, T)
    BY <1>4, <2>2 DEF Injection, IsInjective
  <2>4. f \in Surjection(S, T)
    BY <2>1, <2>3, FS_Injection
  <2>5. QED BY <2>4 DEF Surjection
<1>6. QED BY <1>1, <1>2, <1>4, <1>5
\* A list that the script may hold, each code point once.
KeysAreFit == keys \in KeyTables /\ CodePage!Usable

\* The character of a code point is its one place in the list.
LEMMA CharactersAreUnique ==
  ASSUME KeysAreFit
  PROVE  /\ \E n \in Nat : CodePage!code_points \subseteq 0..n
         /\ \A c \in CodePage!code_points :
              /\ CodePage!value(c) \in Nat
              /\ {i \in DOMAIN keys : keys[i] = c} = {CodePage!value(c) + 1}
         /\ \A c \in Nat \ CodePage!code_points : {i \in DOMAIN keys : keys[i] = c} = {}
<1> DEFINE n == 2^16 - 1
<1>0. n \in Nat
  OBVIOUS
<1>1. keys \in Seq((0..n) \cup {NULL}) /\ NULL \notin Nat
  BY CodePageAssumption DEF KeysAreFit
<1> HIDE DEF n
<1>2. /\ DOMAIN keys = 1..Len(keys) /\ Len(keys) \in Nat
      /\ \A i \in DOMAIN keys : keys[i] \in (0..n) \cup {NULL}
  BY <1>1
<1>3. CodePage!code_points \subseteq 0..n
  BY <1>2 DEF CodePage!code_points
<1>4. \A i, k \in DOMAIN keys : keys[i] = keys[k] => i = k \/ keys[i] = NULL
  BY DEF KeysAreFit, CodePage!Usable
<1>5. ASSUME NEW c \in CodePage!code_points
      PROVE  /\ CodePage!value(c) \in Nat
             /\ {i \in DOMAIN keys : keys[i] = c} = {CodePage!value(c) + 1}
  <2>1. PICK i \in DOMAIN keys : keys[i] = c
    BY DEF CodePage!code_points
  <2>2. c # NULL
    BY DEF CodePage!code_points
  <2>3. \A k \in DOMAIN keys : keys[k] = c => k = i
    BY <1>4, <2>1, <2>2
  <2>4. (CHOOSE k \in DOMAIN keys : keys[k] = c) = i
    BY <2>1, <2>3
  <2>5. CodePage!value(c) = i - 1
    BY <2>4 DEF CodePage!value
  <2>6. i \in 1..Len(keys)
    BY <1>2, <2>1
  <2>7. CodePage!value(c) \in Nat /\ CodePage!value(c) + 1 = i
    BY <1>2, <2>5, <2>6
  <2>8. QED BY <2>1, <2>3, <2>7
<1>6. \A c \in Nat \ CodePage!code_points : {i \in DOMAIN keys : keys[i] = c} = {}
  BY <1>1 DEF CodePage!code_points
<1>7. QED BY <1>0, <1>3, <1>5, <1>6

\* The ranges are the code points, each without a gap.
LEMMA RangesCover ==
  ASSUME NEW n \in Nat, CodePage!code_points \subseteq 0..n
  PROVE  /\ \A r \in CodePage!ranges :
              /\ r \in SUBSET CodePage!code_points /\ r \in SUBSET (0..n) /\ r # {}
              /\ \A c \in Nat : CodePage!Min(r) <= c /\ c <= CodePage!Max(r) => c \in r
         /\ \A c \in CodePage!code_points : \E r \in CodePage!ranges : c \in r
<1> DEFINE points == CodePage!code_points
<1>1. \A c \in points : c \in Nat /\ c \in 0..n
  OBVIOUS
<1>2. ASSUME NEW r \in CodePage!ranges
      PROVE  /\ r \in SUBSET points /\ r \in SUBSET (0..n) /\ r # {}
             /\ \A c \in Nat : CodePage!Min(r) <= c /\ c <= CodePage!Max(r) => c \in r
  <2>1. PICK p \in points \X points :
          p[1] <= p[2] /\ p[1]..p[2] \subseteq points /\ r = p[1]..p[2]
    BY DEF CodePage!ranges
  <2>2. p[1] \in Nat /\ p[2] \in Nat
    BY <1>1, <2>1
  <2>3. r \in SUBSET points /\ r \in SUBSET (0..n) /\ r # {}
    BY <2>1, <2>2
  <2>4. CodePage!Min(r) \in r /\ CodePage!Max(r) \in r
    BY <2>3, MaxIsGreatest
  <2>5. QED BY <2>1, <2>2, <2>3, <2>4
<1>3. ASSUME NEW c \in points
      PROVE  \E r \in CodePage!ranges : c \in r
  <2> DEFINE L == {a \in 0..c : a..c \subseteq points}
             U == {b \in c..n : c..b \subseteq points}
  <2>1. c \in Nat /\ c \in 0..n /\ c..c = {c}
    BY <1>1
  <2>2. c \in L /\ c \in U /\ L \in SUBSET Nat /\ U \in SUBSET (0..n)
    BY <2>1
  <2>3. PICK a \in L : \A k \in L : a <= k
    BY <2>2, LeastOne
  <2>4. PICK b \in U : \A k \in U : k <= b
    BY <2>2, GreatestOne
  <2>5. a \in Nat /\ b \in Nat /\ a <= c /\ c <= b /\ a..c \subseteq points /\ c..b \subseteq points
    BY <2>1, <2>3, <2>4
  <2>6. a - 1 \notin points
    <3>1. ASSUME a - 1 \in points PROVE FALSE
      <4>1. a - 1 \in 0..c /\ (a - 1)..c \subseteq points
        <5>1. \A x \in (a - 1)..c : x = a - 1 \/ x \in a..c
          BY <2>1, <2>5
        <5>2. a - 1 \in Nat
          BY <1>1, <3>1
        <5>3. QED BY <2>1, <2>5, <3>1, <5>1, <5>2
      <4>2. a <= a - 1
        BY <2>3, <4>1
      <4>3. QED BY <2>5, <4>2
    <3>2. QED BY <3>1
  <2>7. b + 1 \notin points
    <3>1. ASSUME b + 1 \in points PROVE FALSE
      <4>1. b + 1 \in c..n /\ c..(b + 1) \subseteq points
        <5>1. \A x \in c..(b + 1) : x = b + 1 \/ x \in c..b
          BY <2>1, <2>5
        <5>2. b + 1 \in 0..n
          BY <1>1, <3>1
        <5>3. QED BY <2>1, <2>5, <3>1, <5>1, <5>2
      <4>2. b + 1 <= b
        BY <2>4, <4>1
      <4>3. QED BY <2>5, <4>2
    <3>2. QED BY <3>1
  <2>8. a \in points /\ b \in points /\ a..b \subseteq points /\ a <= b /\ c \in a..b
    <3>1. \A x \in a..b : x \in a..c \/ x \in c..b
      BY <2>1, <2>5
    <3>2. a \in a..c /\ b \in c..b /\ a <= b /\ c \in a..b
      BY <2>1, <2>5
    <3>3. QED BY <2>5, <3>1, <3>2
  <2> HIDE DEF L, U
  <2> DEFINE p == <<a, b>>
  <2>9. p \in {q \in points \X points :
                 /\ q[1] <= q[2] /\ q[1]..q[2] \subseteq points
                 /\ {q[1] - 1, q[2] + 1} \cap points = {}}
    BY <2>6, <2>7, <2>8
  <2>10. p[1]..p[2] \in CodePage!ranges
    <3> HIDE DEF p
    <3>1. QED BY <2>9 DEF CodePage!ranges
  <2>11. QED BY <2>8, <2>10
<1>4. QED BY <1>2, <1>3
\* What is hashed, and where it goes.
Hashed == UNION {r \in CodePage!ranges : ~CodePage!IsContiguous(r)}
Bucket(h) == {c \in Hashed : c % Cardinality(Hashed) = h}
Placed(h, i) == {c \in Bucket(h) : Rank(Bucket(h), c) = i}

Hashes == 0..(Cardinality(Hashed) - 1)
LongestBucket == CodePage!Max({Cardinality(Bucket(h)) : h \in Hashes})
LastHash == CodePage!Max({h \in Hashes : Bucket(h) # {}})

Entry(place) ==
  IF place = {} THEN NULL
  ELSE [key |-> CodePage!Min(place), value |-> CodePage!value(CodePage!Min(place))]

\* The tables with their buckets by name.
LEMMA TablesAreBuckets ==
  /\ CodePage!Generated.bucket_count = Cardinality(Hashed)
  /\ CodePage!Generated.max_bucket_length = LongestBucket
  /\ CodePage!Generated.max_hash_used = LastHash
  /\ \A i \in 0..((LastHash + 1) * LongestBucket - 1) :
       i \div LongestBucket \in Hashes =>
         CodePage!Generated.hash_table[i] =
           Entry(Placed(i \div LongestBucket, i % LongestBucket))
  /\ CodePage!Generated.contiguous_ranges =
       {[first |-> CodePage!Min(r), last |-> CodePage!Max(r),
         offset |-> CodePage!offset(CodePage!Min(r))] :
          r \in {s \in CodePage!ranges : CodePage!IsContiguous(s)}}
<1> DEFINE count == CodePage!Cardinality(Hashed)
           buckets == [h \in 0..(count - 1) |-> {c \in Hashed : c % count = h}]
           longest == CodePage!Max({CodePage!Cardinality(buckets[h]) : h \in DOMAIN buckets})
           last == CodePage!Max({h \in DOMAIN buckets : buckets[h] # {}})
           Place(h, i) ==
             {c \in buckets[h] : CodePage!Cardinality({d \in buckets[h] : d < c}) = i}
           table == [i \in 0..((last + 1) * longest - 1) |->
                       IF Place(i \div longest, i % longest) = {} THEN NULL
                       ELSE [key |-> CodePage!Min(Place(i \div longest, i % longest)),
                             value |-> CodePage!value(CodePage!Min(Place(i \div longest, i % longest)))]]
           contiguous == {[first |-> CodePage!Min(r), last |-> CodePage!Max(r),
                           offset |-> CodePage!offset(CodePage!Min(r))] :
                            r \in {s \in CodePage!ranges : CodePage!IsContiguous(s)}}
<1>1. CodePage!Generated =
        [bucket_count |-> count, max_bucket_length |-> longest, max_hash_used |-> last,
         hash_table |-> table, contiguous_ranges |-> contiguous]
  BY Zenon DEF CodePage!Generated, Hashed
<1>2. count = Cardinality(Hashed)
  BY CardinalityIsSame
<1>3. DOMAIN buckets = Hashes /\ \A h \in Hashes : buckets[h] = Bucket(h)
  BY <1>2 DEF Hashes, Bucket
<1> HIDE DEF buckets, count
<1>4. longest = LongestBucket
  <2>1. {CodePage!Cardinality(buckets[h]) : h \in DOMAIN buckets}
          = {Cardinality(Bucket(h)) : h \in Hashes}
    BY <1>3, CardinalityIsSame
  <2>2. QED BY <2>1 DEF LongestBucket
<1>5. last = LastHash
  <2>1. {h \in DOMAIN buckets : buckets[h] # {}} = {h \in Hashes : Bucket(h) # {}}
    BY <1>3
  <2>2. QED BY <2>1 DEF LastHash
<1>6. \A h \in Hashes : \A i : Place(h, i) = Placed(h, i)
  BY <1>3, CardinalityIsSame DEF Placed, Rank
<1> HIDE DEF Place, longest, last
<1>7. ASSUME NEW i \in 0..((last + 1) * longest - 1), i \div longest \in Hashes
      PROVE  table[i] = Entry(Placed(i \div longest, i % longest))
  BY <1>6, <1>7 DEF Entry
<1> HIDE DEF table, contiguous
<1>8. /\ CodePage!Generated.bucket_count = count /\ CodePage!Generated.max_bucket_length = longest
      /\ CodePage!Generated.max_hash_used = last /\ CodePage!Generated.hash_table = table
      /\ CodePage!Generated.contiguous_ranges = contiguous
  BY <1>1
<1>9. QED BY <1>2, <1>4, <1>5, <1>7, <1>8 DEF contiguous
\* What is hashed has a bucket, and the table has room for it.
LEMMA HashTableFits ==
  ASSUME KeysAreFit
  PROVE  /\ Cardinality(Hashed) \in Nat \ {0}
         /\ Hashed \subseteq CodePage!code_points
         /\ LastHash \in Hashes /\ LongestBucket \in Nat
         /\ \A c \in Hashed :
              /\ c % Cardinality(Hashed) \in 0..LastHash
              /\ c \in Bucket(c % Cardinality(Hashed))
              /\ Cardinality(Bucket(c % Cardinality(Hashed))) <= LongestBucket
<1>1. PICK n \in Nat : CodePage!code_points \subseteq 0..n
  BY CharactersAreUnique
<1>2. Hashed \subseteq CodePage!code_points /\ Hashed \in SUBSET (0..n)
  BY <1>1, RangesCover DEF Hashed
<1>3. Hashed # {}
  <2>1. \E r \in CodePage!ranges : ~CodePage!IsContiguous(r)
    BY DEF KeysAreFit, CodePage!Usable
  <2>2. QED BY <1>1, <2>1, RangesCover DEF Hashed
<1>4. IsFiniteSet(Hashed) /\ Cardinality(Hashed) \in Nat \ {0}
  <2>1. IsFiniteSet(0..n)
    BY FS_Interval
  <2>2. IsFiniteSet(Hashed)
    BY <1>2, <2>1, FS_Subset
  <2>3. QED BY <1>3, <2>2, FS_CardinalityType, FS_EmptySet
<1>5. ASSUME NEW c \in Hashed
      PROVE  /\ c % Cardinality(Hashed) \in Hashes /\ c \in Bucket(c % Cardinality(Hashed))
  <2>1. c \in Nat
    BY <1>2
  <2>2. QED BY <1>4, <2>1, Division DEF Hashes, Bucket
<1>6. \A h \in Hashes : /\ Cardinality(Bucket(h)) \in Nat
                        /\ Cardinality(Bucket(h)) <= Cardinality(Hashed)
  <2>1. \A h \in Hashes : Bucket(h) \in SUBSET Hashed
    BY DEF Bucket
  <2>2. QED BY <1>4, <2>1, FS_Subset, FS_CardinalityType
<1>7. /\ LongestBucket \in Nat
      /\ \A h \in Hashes : Cardinality(Bucket(h)) <= LongestBucket
  <2> DEFINE S == {Cardinality(Bucket(h)) : h \in Hashes}
  <2>1. S \in SUBSET (0..Cardinality(Hashed)) /\ S # {}
    <3>1. 0 \in Hashes
      BY <1>4 DEF Hashes
    <3>2. QED BY <1>4, <1>6, <3>1
  <2>2. CodePage!Max(S) \in S /\ \A k \in S : k <= CodePage!Max(S)
    BY <1>4, <2>1, MaxIsGreatest
  <2>3. QED BY <1>6, <2>2 DEF LongestBucket
<1>8. /\ LastHash \in Hashes
      /\ \A c \in Hashed : c % Cardinality(Hashed) \in 0..LastHash
  <2> DEFINE S == {h \in Hashes : Bucket(h) # {}}
             last == Cardinality(Hashed) - 1
  <2>1. last \in Nat /\ S \in SUBSET (0..last) /\ S # {}
    BY <1>3, <1>4, <1>5 DEF Hashes
  <2>2. CodePage!Max(S) \in S /\ \A k \in S : k <= CodePage!Max(S)
    <3> HIDE DEF S, last
    <3>1. QED BY <2>1, MaxIsGreatest
  <2>3. \A c \in Hashed : c % Cardinality(Hashed) \in S
    BY <1>5
  <2>4. QED BY <1>4, <2>2, <2>3 DEF LastHash, Hashes
<1>9. QED BY <1>2, <1>4, <1>5, <1>7, <1>8

TablesAreMade == tables = CodePage!Generated

\* Where from_unicode() looks, in the bucket of h, has what was put there.
LEMMA BucketsAreRead ==
  ASSUME KeysAreFit, TablesAreMade, NEW h \in 0..LastHash, NEW i \in 1..LongestBucket
  PROVE  tables.hash_table[h * LongestBucket + i - 1] = Entry(Placed(h, i - 1))
<1>1. /\ LastHash \in Nat /\ LongestBucket \in Nat \ {0} /\ h \in Nat /\ h \in Hashes
      /\ i - 1 \in 0..(LongestBucket - 1)
  BY HashTableFits DEF Hashes
<1>2. /\ h * LongestBucket \in Nat
      /\ h * LongestBucket + LongestBucket <= (LastHash + 1) * LongestBucket
      /\ (LastHash + 1) * LongestBucket \in Nat
  <2>1. \A a, b, m \in Nat : a <= b => a * m + m <= (b + 1) * m /\ a * m \in Nat /\ (b + 1) * m \in Nat
    BY Z3
  <2>2. h <= LastHash
    BY <1>1
  <2>3. QED BY <1>1, <2>1, <2>2
<1> DEFINE at == h * LongestBucket + (i - 1)
<1>3. at \in 0..((LastHash + 1) * LongestBucket - 1) /\ at = h * LongestBucket + i - 1
  BY <1>1, <1>2
<1>4. at \div LongestBucket = h /\ at % LongestBucket = i - 1
  BY <1>1, Quotient
<1> HIDE DEF at
<1>5. CodePage!Generated.hash_table[at] = Entry(Placed(at \div LongestBucket, at % LongestBucket))
  BY <1>1, <1>3, <1>4, TablesAreBuckets
<1>6. QED BY <1>3, <1>4, <1>5 DEF TablesAreMade
\* A contiguous range has code points only, and its offset is that of each.
LEMMA RangesGiveCharacters ==
  ASSUME KeysAreFit, TablesAreMade, NEW c \in Nat,
         NEW r \in tables.contiguous_ranges, r.first <= c, c <= r.last
  PROVE  c \in CodePage!code_points /\ c - r.offset = CodePage!value(c)
<1>1. PICK n \in Nat : CodePage!code_points \subseteq 0..n
  BY CharactersAreUnique
<1>2. PICK s \in CodePage!ranges :
        /\ CodePage!IsContiguous(s)
        /\ r.first = CodePage!Min(s) /\ r.last = CodePage!Max(s)
        /\ r.offset = CodePage!offset(CodePage!Min(s))
  <2>1. tables.contiguous_ranges =
          {[first |-> CodePage!Min(s), last |-> CodePage!Max(s),
            offset |-> CodePage!offset(CodePage!Min(s))] :
             s \in {s \in CodePage!ranges : CodePage!IsContiguous(s)}}
    BY TablesAreBuckets DEF TablesAreMade
  <2>2. QED BY <2>1
<1>3. s \in SUBSET CodePage!code_points /\ s \in SUBSET (0..n) /\ s # {} /\ c \in s
  BY <1>1, <1>2, RangesCover
<1>4. CodePage!Min(s) \in s
  BY <1>3, MaxIsGreatest
<1>5. CodePage!offset(c) = CodePage!offset(CodePage!Min(s))
  BY <1>2, <1>3, <1>4 DEF CodePage!IsContiguous
<1>6. c - CodePage!offset(c) = CodePage!value(c)
  <2>1. CodePage!value(c) \in Nat
    BY <1>3, CharactersAreUnique
  <2>2. QED BY <2>1 DEF CodePage!offset
<1>7. QED BY <1>2, <1>3, <1>5, <1>6

\* What is found at a place of a bucket is the code point that has that rank in it.
LEMMA EntriesAreRanked ==
  ASSUME KeysAreFit, NEW h \in Hashes, NEW i \in Nat
  PROVE  /\ Entry(Placed(h, i)) = NULL <=> Placed(h, i) = {}
         /\ Entry(Placed(h, i)) # NULL =>
              Entry(Placed(h, i)).key \in Bucket(h) /\ Rank(Bucket(h), Entry(Placed(h, i)).key) = i
         /\ i < Cardinality(Bucket(h)) => Placed(h, i) # {}
         /\ \A c \in Bucket(h) : Rank(Bucket(h), c) = i =>
              Entry(Placed(h, i)) = [key |-> c, value |-> CodePage!value(c)]
<1>1. PICK n \in Nat : CodePage!code_points \subseteq 0..n
  BY CharactersAreUnique
<1>2. Bucket(h) \in SUBSET (0..n) /\ Bucket(h) \subseteq CodePage!code_points
  BY <1>1, HashTableFits DEF Bucket
<1>3. Placed(h, i) \in SUBSET Bucket(h) /\ Placed(h, i) \in SUBSET (0..n)
  BY <1>2 DEF Placed
<1>4. ASSUME Placed(h, i) # {}
      PROVE  CodePage!Min(Placed(h, i)) \in Placed(h, i)
  BY <1>3, <1>4, MaxIsGreatest
<1>5. ASSUME Placed(h, i) # {}
      PROVE  /\ Entry(Placed(h, i)) \in [key : Nat, value : Nat]
             /\ Entry(Placed(h, i)).key \in Placed(h, i)
  <2> DEFINE c == CodePage!Min(Placed(h, i))
  <2>1. c \in Placed(h, i) /\ c \in Nat /\ c \in CodePage!code_points
    BY <1>2, <1>3, <1>4, <1>5
  <2>2. CodePage!value(c) \in Nat
    BY <2>1, CharactersAreUnique
  <2>3. Entry(Placed(h, i)) = [key |-> c, value |-> CodePage!value(c)]
    BY <1>5 DEF Entry
  <2>4. QED BY <2>1, <2>2, <2>3
<1>6. Entry(Placed(h, i)) = NULL <=> Placed(h, i) = {}
  BY <1>5, CodePageAssumption DEF Entry
<1>7. ASSUME i < Cardinality(Bucket(h)) PROVE Placed(h, i) # {}
  <2>1. Cardinality(Bucket(h)) \in Nat
    BY <1>2, RanksAreThere
  <2>2. i \in 0..(Cardinality(Bucket(h)) - 1)
    BY <1>7, <2>1
  <2>3. \E c \in Bucket(h) : Rank(Bucket(h), c) = i
    <3>1. \A j \in 0..(Cardinality(Bucket(h)) - 1) : \E c \in Bucket(h) : Rank(Bucket(h), c) = j
      BY <1>2, RanksAreThere, Zenon
    <3>2. QED BY <2>2, <3>1
  <2>4. QED BY <2>3 DEF Placed
<1>8. ASSUME NEW c \in Bucket(h), Rank(Bucket(h), c) = i
      PROVE  Entry(Placed(h, i)) = [key |-> c, value |-> CodePage!value(c)]
  <2>1. c \in Placed(h, i)
    BY <1>8 DEF Placed
  <2>2. \A d \in Placed(h, i) : d = c
    <3>1. \A d \in Bucket(h) : Rank(Bucket(h), d) = Rank(Bucket(h), c) => d = c
      BY <1>2, RanksAreThere
    <3>2. QED BY <1>8, <3>1 DEF Placed
  <2>3. CodePage!Min(Placed(h, i)) = c
    BY <1>4, <2>1, <2>2
  <2>4. QED BY <2>1, <2>3 DEF Entry
<1>9. QED
  <2>1. \A c \in Placed(h, i) : c \in Bucket(h) /\ Rank(Bucket(h), c) = i
    BY DEF Placed
  <2>2. QED BY <1>5, <1>6, <1>7, <1>8, <2>1
\* Where a bucket has the code point, before its first free place.
Found(bucket, c) ==
  {i \in 1..LongestBucket : (\A k \in 1..i : bucket[k] # NULL) /\ bucket[i].key = c}

\* The console finds what is hashed, and nothing else, in its bucket.
LEMMA BucketsGiveCharacters ==
  ASSUME KeysAreFit, NEW h \in Hashes, NEW c \in Nat,
         c \in Hashed => c \in Bucket(h) /\ Cardinality(Bucket(h)) <= LongestBucket,
         NEW bucket, \A i \in 1..LongestBucket : bucket[i] = Entry(Placed(h, i - 1))
  PROVE  /\ c \in Hashed =>
              /\ Found(bucket, c) # {}
              /\ bucket[CodePage!Min(Found(bucket, c))].value = CodePage!value(c)
         /\ c \notin Hashed => Found(bucket, c) = {}
<1> DEFINE found == Found(bucket, c)
<1>1. PICK n \in Nat : CodePage!code_points \subseteq 0..n
  BY CharactersAreUnique
<1>2. Bucket(h) \in SUBSET (0..n) /\ LongestBucket \in Nat /\ Bucket(h) \subseteq Hashed
  BY <1>1, HashTableFits DEF Bucket
<1>3. ASSUME NEW i \in found
      PROVE  c \in Bucket(h) /\ Rank(Bucket(h), c) = i - 1
  <2>1. i \in 1..LongestBucket /\ bucket[i] # NULL /\ bucket[i].key = c /\ i - 1 \in Nat
    BY <1>2, <1>3 DEF Found
  <2>2. QED BY <2>1, EntriesAreRanked
<1>4. CASE c \notin Hashed
  BY <1>2, <1>3, <1>4
<1>5. CASE c \in Hashed
  <2> DEFINE rank == Rank(Bucket(h), c)
             place == rank + 1
  <2>1. c \in Bucket(h) /\ Cardinality(Bucket(h)) <= LongestBucket /\ Cardinality(Bucket(h)) \in Nat
    BY <1>2, <1>5, RanksAreThere
  <2>2. rank \in 0..(Cardinality(Bucket(h)) - 1)
    BY <1>2, <2>1, RanksAreThere, Zenon
  <2>3. rank \in Nat /\ place \in 1..LongestBucket /\ place - 1 = rank
    BY <1>2, <2>1, <2>2
  <2>4. bucket[place] = [key |-> c, value |-> CodePage!value(c)]
    <3>1. bucket[place] = Entry(Placed(h, rank))
      BY <2>3
    <3>2. QED BY <2>1, <2>3, <3>1, EntriesAreRanked
  <2>5. \A k \in 1..place : bucket[k] # NULL
    <3> TAKE k \in 1..place
    <3>1. k \in 1..LongestBucket /\ k - 1 \in Nat /\ k - 1 < Cardinality(Bucket(h))
      BY <1>2, <2>1, <2>2, <2>3
    <3>2. bucket[k] = Entry(Placed(h, k - 1))
      BY <3>1
    <3>3. Placed(h, k - 1) # {}
      BY <3>1, EntriesAreRanked
    <3>4. QED BY <3>1, <3>2, <3>3, EntriesAreRanked
  <2> HIDE DEF place
  <2>6. place \in found
    BY <2>3, <2>4, <2>5 DEF Found
  <2>7. \A i \in found : i = place
    <3>1. \A i \in found : i \in Nat /\ rank = i - 1
      BY <1>2, <1>3 DEF Found
    <3>2. QED BY <2>3, <3>1 DEF place
  <2>8. CodePage!Min(found) = place
    <3>1. found \in SUBSET (0..LongestBucket) /\ found # {}
      BY <1>2, <2>6 DEF Found
    <3>2. CodePage!Min(found) \in found
      BY <1>2, <3>1, MaxIsGreatest
    <3>3. QED BY <2>7, <3>2
  <2>9. QED BY <1>5, <2>4, <2>6, <2>8
<1>6. QED BY <1>4, <1>5

\* from_unicode() is the inverse of the list of the script.
LEMMA FromUnicodeIsExact ==
  ASSUME KeysAreFit, TablesAreMade, NEW c \in Nat
  PROVE  CodePage!from_unicode(c) =
           IF c \in CodePage!code_points THEN CodePage!value(c) ELSE NULL
<1> DEFINE within == {r \in tables.contiguous_ranges : r.first <= c /\ c <= r.last}
           hash == c % tables.bucket_count
           bucket == [i \in 1..tables.max_bucket_length |->
                        tables.hash_table[hash * tables.max_bucket_length + i - 1]]
           found == {i \in DOMAIN bucket :
                       /\ \A k \in 1..i : bucket[k] # NULL
                       /\ bucket[i].key = c}
<1>0. /\ tables.bucket_count = Cardinality(Hashed)
      /\ tables.max_bucket_length = LongestBucket /\ tables.max_hash_used = LastHash
  BY TablesAreBuckets DEF TablesAreMade
<1>1. CodePage!from_unicode(c) =
        IF within # {} THEN c - (CHOOSE r \in within : TRUE).offset
        ELSE IF hash > tables.max_hash_used \/ found = {} THEN NULL
        ELSE bucket[CodePage!Min(found)].value
  BY Zenon DEF CodePage!from_unicode
<1>2. CASE within # {}
  <2>1. (CHOOSE r \in within : TRUE) \in within
    BY <1>2
  <2>2. QED BY <1>1, <1>2, <2>1, RangesGiveCharacters
<1>3. ASSUME within = {}, c \in CodePage!code_points
      PROVE  c \in Hashed
  <2>1. PICK n \in Nat : CodePage!code_points \subseteq 0..n
    BY CharactersAreUnique
  <2>2. PICK r \in CodePage!ranges : c \in r
    BY <1>3, <2>1, RangesCover
  <2>3. r \in SUBSET (0..n) /\ r # {}
    BY <2>1, <2>2, RangesCover
  <2>4. CodePage!Min(r) <= c /\ c <= CodePage!Max(r)
    BY <2>2, <2>3, MaxIsGreatest
  <2>5. ~CodePage!IsContiguous(r)
    <3>1. ASSUME CodePage!IsContiguous(r) PROVE FALSE
      <4> DEFINE entry == [first |-> CodePage!Min(r), last |-> CodePage!Max(r),
                           offset |-> CodePage!offset(CodePage!Min(r))]
      <4>1. entry \in tables.contiguous_ranges
        BY <3>1, TablesAreBuckets DEF TablesAreMade
      <4>2. entry \in within
        BY <2>4, <4>1
      <4>3. QED BY <1>3, <4>2
    <3>2. QED BY <3>1
  <2>6. QED BY <2>2, <2>5 DEF Hashed
<1>4. CASE within = {}
  <2>1. /\ Cardinality(Hashed) \in Nat \ {0} /\ LastHash \in Nat /\ LongestBucket \in Nat
        /\ hash \in Hashes /\ hash \in Nat /\ Hashed \subseteq CodePage!code_points
    <3>1. hash \in 0..(Cardinality(Hashed) - 1)
      BY <1>0, HashTableFits, Division
    <3>2. QED BY <3>1, HashTableFits DEF Hashes
  <2>2. c \in Hashed => /\ hash <= LastHash
                        /\ c \in Bucket(hash) /\ Cardinality(Bucket(hash)) <= LongestBucket
    BY <1>0, <2>1, HashTableFits
  <2>3. CASE hash > LastHash
    <3>1. c \notin CodePage!code_points
      <4> HIDE DEF within, hash
      <4>1. QED BY <1>3, <1>4, <2>1, <2>2, <2>3
    <3> HIDE DEF within, hash, bucket, found
    <3>2. QED BY <1>0, <1>1, <1>4, <2>3, <3>1
  <2>4. CASE ~(hash > LastHash)
    <3>1. hash \in 0..LastHash
      BY <2>1, <2>4
    <3>2. \A i \in 1..LongestBucket : bucket[i] = Entry(Placed(hash, i - 1))
      <4>1. \A i \in 1..LongestBucket :
              bucket[i] = tables.hash_table[hash * LongestBucket + i - 1]
        BY <1>0
      <4> HIDE DEF bucket, hash
      <4>2. QED BY <3>1, <4>1, BucketsAreRead
    <3>3. found = Found(bucket, c)
      BY <1>0 DEF Found
    <3> HIDE DEF bucket, found, hash, within
    <3>4. /\ c \in Hashed =>
               found # {} /\ bucket[CodePage!Min(found)].value = CodePage!value(c)
          /\ c \notin Hashed => found = {}
      BY <2>1, <2>2, <3>2, <3>3, BucketsGiveCharacters
    <3>5. QED BY <1>0, <1>1, <1>3, <1>4, <2>1, <2>4, <3>4
  <2>5. QED BY <2>3, <2>4
<1>5. QED BY <1>2, <1>4
\* The tables are a function of the list.
LEMMA ListDecides ==
  ASSUME keys' = keys
  PROVE  CodePage!Usable' = CodePage!Usable /\ CodePage!Generated' = CodePage!Generated
<1> DEFINE count == CodePage!Cardinality(Hashed)
           buckets == [h \in 0..(count - 1) |-> {c \in Hashed : c % count = h}]
           longest == CodePage!Max({CodePage!Cardinality(buckets[h]) : h \in DOMAIN buckets})
           last == CodePage!Max({h \in DOMAIN buckets : buckets[h] # {}})
           Place(h, i) ==
             {c \in buckets[h] : CodePage!Cardinality({d \in buckets[h] : d < c}) = i}
           Put(place) ==
             IF place = {} THEN NULL
             ELSE [key |-> CodePage!Min(place), value |-> CodePage!value(CodePage!Min(place))]
           table == [i \in 0..((last + 1) * longest - 1) |->
                       Put(Place(i \div longest, i % longest))]
           contiguous == {[first |-> CodePage!Min(r), last |-> CodePage!Max(r),
                           offset |-> CodePage!offset(CodePage!Min(r))] :
                            r \in {s \in CodePage!ranges : CodePage!IsContiguous(s)}}
<1>1. CodePage!Generated =
        [bucket_count |-> count, max_bucket_length |-> longest, max_hash_used |-> last,
         hash_table |-> table, contiguous_ranges |-> contiguous]
  BY Zenon DEF CodePage!Generated, Hashed
<1>2. CodePage!Generated' =
        [bucket_count |-> count', max_bucket_length |-> longest', max_hash_used |-> last',
         hash_table |-> table', contiguous_ranges |-> contiguous']
  BY Zenon DEF CodePage!Generated, Hashed
<1>3. CodePage!ranges' = CodePage!ranges
  BY DEF CodePage!ranges, CodePage!code_points
<1>4. \A c : CodePage!value(c)' = CodePage!value(c)
  BY DEF CodePage!value
<1>5. \A c : CodePage!offset(c)' = CodePage!offset(c)
  BY <1>4 DEF CodePage!offset
<1>6. \A r : CodePage!IsContiguous(r)' <=> CodePage!IsContiguous(r)
  BY <1>5 DEF CodePage!IsContiguous
<1>7. Hashed' = Hashed
  BY <1>3, <1>6 DEF Hashed
<1>8. count' = count /\ longest' = longest /\ last' = last
  BY <1>7
<1>9. table' = table
  <2>1. \A h, i : Place(h, i)' = Place(h, i)
    BY <1>7
  <2>2. \A p : Put(p)' = Put(p)
    BY <1>4
  <2> HIDE DEF Place, Put, longest, last
  <2>3. QED BY <1>8, <2>1, <2>2
<1>10. contiguous' = contiguous
  BY <1>3, <1>5, <1>6
<1>11. CodePage!Usable' = CodePage!Usable
  BY DEF CodePage!Usable, CodePage!ranges, CodePage!code_points, CodePage!IsContiguous,
         CodePage!offset, CodePage!value
<1> HIDE DEF count, longest, last, table, contiguous
<1>12. QED BY <1>1, <1>2, <1>8, <1>9, <1>10, <1>11
\* A list that was written has the tables of it, and does not change any more.
CodePageInv ==
  /\ keys # NULL => keys \in KeyTables
  /\ tables # NULL => keys # NULL /\ CodePage!Usable /\ TablesAreMade

\* For every list of characters from which the script makes tables: the console finds
\* each code point's character, and no other's.
THEOREM CodePageIsAlwaysExact == WorkstationSpec => []CodePageIsExact
<1>1. WorkstationInit => CodePageInv
  BY DEF WorkstationInit, CodePage!Init, CodePageInv
<1>2. CodePageInv /\ [WorkstationNext]_workstationVars => CodePageInv'
  <2> SUFFICES ASSUME CodePageInv, [WorkstationNext]_workstationVars PROVE CodePageInv'
    OBVIOUS
  <2>1. CASE CodePage!EditKeys
    BY <2>1 DEF CodePage!EditKeys, CodePageInv
  <2>2. CASE CodePage!Generate
    <3>1. /\ keys' = keys /\ keys # NULL /\ CodePage!Usable
      BY <2>2 DEF CodePage!Generate
    <3>2. CodePage!Usable' /\ TablesAreMade'
      BY <2>2, <3>1, ListDecides DEF CodePage!Generate, TablesAreMade
    <3>3. QED BY <3>1, <3>2 DEF CodePageInv
  <2>3. CASE UNCHANGED codePageVars
    <3>1. keys' = keys /\ tables' = tables
      BY <2>3 DEF codePageVars
    <3>2. CodePage!Usable' = CodePage!Usable /\ TablesAreMade' = TablesAreMade
      BY <3>1, ListDecides DEF TablesAreMade
    <3>3. QED BY <3>1, <3>2 DEF CodePageInv
  <2>4. QED
    BY <2>1, <2>2, <2>3
    DEF WorkstationNext, Building, ManagingZig, GeneratingCodePage, GeneratingInterface,
        ReadingBitmap, CodePage!Next, workstationVars, otherVars
<1>3. CodePageInv => CodePageIsExact
  <2> SUFFICES ASSUME CodePageInv, tables # NULL, NEW c \in CodePoints
               PROVE  CodePage!from_unicode(c) =
                        IF {i \in DOMAIN keys : keys[i] = c} = {} THEN NULL
                        ELSE CodePage!Min({i \in DOMAIN keys : keys[i] = c}) - 1
    BY DEF CodePageIsExact, CodePage!CodePageIsExact
  <2>1. KeysAreFit /\ TablesAreMade /\ c \in Nat
    BY CodePageAssumption DEF CodePageInv, KeysAreFit
  <2>2. CodePage!from_unicode(c) =
          IF c \in CodePage!code_points THEN CodePage!value(c) ELSE NULL
    BY <2>1, FromUnicodeIsExact
  <2>3. CASE c \in CodePage!code_points
    <3> DEFINE place == CodePage!value(c) + 1
    <3>1. place \in Nat /\ {i \in DOMAIN keys : keys[i] = c} = {place}
          /\ CodePage!value(c) = place - 1
      BY <2>1, <2>3, CharactersAreUnique
    <3>2. CodePage!Min({place}) = place
      BY DEF CodePage!Min
    <3> HIDE DEF place
    <3>3. QED BY <2>2, <2>3, <3>1, <3>2
  <2>4. CASE c \notin CodePage!code_points
    <3>1. {i \in DOMAIN keys : keys[i] = c} = {}
      BY <2>1, <2>4, CharactersAreUnique
    <3>2. QED BY <2>2, <2>4, <3>1
  <2>5. QED BY <2>3, <2>4
<1>4. QED BY <1>1, <1>2, <1>3, PTL DEF WorkstationSpec

-----------------------------------------------------------------------------
(* The bottom-up bitmap *)

SoughtAt(w, h, p) == w * h - w * ((p \div w) + 1) + (p % w)

\* What is in the file where the rest of a row begins.
LEMMA RowsAreSought ==
  ASSUME NEW w \in Nat \ {0}, NEW h \in Nat, NEW p \in Nat, p < w * h,
         NEW j \in Nat, (p % w) + j < w
  PROVE  /\ h - 1 - ((SoughtAt(w, h, p) + j) \div w) = (p + j) \div w
         /\ (SoughtAt(w, h, p) + j) % w = (p + j) % w
         /\ p + j < w * h
<1> DEFINE row == p \div w
           col == p % w
<1>1. row \in Nat /\ col \in 0..(w - 1) /\ p = row * w + col
  BY Division
<1>2. col + j \in 0..(w - 1)
  BY <1>1
<1> HIDE DEF row, col
<1>3. row < h
  <2>1. ASSUME h <= row PROVE FALSE
    <3>1. w * h <= row * w
      BY <1>1, <2>1, Z3
    <3>2. row * w \in Nat /\ w * h \in Nat
      BY <1>1, Z3
    <3>3. QED BY <1>1, <3>1, <3>2
  <2>2. QED BY <1>1, <2>1
<1> DEFINE up == h - row - 1
<1>4. up \in Nat /\ row = h - 1 - up
  BY <1>1, <1>3
<1>5. w * h - w * (row + 1) = up * w
  BY <1>1, Z3
<1>6. p + j = row * w + (col + j)
  <2>1. row * w \in Nat
    BY <1>1, Z3
  <2>2. QED BY <1>1, <2>1
<1>7. up * w + col + j = up * w + (col + j)
  <2>1. up * w \in Nat
    BY <1>4, Z3
  <2>2. QED BY <1>1, <2>1
<1> HIDE DEF up
<1>8. /\ (row * w + (col + j)) \div w = row /\ (row * w + (col + j)) % w = col + j
      /\ (up * w + (col + j)) \div w = up /\ (up * w + (col + j)) % w = col + j
  BY <1>1, <1>2, <1>4, Quotient
<1>9. p + j < w * h
  <2>1. (row + 1) * w <= w * h
    BY <1>1, <1>3, Z3
  <2>2. (row + 1) * w = row * w + w /\ row * w \in Nat /\ w * h \in Nat
    BY <1>1, Z3
  <2>3. QED BY <1>1, <1>2, <2>1, <2>2
<1>10. QED
  <2>1. SoughtAt(w, h, p) + j = up * w + (col + j)
    BY <1>5, <1>7 DEF row, col, SoughtAt
  <2>2. QED BY <1>4, <1>6, <1>8, <1>9, <2>1 DEF row, col
\* What has been read are the bytes from the top, in their order.
BitmapInv ==
  /\ width \in Nat /\ height \in Nat /\ pos \in Nat
  /\ width = 0 => pos = 0
  /\ taken \in Seq(Int \X Int)
  /\ RowsComeFromTheTop

\* Nothing has been read.
LEMMA BitmapBegins == ASSUME Bitmap!Init PROVE BitmapInv
<1>1. width * height = 0
  BY DEF Bitmap!Init
<1>2. taken = <<>> /\ taken \in Seq(Int \X Int) /\ Len(taken) = 0
  BY EmptySeq DEF Bitmap!Init
<1>3. QED
  BY <1>1, <1>2 DEF BitmapInv, Bitmap!Init, RowsComeFromTheTop, Bitmap!RowsComeFromTheTop, Bitmap!length

\* A bitmap is opened.
LEMMA OpenKeepsBitmap == ASSUME BitmapInv, Bitmap!Open PROVE BitmapInv'
<1>1. /\ width' \in Nat /\ height' \in Nat /\ pos' = 0 /\ taken' = taken /\ pos = 0
      /\ Len(taken) = 0
  BY BitmapAssumption
  DEF BitmapInv, Bitmap!Open, RowsComeFromTheTop, Bitmap!RowsComeFromTheTop
<1>2. \A w, h \in Nat : 0 <= w * h
  BY Z3
<1>3. 0 <= width' * height'
  BY <1>1, <1>2
<1>4. ~\E i \in 1..pos' : TRUE
  BY <1>1
<1>5. RowsComeFromTheTop'
  BY <1>1, <1>3, <1>4 DEF RowsComeFromTheTop, Bitmap!RowsComeFromTheTop, Bitmap!length
<1>6. QED BY <1>1, <1>5 DEF BitmapInv

\* The rest of a row, or of the buffer, is read.
LEMMA ReadKeepsBitmap ==
  ASSUME BitmapInv, NEW left \in BufferSizes, Bitmap!ReadRowPart(left) PROVE BitmapInv'
<1> DEFINE count == Bitmap!RowPart(pos, left)
           Byte(i) == Bitmap!bmp_data(Bitmap!seek_to + i - 1)
           got == [i \in 1..count |-> Byte(i)]
<1>1. /\ width \in Nat /\ height \in Nat /\ pos \in Nat /\ taken \in Seq(Int \X Int)
      /\ pos < width * height /\ width' = width /\ height' = height
      /\ taken' = taken \o got /\ pos' = pos + count /\ Len(taken) = pos
      /\ \A i \in 1..pos : taken[i] = <<(i - 1) \div width, (i - 1) % width>>
  BY DEF BitmapInv, Bitmap!ReadRowPart, RowsComeFromTheTop, Bitmap!RowsComeFromTheTop,
         Bitmap!length
<1>2. width \in Nat \ {0}
  BY <1>1 DEF BitmapInv
<1>3. pos % width \in 0..(width - 1)
  BY <1>1, <1>2, Division
<1>4. count \in Nat /\ (pos % width) + count <= width
  BY <1>1, <1>2, <1>3, BitmapAssumption DEF Bitmap!RowPart
<1>5. \A i \in 1..count : /\ Byte(i) = <<(pos + i - 1) \div width, (pos + i - 1) % width>>
                          /\ pos + i - 1 < width * height
  <2> TAKE i \in 1..count
  <2> DEFINE j == i - 1
             at == SoughtAt(width, height, pos)
  <2>1. j \in Nat /\ (pos % width) + j < width /\ pos + i - 1 = pos + j
    BY <1>1, <1>3, <1>4
  <2>2. at \in Int
    <3>1. pos \div width \in Nat
      BY <1>1, <1>2, Division
    <3>2. width * height \in Int /\ width * ((pos \div width) + 1) \in Int
      BY <1>1, <3>1, Z3
    <3>3. QED BY <1>3, <3>2 DEF SoughtAt
  <2>3. Bitmap!seek_to = at
    BY DEF Bitmap!seek_to, Bitmap!length, SoughtAt
  <2> HIDE DEF at, j
  <2>4. at + i - 1 = at + j
    BY <2>2, <2>1 DEF j
  <2>5. Byte(i) = <<height - 1 - ((at + j) \div width), (at + j) % width>>
    BY <2>3, <2>4 DEF Bitmap!bmp_data
  <2>6. /\ height - 1 - ((at + j) \div width) = (pos + j) \div width
        /\ (at + j) % width = (pos + j) % width
        /\ pos + j < width * height
    <3>1. /\ width \in Nat \ {0} /\ height \in Nat /\ pos \in Nat /\ pos < width * height
          /\ j \in Nat /\ (pos % width) + j < width
      BY <1>1, <1>2, <2>1, Zenon
    <3>2. QED BY <3>1, RowsAreSought, Zenon DEF at
  <2>7. QED BY <2>1, <2>5, <2>6
<1>6. got \in Seq(Int \X Int) /\ Len(got) = count
  <2>1. \A i \in 1..count : Byte(i) \in Int \X Int
    <3> TAKE i \in 1..count
    <3>1. pos + i - 1 \in Nat
      BY <1>1, <1>4
    <3>2. (pos + i - 1) \div width \in Nat /\ (pos + i - 1) % width \in 0..(width - 1)
      BY <1>2, <3>1, Division
    <3>3. QED BY <1>5, <3>2
  <2> HIDE DEF Byte
  <2>2. QED BY <1>4, <2>1
<1> HIDE DEF got, count, Byte
<1>7. /\ taken' \in Seq(Int \X Int) /\ Len(taken') = pos + count
      /\ \A i \in 1..(pos + count) : taken'[i] = IF i <= pos THEN taken[i] ELSE got[i - pos]
  BY <1>1, <1>6, ConcatProperties
<1>8. pos + count <= width * height
  <2>1. width * height \in Nat
    BY <1>1, Z3
  <2>2. CASE count = 0
    BY <1>1, <2>1, <2>2
  <2>3. CASE count # 0
    BY <1>1, <1>4, <1>5, <2>1, <2>3
  <2>4. QED BY <2>2, <2>3
<1>9. \A i \in 1..(pos + count) : taken'[i] = <<(i - 1) \div width, (i - 1) % width>>
  <2> TAKE i \in 1..(pos + count)
  <2>1. CASE i <= pos
    <3>1. i \in 1..pos /\ taken'[i] = taken[i]
      BY <1>1, <1>4, <1>7, <2>1
    <3>2. QED BY <1>1, <3>1
  <2>2. CASE ~(i <= pos)
    <3>1. i - pos \in 1..count /\ pos + (i - pos) - 1 = i - 1
      BY <1>1, <1>4, <2>2
    <3>2. taken'[i] = got[i - pos]
      BY <1>1, <1>4, <1>7, <2>2
    <3>3. QED BY <1>5, <3>1, <3>2 DEF got
  <2>3. QED BY <2>1, <2>2, Zenon
<1>10. QED
  <2>1. pos' \in Nat /\ pos' = pos + count
    BY <1>1, <1>4
  <2>2. QED
    BY <1>1, <1>2, <1>7, <1>8, <1>9, <2>1
    DEF BitmapInv, RowsComeFromTheTop, Bitmap!RowsComeFromTheTop, Bitmap!length

\* bmp.py reads from the top, for bitmaps and buffers of any sizes.
THEOREM RowsAlwaysComeFromTheTop == WorkstationSpec => []RowsComeFromTheTop
<1>1. WorkstationInit => BitmapInv
  BY BitmapBegins DEF WorkstationInit
<1>2. BitmapInv /\ [WorkstationNext]_workstationVars => BitmapInv'
  <2> SUFFICES ASSUME BitmapInv, [WorkstationNext]_workstationVars PROVE BitmapInv'
    OBVIOUS
  <2>1. CASE Bitmap!Open
    BY <2>1, OpenKeepsBitmap
  <2>2. ASSUME NEW left \in BufferSizes, Bitmap!ReadRowPart(left) PROVE BitmapInv'
    BY <2>2, ReadKeepsBitmap
  <2>3. CASE UNCHANGED bitmapVars
    BY <2>3
    DEF bitmapVars, BitmapInv, RowsComeFromTheTop, Bitmap!RowsComeFromTheTop, Bitmap!length
  <2>4. QED
    BY <2>1, <2>2, <2>3
    DEF WorkstationNext, Building, ManagingZig, GeneratingCodePage, GeneratingInterface,
        ReadingBitmap, Bitmap!Next, workstationVars, otherVars
<1>3. BitmapInv => RowsComeFromTheTop
  BY DEF BitmapInv
<1>4. QED BY <1>1, <1>2, <1>3, PTL DEF WorkstationSpec
-----------------------------------------------------------------------------
(* The interface generator *)

\* Whatever the message of an operation is, a value or a struct of them, the
\* implementation is called with what the caller passed, in its order.
LEMMA MessagesKeepArguments ==
  ASSUME NEW op, op.args \in Seq(Range(op.args)), NEW value
  PROVE  /\ op.args # <<>> =>
              Interface!SendValue(op, value).kind = Interface!ArgsType(op).kind
         /\ Interface!RecvArguments(op, Interface!SendValue(op, value))
              = [k \in DOMAIN op.args |-> value[op.args[k]]]
<1> DEFINE args == op.args
<1>1. /\ Len(args) \in Nat /\ DOMAIN args = 1..Len(args)
      /\ \A k \in DOMAIN args : args[k] \in Range(args)
      /\ Len(args) = 0 <=> args = <<>>
  BY EmptySeq
<1>2. CASE Len(args) = 0
  BY <1>1, <1>2 DEF Interface!RecvArguments
<1>3. CASE Len(args) = 1
  <2>1. Interface!SendValue(op, value) = [kind |-> "value", of |-> value[args[1]]]
    BY <1>3 DEF Interface!SendValue
  <2>2. Interface!RecvArguments(op, Interface!SendValue(op, value)) = <<value[args[1]]>>
    BY <1>3, <2>1 DEF Interface!RecvArguments
  <2>3. DOMAIN args = {1}
    BY <1>1, <1>3
  <2>4. QED
    BY <1>3, <2>1, <2>2, <2>3 DEF Interface!ArgsType
<1>4. CASE Len(args) \notin {0, 1}
  <2> DEFINE message == [kind |-> "struct", of |-> [n \in Range(args) |-> value[n]]]
  <2>1. Interface!SendValue(op, value) = message
    BY <1>4 DEF Interface!SendValue, Interface!Range, Range
  <2>2. Interface!RecvArguments(op, message) = [k \in DOMAIN args |-> message.of[args[k]]]
    BY <1>4 DEF Interface!RecvArguments
  <2>3. \A k \in DOMAIN args : message.of[args[k]] = value[args[k]]
    BY <1>1
  <2>4. QED
    BY <1>4, <2>1, <2>2, <2>3 DEF Interface!ArgsType
<1>5. QED BY <1>2, <1>3, <1>4

\* For every interface in an IDL file that genif.py accepts.
THEOREM ArgumentsAlwaysArrive == WorkstationSpec => []ArgumentsArrive
<1> DEFINE Typed == node \in Nodes \cup {NULL}
<1>1. WorkstationInit => Typed
  BY DEF WorkstationInit, Interface!Init
<1>2. Typed /\ [WorkstationNext]_workstationVars => Typed'
  BY DEF WorkstationNext, Building, ManagingZig, GeneratingCodePage, GeneratingInterface,
         ReadingBitmap, Interface!Next, Interface!EditInterface, Interface!Generate,
         interfaceVars, workstationVars, otherVars
<1>3. Typed => ArgumentsArrive
  <2> SUFFICES ASSUME Typed, node # NULL, NEW i \in DOMAIN node.ops
               PROVE  LET op == node.ops[i]
                          value == [n \in Range(op.args) |-> n]
                          message == Interface!SendValue(op, value)
                      IN /\ op.args # <<>> => message.kind = Interface!ArgsType(op).kind
                         /\ Interface!RecvArguments(op, message)
                              = [k \in DOMAIN op.args |-> value[op.args[k]]]
    BY DEF ArgumentsArrive, Interface!ArgumentsArrive, Interface!Range, Range
  <2>1. node.ops[i].args \in Seq(Range(node.ops[i].args))
    BY InterfaceAssumption
  <2>2. QED BY <2>1, MessagesKeepArguments
<1>4. QED BY <1>1, <1>2, <1>3, PTL DEF WorkstationSpec

\* How Zig has what is opened closed.
Closers == {"}", "};"}

\* What print() is called with.
Printable ==
  {"struct", "fn", "return switch", "prong", "return impl", "return send_value", "member",
   "_ArgVals", "_RetVals", "_dispatch_impls", "_port_id"}
PrintCalls == [what : Printable \cup {"close"}, closer : Closers \cup {NULL}, indent_change : Int]

\* What a call does to the closers that are due.
Follows(before, call, after) ==
  \/ /\ call.what = "close" /\ call.indent_change = -1
     /\ before # <<>> /\ Head(before) = call.closer /\ after = Tail(before)
  \/ /\ call.what # "close" /\ call.indent_change = 1
     /\ call.closer # NULL /\ after = <<call.closer>> \o before
  \/ /\ call.what # "close" /\ call.indent_change = 0
     /\ call.closer = NULL /\ after = before

\* The closers that are due before each call and at the end.
IsDue(due, calls) ==
  /\ due \in [0..Len(calls) -> Seq(Closers)]
  /\ \A i \in 1..Len(calls) : Follows(due[i - 1], calls[i], due[i])

\* From what is due before the calls they lead to what is due behind them.
Leads(calls, before, after) ==
  /\ calls \in Seq(PrintCalls) /\ before \in Seq(Closers) /\ after \in Seq(Closers)
  /\ \E due : IsDue(due, calls) /\ due[0] = before /\ due[Len(calls)] = after

\* The calls close what they open and nothing else.
Nests(calls) == \A due \in Seq(Closers) : Leads(calls, due, due)

LEMMA LeadsOn ==
  ASSUME NEW a, NEW b, NEW x, NEW y, NEW z, Leads(a, x, y), Leads(b, y, z)
  PROVE  Leads(a \o b, x, z)
<1> DEFINE m == Len(a)
           n == Len(b)
<1>1. /\ a \in Seq(PrintCalls) /\ b \in Seq(PrintCalls) /\ m \in Nat /\ n \in Nat
      /\ x \in Seq(Closers) /\ z \in Seq(Closers)
  BY LenProperties DEF Leads
<1>2. PICK d : IsDue(d, a) /\ d[0] = x /\ d[m] = y
  BY DEF Leads
<1>3. PICK e : IsDue(e, b) /\ e[0] = y /\ e[n] = z
  BY DEF Leads
<1>4. /\ a \o b \in Seq(PrintCalls) /\ Len(a \o b) = m + n
      /\ \A i \in 1..(m + n) : (a \o b)[i] = IF i <= m THEN a[i] ELSE b[i - m]
  BY <1>1, ConcatProperties
<1> DEFINE due == [i \in 0..(m + n) |-> IF i <= m THEN d[i] ELSE e[i - m]]
<1>5. /\ d \in [0..m -> Seq(Closers)] /\ \A i \in 1..m : Follows(d[i - 1], a[i], d[i])
      /\ e \in [0..n -> Seq(Closers)] /\ \A i \in 1..n : Follows(e[i - 1], b[i], e[i])
  BY <1>2, <1>3 DEF IsDue
<1> HIDE DEF m, n
<1>6. due \in [0..(m + n) -> Seq(Closers)]
  BY <1>1, <1>5
<1>7. due[0] = x
  BY <1>1, <1>2
<1>8. due[m + n] = z
  <2>1. CASE n = 0
    BY <1>1, <1>2, <1>3, <2>1
  <2>2. CASE n # 0
    BY <1>1, <1>3, <2>2
  <2>3. QED BY <2>1, <2>2
<1>9. ASSUME NEW i \in 1..(m + n) PROVE Follows(due[i - 1], (a \o b)[i], due[i])
  <2>1. CASE i <= m
    <3>1. due[i - 1] = d[i - 1] /\ due[i] = d[i] /\ (a \o b)[i] = a[i] /\ i \in 1..m
      BY <1>1, <1>4, <2>1
    <3> HIDE DEF due
    <3>2. QED BY <1>5, <3>1
  <2>2. CASE ~(i <= m)
    <3>1. due[i - 1] = e[(i - m) - 1]
      <4>1. CASE i - 1 = m
        BY <1>1, <1>2, <1>3, <2>2, <4>1
      <4>2. CASE i - 1 # m
        <5>1. i - 1 \in 0..(m + n) /\ ~(i - 1 <= m) /\ (i - 1) - m = (i - m) - 1
          BY <1>1, <2>2, <4>2
        <5>2. QED BY <5>1
      <4>3. QED BY <4>1, <4>2
    <3>2. due[i] = e[i - m] /\ (a \o b)[i] = b[i - m] /\ i - m \in 1..n
      BY <1>1, <1>4, <2>2
    <3> HIDE DEF due
    <3>3. QED BY <1>5, <3>1, <3>2
  <2>3. QED BY <2>1, <2>2
<1>10. IsDue(due, a \o b)
  <2> HIDE DEF due
  <2>1. QED BY <1>4, <1>6, <1>9 DEF IsDue
<1> HIDE DEF due
<1>11. QED BY <1>1, <1>4, <1>7, <1>8, <1>10 DEF Leads

\* One call.
LEMMA CallLeads ==
  ASSUME NEW call \in PrintCalls, NEW x \in Seq(Closers), NEW y \in Seq(Closers),
         Follows(x, call, y)
  PROVE  Leads(<<call>>, x, y)
<1> DEFINE due == [i \in 0..1 |-> IF i = 0 THEN x ELSE y]
<1>1. <<call>> \in Seq(PrintCalls) /\ Len(<<call>>) = 1 /\ <<call>>[1] = call
  OBVIOUS
<1>2. due \in [0..1 -> Seq(Closers)] /\ due[0] = x /\ due[1] = y
  OBVIOUS
<1>3. IsDue(due, <<call>>)
  <2> HIDE DEF due
  <2>1. \A i \in 1..1 : i = 1 /\ i - 1 = 0
    OBVIOUS
  <2>2. QED BY <1>1, <1>2, <2>1 DEF IsDue
<1> HIDE DEF due
<1>4. QED BY <1>1, <1>2, <1>3 DEF Leads

\* Opening, closing, and what nests, after other calls.
LEMMA OpenLeads ==
  ASSUME NEW what \in Printable, NEW c \in Closers, NULL \notin Closers,
         NEW calls, NEW x, NEW y, Leads(calls, x, y)
  PROVE  Leads(calls \o Interface!Open(what, c), x, <<c>> \o y)
<1> DEFINE call == [what |-> what, closer |-> c, indent_change |-> 1]
<1>1. y \in Seq(Closers)
  BY DEF Leads
<1>2. call \in PrintCalls /\ <<c>> \o y \in Seq(Closers)
  BY <1>1 DEF PrintCalls
<1>3. Follows(y, call, <<c>> \o y)
  <2>1. what # "close"
    BY DEF Printable
  <2>2. QED BY <2>1 DEF Follows
<1>4. Interface!Open(what, c) = <<call>>
  BY DEF Interface!Open
<1> HIDE DEF call
<1>5. Leads(Interface!Open(what, c), y, <<c>> \o y)
  BY <1>1, <1>2, <1>3, <1>4, CallLeads
<1>6. QED BY <1>5, LeadsOn

LEMMA CloseLeads ==
  ASSUME NEW c \in Closers, NEW calls, NEW x, NEW y \in Seq(Closers),
         Leads(calls, x, <<c>> \o y)
  PROVE  Leads(calls \o Interface!Close(c), x, y)
<1> DEFINE call == [what |-> "close", closer |-> c, indent_change |-> -1]
<1>1. call \in PrintCalls
  <2>1. -1 \in Int
    OBVIOUS
  <2>2. QED BY <2>1, Zenon DEF PrintCalls
<1>2. /\ <<c>> \o y \in Seq(Closers) /\ <<c>> \o y # <<>>
      /\ Head(<<c>> \o y) = c /\ Tail(<<c>> \o y) = y
  OBVIOUS
<1>3. Follows(<<c>> \o y, call, y)
  BY <1>2 DEF Follows
<1>4. Interface!Close(c) = <<call>>
  BY DEF Interface!Close
<1> HIDE DEF call
<1>5. Leads(Interface!Close(c), <<c>> \o y, y)
  BY <1>1, <1>2, <1>3, <1>4, CallLeads
<1>6. QED BY <1>5, LeadsOn

LEMMA NestedLeads ==
  ASSUME NEW calls, NEW x, NEW y, Leads(calls, x, y), NEW more, Nests(more)
  PROVE  Leads(calls \o more, x, y)
<1>1. Leads(more, y, y)
  BY DEF Leads, Nests
<1>2. QED BY <1>1, LeadsOn

LEMMA NothingNests == Nests(<<>>)
<1> SUFFICES ASSUME NEW x \in Seq(Closers) PROVE Leads(<<>>, x, x)
  BY DEF Nests
<1> DEFINE due == [i \in 0..0 |-> x]
<1>1. <<>> \in Seq(PrintCalls) /\ Len(<<>>) = 0
  OBVIOUS
<1>2. due \in [0..0 -> Seq(Closers)] /\ due[0] = x
  OBVIOUS
<1> HIDE DEF due
<1>3. QED BY <1>1, <1>2 DEF Leads, IsDue

LEMMA LineNests ==
  ASSUME NEW what \in Printable
  PROVE  Nests(Interface!Line(what))
<1> DEFINE call == [what |-> what, closer |-> NULL, indent_change |-> 0]
<1>1. call \in PrintCalls /\ \A due : Follows(due, call, due)
  <2>1. what # "close"
    BY DEF Printable
  <2>2. QED BY <2>1 DEF PrintCalls, Follows
<1>2. Interface!Line(what) = <<call>>
  BY DEF Interface!Line
<1> HIDE DEF call
<1>3. QED BY <1>1, <1>2, CallLeads DEF Nests

\* What nests may be put in a scope.
LEMMA ScopeNests ==
  ASSUME NEW what \in Printable, NEW c \in Closers, NEW calls, Nests(calls),
         NULL \notin Closers
  PROVE  Nests(Interface!Open(what, c) \o calls \o Interface!Close(c))
<1> SUFFICES ASSUME NEW due \in Seq(Closers)
             PROVE  Leads(Interface!Open(what, c) \o calls \o Interface!Close(c), due, due)
  BY DEF Nests
<1>1. Leads(<<>> \o Interface!Open(what, c), due, <<c>> \o due)
  BY OpenLeads, NothingNests DEF Nests
<1>2. <<>> \o Interface!Open(what, c) = Interface!Open(what, c)
  BY DEF Interface!Open
<1>3. Leads(Interface!Open(what, c) \o calls, due, <<c>> \o due)
  BY <1>1, <1>2, NestedLeads
<1>4. QED BY <1>3, CloseLeads

LEMMA BothNest ==
  ASSUME NEW a, NEW b, Nests(a), Nests(b)
  PROVE  Nests(a \o b)
BY LeadsOn DEF Nests

\* FlattenSeq of what nests.
LEMMA FlatNests ==
  ASSUME NEW n \in Nat, NEW seqs \in [1..n -> Seq(PrintCalls)], \A i \in 1..n : Nests(seqs[i])
  PROVE  Nests(Interface!FlattenSeq(seqs))
<1> DEFINE V == Seq(PrintCalls)
           turn == [i \in 1..n |-> [v \in V |-> v \o seqs[i]]]
           F(f) == f = [i \in 1..Len(seqs) |-> IF i = 1 THEN seqs[i] ELSE f[i - 1] \o seqs[i]]
<1>1. Len(seqs) = n /\ (n = 0 => seqs = <<>>)
  OBVIOUS
<1>2. CASE n = 0
  <2>1. Interface!FlattenSeq(seqs) = <<>>
    BY <1>1, <1>2 DEF Interface!FlattenSeq
  <2>2. QED BY <2>1, NothingNests
<1>3. CASE n # 0
  <2>1. PICK f : Made(f, n, V, <<>>, turn)
    <3>1. <<>> \in V
      OBVIOUS
    <3>2. turn \in [1..n -> [V -> V]]
      <4>1. \A i \in 1..n, v \in V : v \o seqs[i] \in V
        BY ConcatProperties
      <4>2. QED BY <4>1
    <3> HIDE DEF turn, V
    <3>3. QED BY <3>1, <3>2, StepByStep
  <2>2. f \in [0..n -> V] /\ f[0] = <<>> /\ \A i \in 1..n : f[i] = f[i - 1] \o seqs[i]
    <3>1. \A i \in 1..n : i - 1 \in 0..n
      OBVIOUS
    <3>2. f \in [0..n -> V] /\ f[0] = <<>> /\ \A i \in 1..n : f[i] = turn[i][f[i - 1]]
      <4> HIDE DEF turn, V
      <4>1. QED BY <2>1 DEF Made
    <3>3. QED BY <3>1, <3>2
  <2>3. 1 \in 1..n /\ f[1] = seqs[1]
    <3>1. 1 \in 1..n /\ 1 - 1 = 0
      BY <1>3
    <3>2. f[1] = <<>> \o seqs[1]
      BY <2>2, <3>1
    <3>3. QED BY <3>1, <3>2, ConcatEmptySeq
  <2>4. F([i \in 1..n |-> f[i]])
    <3>1. \A i \in 1..n : i # 1 => i - 1 \in 1..n
      OBVIOUS
    <3> HIDE DEF V, turn
    <3>2. QED BY <1>1, <2>2, <2>3, <3>1
  <2>5. PICK g : F(g) /\ Interface!FlattenSeq(seqs) = g[n]
    <3>1. Len(seqs) # 0
      BY <1>1, <1>3
    <3>2. \E g : F(g)
      BY <2>4
    <3>3. PICK g : F(g) /\ Interface!FlattenSeq(seqs) = g[Len(seqs)]
      BY <3>1, <3>2 DEF Interface!FlattenSeq
    <3>4. QED BY <1>1, <3>3
  <2>6. g[1] = seqs[1] /\ \A i \in 1..n : i # 1 => g[i] = g[i - 1] \o seqs[i]
    <3> HIDE DEF V, turn
    <3>1. g = [i \in 1..n |-> IF i = 1 THEN seqs[i] ELSE g[i - 1] \o seqs[i]]
      BY <1>1, <2>5
    <3>2. QED BY <2>3, <3>1
  <2> DEFINE T == {k \in 0..(n - 1) : Nests(g[k + 1])}
  <2> HIDE DEF F, V, turn
  <2>7. 0 \in T
    BY <1>3, <2>3, <2>6
  <2>8. ASSUME NEW k \in 0..((n - 1) - 1), k \in T PROVE k + 1 \in T
    <3>1. /\ k + 2 \in 1..n /\ k + 2 # 1 /\ (k + 2) - 1 = k + 1
          /\ k + 1 \in 0..(n - 1) /\ (k + 1) + 1 = k + 2
      OBVIOUS
    <3>2. Nests(g[k + 1])
      BY <2>8
    <3> HIDE DEF T
    <3>3. g[k + 2] = g[k + 1] \o seqs[k + 2]
      BY <2>6, <3>1
    <3>4. Nests(g[k + 2])
      BY <3>1, <3>2, <3>3, BothNest
    <3>5. QED BY <3>1, <3>4 DEF T
  <2>9. n - 1 \in Nat /\ n - 1 \in 0..(n - 1) /\ (n - 1) + 1 = n
    BY <1>3
  <2>10. 0..(n - 1) \subseteq T
    <3> HIDE DEF T
    <3>1. QED BY <2>7, <2>8, <2>9, UpToAll
  <2>11. Nests(g[n])
    BY <2>9, <2>10
  <2>12. QED BY <2>5, <2>11
<1>4. QED BY <1>2, <1>3

\* What is printed for each operation, one behind the other.
Repeated(calls) == Interface!FlattenSeq([i \in DOMAIN node.ops |-> calls])

LEMMA RepeatedNests ==
  ASSUME NEW calls, Nests(calls), NEW n \in Nat, DOMAIN node.ops = 1..n
  PROVE  Nests(Repeated(calls))
<1>1. calls \in Seq(PrintCalls)
  <2>1. <<>> \in Seq(Closers)
    OBVIOUS
  <2>2. QED BY <2>1 DEF Nests, Leads
<1> DEFINE seqs == [i \in 1..n |-> calls]
<1>2. seqs \in [1..n -> Seq(PrintCalls)] /\ \A i \in 1..n : Nests(seqs[i])
  BY <1>1
<1>3. Repeated(calls) = Interface!FlattenSeq(seqs)
  BY DEF Repeated
<1> HIDE DEF seqs
<1>4. QED BY <1>2, <1>3, FlatNests

\* The body of each function is nested, so all that genif.py prints is.
LEMMA PrintedNests ==
  ASSUME NEW n \in Nat, DOMAIN node.ops = 1..n, NULL \notin Closers
  PROVE  Nests(Interface!Printed)
<1> DEFINE Fn(body) == Interface!Open("fn", "}") \o body \o Interface!Close("}")
<1>1. "}" \in Closers /\ "};" \in Closers
  BY DEF Closers
<1>2. /\ "struct" \in Printable /\ "fn" \in Printable /\ "return switch" \in Printable
      /\ "prong" \in Printable /\ "return impl" \in Printable
      /\ "return send_value" \in Printable /\ "member" \in Printable
      /\ "_ArgVals" \in Printable /\ "_RetVals" \in Printable
      /\ "_dispatch_impls" \in Printable /\ "_port_id" \in Printable
  BY DEF Printable
<1>3. ASSUME NEW body, Nests(body)
      PROVE  Nests(Repeated(body))
  BY <1>3, RepeatedNests
<1>4. ASSUME NEW body, Nests(body)
      PROVE  Nests(Fn(body))
  BY <1>1, <1>2, <1>4, ScopeNests
<1>5. Nests(Interface!gen_syscall)
  <2>1. Nests(Repeated(Fn(<<>>)))
    <3> HIDE DEF Fn
    <3>1. QED BY <1>3, <1>4, NothingNests
  <2>2. QED
    BY <2>1
    DEF Interface!gen_syscall, Interface!EachOp, Repeated, Interface!function,
        Interface!open_function, Interface!close_block
<1> DEFINE prongs == Repeated(Interface!Line("prong"))
           members == Repeated(Interface!Line("member"))
           dispatchers == Repeated(Fn(Interface!Line("return impl")))
           senders == Repeated(Fn(Interface!Line("return send_value")))
<1>6. Nests(prongs) /\ Nests(members) /\ Nests(dispatchers) /\ Nests(senders)
  <2>1. /\ Nests(Interface!Line("prong")) /\ Nests(Interface!Line("member"))
        /\ Nests(Interface!Line("return impl")) /\ Nests(Interface!Line("return send_value"))
    BY <1>2, LineNests
  <2> HIDE DEF Fn
  <2>2. Nests(Fn(Interface!Line("return impl"))) /\ Nests(Fn(Interface!Line("return send_value")))
    BY <1>4, <2>1
  <2>3. QED BY <1>3, <2>1, <2>2
<1>7. Nests(Interface!RecvValue)
  <2> HIDE DEF prongs
  <2> DEFINE c1 == Interface!Open("fn", "}")
             c2 == c1 \o Interface!Open("return switch", "};")
             c3 == c2 \o prongs
             c4 == c3 \o Interface!Close("};")
             c5 == c4 \o Interface!Close("}")
  <2>1. ASSUME NEW due \in Seq(Closers) PROVE Leads(c5, due, due)
    <3> DEFINE inner == <<"}">> \o due
    <3>1. inner \in Seq(Closers)
      <4>1. PICK c \in Closers : c = "}"
        BY <1>1
      <4>2. <<c>> \o due \in Seq(Closers)
        OBVIOUS
      <4>3. QED BY <4>1, <4>2
    <3>2. Leads(c1, due, inner)
      <4>1. Leads(<<>> \o c1, due, inner)
        BY <1>1, <1>2, OpenLeads, NothingNests DEF Nests
      <4>2. <<>> \o c1 = c1
        BY DEF Interface!Open
      <4>3. QED BY <4>1, <4>2
    <3> HIDE DEF c1, inner
    <3>3. Leads(c2, due, <<"};">> \o inner)
      BY <1>1, <1>2, <3>2, OpenLeads
    <3> HIDE DEF c2
    <3>4. Leads(c3, due, <<"};">> \o inner)
      BY <1>6, <3>3, NestedLeads
    <3> HIDE DEF c3
    <3>5. Leads(c4, due, inner)
      BY <1>1, <3>1, <3>4, CloseLeads
    <3> HIDE DEF c4
    <3>6. QED BY <1>1, <3>5, CloseLeads DEF inner
  <2>2. Interface!RecvValue = c5
    BY DEF prongs, Repeated, Interface!RecvValue, Interface!EachOp, Interface!open_function,
        Interface!close_scope, Interface!close_block
  <2> HIDE DEF c5
  <2>3. QED BY <2>1, <2>2 DEF Nests
<1>8. Nests(Interface!gen_dispatch)
  <2> HIDE DEF members, dispatchers, senders
  <2> DEFINE c1 == dispatchers \o Interface!Open("_ArgVals", "};")
             c2 == c1 \o members
             c3 == c2 \o Interface!Close("};")
             c4 == c3 \o Interface!Open("_RetVals", "};")
             c5 == c4 \o members
             c6 == c5 \o Interface!Close("};")
             c7 == c6 \o Interface!Open("_dispatch_impls", "};")
             c8 == c7 \o senders
             c9 == c8 \o Interface!Close("};")
             c10 == c9 \o Interface!RecvValue
             c11 == c10 \o Interface!Line("_port_id")
             c12 == c11 \o members
  <2>1. ASSUME NEW due \in Seq(Closers) PROVE Leads(c12, due, due)
    <3>1. Leads(dispatchers, due, due)
      BY <1>6 DEF Nests
    <3>2. Leads(c3, due, due)
      <4>1. Leads(c1, due, <<"};">> \o due)
        BY <1>1, <1>2, <3>1, OpenLeads
      <4> HIDE DEF c1
      <4>2. Leads(c2, due, <<"};">> \o due)
        BY <1>6, <4>1, NestedLeads
      <4> HIDE DEF c2
      <4>3. QED BY <1>1, <4>2, CloseLeads
    <3> HIDE DEF c3
    <3>3. Leads(c6, due, due)
      <4>1. Leads(c4, due, <<"};">> \o due)
        BY <1>1, <1>2, <3>2, OpenLeads
      <4> HIDE DEF c4
      <4>2. Leads(c5, due, <<"};">> \o due)
        BY <1>6, <4>1, NestedLeads
      <4> HIDE DEF c5
      <4>3. QED BY <1>1, <4>2, CloseLeads
    <3> HIDE DEF c6
    <3>4. Leads(c9, due, due)
      <4>1. Leads(c7, due, <<"};">> \o due)
        BY <1>1, <1>2, <3>3, OpenLeads
      <4> HIDE DEF c7
      <4>2. Leads(c8, due, <<"};">> \o due)
        BY <1>6, <4>1, NestedLeads
      <4> HIDE DEF c8
      <4>3. QED BY <1>1, <4>2, CloseLeads
    <3> HIDE DEF c9
    <3>5. Leads(c10, due, due)
      BY <1>7, <3>4, NestedLeads
    <3> HIDE DEF c10
    <3>6. Leads(c11, due, due)
      BY <1>2, <3>5, LineNests, NestedLeads
    <3> HIDE DEF c11
    <3>7. QED BY <1>6, <3>6, NestedLeads
  <2>2. Interface!gen_dispatch = c12
    BY DEF members, dispatchers, senders, Repeated, Interface!gen_dispatch, Interface!EachOp,
        Interface!function, Interface!open_function, Interface!close_block,
        Interface!open_scope, Interface!close_scope
  <2> HIDE DEF c12
  <2>3. QED BY <2>1, <2>2 DEF Nests
<1> DEFINE body == IF "syscalls" \in node.annotations THEN Interface!gen_syscall
                   ELSE IF "virtual_dispatch" \in node.annotations THEN Interface!gen_dispatch
                   ELSE <<>>
<1>9. Nests(body)
  BY <1>5, <1>8, NothingNests
<1>10. Interface!Printed = Interface!Open("struct", "};") \o body \o Interface!Close("};")
  BY DEF Interface!Printed, Interface!open_scope, Interface!close_scope
<1> HIDE DEF body
<1>11. QED BY <1>1, <1>2, <1>9, <1>10, ScopeNests

\* The closers that are due, as ScopesNest looks for them in a file.
OpenIn(file) ==
  LET open[i \in 0..Len(file)] ==
        IF i = 0 THEN <<>>
        ELSE IF file[i].what = "close" THEN Tail(open[i - 1])
        ELSE IF file[i].closer # NULL THEN <<file[i].closer>> \o open[i - 1]
        ELSE open[i - 1]
  IN open

\* ScopesNest, of a file.
IsNested(file) ==
  /\ \A i \in DOMAIN file :
       IF file[i].what = "close"
       THEN /\ OpenIn(file)[i - 1] # <<>> /\ Head(OpenIn(file)[i - 1]) = file[i].closer
            /\ file[i].indent = Len(OpenIn(file)[i])
       ELSE file[i].indent = Len(OpenIn(file)[i - 1])
  /\ OpenIn(file)[Len(file)] = <<>>

LEMMA ScopesNestIsNested == ScopesNest <=> (zig_file # NULL => IsNested(zig_file))
BY DEF ScopesNest, Interface!ScopesNest, IsNested, OpenIn

\* How deep each line is, as print() counts it.
LevelsOf(calls) ==
  LET level[i \in 0..Len(calls)] ==
        IF i = 0 THEN 0 ELSE level[i - 1] + calls[i].indent_change
  IN level

LEMMA LayoutIndents ==
  ASSUME NEW calls
  PROVE  LET file == Interface!Layout(calls)
         IN /\ DOMAIN file = DOMAIN calls
            /\ \A i \in DOMAIN calls :
                 /\ file[i].what = calls[i].what /\ file[i].closer = calls[i].closer
                 /\ file[i].indent = IF calls[i].indent_change < 0 THEN LevelsOf(calls)[i]
                                     ELSE LevelsOf(calls)[i - 1]
BY DEF Interface!Layout, LevelsOf

\* The levels are the numbers of closers that are due.
LEMMA LevelsCountDue ==
  ASSUME NEW calls \in Seq(PrintCalls), NEW due, IsDue(due, calls), due[0] = <<>>
  PROVE  \A i \in 0..Len(calls) : LevelsOf(calls)[i] = Len(due[i])
<1> DEFINE n == Len(calls)
           F(f) == f = [i \in 0..n |-> IF i = 0 THEN 0 ELSE f[i - 1] + calls[i].indent_change]
           depth == [i \in 0..n |-> Len(due[i])]
<1>1. n \in Nat /\ \A i \in 1..n : i \in 0..n /\ i # 0 /\ i - 1 \in 0..n
  OBVIOUS
<1>2. ASSUME NEW i \in 1..n PROVE Len(due[i]) = Len(due[i - 1]) + calls[i].indent_change
  <2>1. due[i] \in Seq(Closers) /\ due[i - 1] \in Seq(Closers)
        /\ Follows(due[i - 1], calls[i], due[i])
    BY <1>1 DEF IsDue
  <2>2. PICK before \in Seq(Closers), after \in Seq(Closers), call \in PrintCalls :
          before = due[i - 1] /\ after = due[i] /\ call = calls[i] /\ Follows(before, call, after)
    BY <2>1
  <2>3. Len(after) = Len(before) + call.indent_change
    <3>1. CASE call.what = "close"
      <4>1. call.indent_change = -1 /\ before # <<>> /\ after = Tail(before)
        BY <2>2, <3>1 DEF Follows
      <4>2. Len(Tail(before)) = Len(before) - 1 /\ Len(before) \in Nat
        BY <4>1, HeadTailProperties, LenProperties
      <4>3. QED BY <4>1, <4>2
    <3>2. CASE call.what # "close" /\ call.closer # NULL
      <4>1. call.closer \in Closers
        BY <3>2 DEF PrintCalls
      <4>2. QED BY <2>2, <3>2, <4>1 DEF Follows
    <3>3. CASE call.what # "close" /\ call.closer = NULL
      BY <2>2, <3>3 DEF Follows
    <3>4. QED BY <3>1, <3>2, <3>3
  <2>4. QED BY <2>2, <2>3
<1>3. F(depth)
  <2> HIDE DEF n
  <2>1. \A i \in 0..n : i # 0 => i \in 1..n
    BY <1>1
  <2>2. Len(due[0]) = 0
    OBVIOUS
  <2>3. QED BY <1>1, <1>2, <2>1, <2>2
<1> HIDE DEF depth
<1>4. PICK level : F(level) /\ LevelsOf(calls) = level
  BY <1>3 DEF LevelsOf
<1>5. level[0] = depth[0]
  BY <1>1, <1>3, <1>4
<1>6. ASSUME NEW i \in 1..n, level[i - 1] = depth[i - 1] PROVE level[i] = depth[i]
  <2> HIDE DEF n
  <2>1. QED BY <1>1, <1>3, <1>4, <1>6
<1>7. \A i \in 0..n : level[i] = depth[i]
  <2> HIDE DEF n, F
  <2>1. \A i \in 1..n : level[i - 1] = depth[i - 1] => level[i] = depth[i]
    BY <1>6
  <2>2. n \in Nat
    BY <1>1
  <2>3. QED BY <1>5, <2>1, <2>2, SameSteps, ZenonT(60)
<1>8. QED BY <1>4, <1>7 DEF depth

\* What is due in a file is what was due when its lines were printed.
LEMMA OpenIsDue ==
  ASSUME NEW calls \in Seq(PrintCalls), NEW due, IsDue(due, calls), due[0] = <<>>,
         NULL \notin Closers,
         NEW file, Len(file) = Len(calls),
         \A i \in 1..Len(calls) : file[i].what = calls[i].what /\ file[i].closer = calls[i].closer
  PROVE  \A i \in 0..Len(calls) : OpenIn(file)[i] = due[i]
<1> DEFINE n == Len(calls)
           F(f) == f = [i \in 0..Len(file) |->
                          IF i = 0 THEN <<>>
                          ELSE IF file[i].what = "close" THEN Tail(f[i - 1])
                          ELSE IF file[i].closer # NULL THEN <<file[i].closer>> \o f[i - 1]
                          ELSE f[i - 1]]
<1>1. n \in Nat /\ \A i \in 1..n : i \in 0..n /\ i # 0 /\ i - 1 \in 0..n
  OBVIOUS
<1>2. ASSUME NEW i \in 1..n
      PROVE  due[i] = IF file[i].what = "close" THEN Tail(due[i - 1])
                      ELSE IF file[i].closer # NULL THEN <<file[i].closer>> \o due[i - 1]
                      ELSE due[i - 1]
  <2>1. Follows(due[i - 1], calls[i], due[i])
    BY DEF IsDue
  <2>2. file[i].what = calls[i].what /\ file[i].closer = calls[i].closer
    OBVIOUS
  <2>3. CASE calls[i].what = "close"
    <3>1. due[i] = Tail(due[i - 1])
      BY <2>1, <2>3 DEF Follows
    <3>2. QED BY <2>2, <2>3, <3>1
  <2>4. CASE calls[i].what # "close" /\ calls[i].closer # NULL
    <3>1. due[i] = <<calls[i].closer>> \o due[i - 1]
      BY <2>1, <2>4 DEF Follows
    <3>2. QED BY <2>2, <2>4, <3>1
  <2>5. CASE calls[i].what # "close" /\ calls[i].closer = NULL
    <3>1. due[i] = due[i - 1]
      BY <2>1, <2>5 DEF Follows
    <3>2. QED BY <2>2, <2>5, <3>1
  <2>6. QED BY <2>3, <2>4, <2>5
<1>3. F(due)
  <2>1. due = [i \in 0..n |-> due[i]]
    BY DEF IsDue
  <2> HIDE DEF n
  <2>2. Len(file) = n /\ \A i \in 0..n : i # 0 => i \in 1..n
    BY <1>1 DEF n
  <2>3. QED BY <1>2, <2>1, <2>2
<1>4. PICK open : F(open) /\ OpenIn(file) = open
  BY <1>3 DEF OpenIn
<1>5. open[0] = due[0]
  BY <1>1, <1>3, <1>4
<1>6. ASSUME NEW i \in 1..n, open[i - 1] = due[i - 1] PROVE open[i] = due[i]
  <2>1. i \in 0..Len(file) /\ i # 0
    BY <1>1
  <2>2. open[i] = IF file[i].what = "close" THEN Tail(open[i - 1])
                  ELSE IF file[i].closer # NULL THEN <<file[i].closer>> \o open[i - 1]
                  ELSE open[i - 1]
    BY <1>4, <2>1
  <2> HIDE DEF n, F
  <2>3. QED BY <1>2, <1>6, <2>2
<1>7. \A i \in 0..n : open[i] = due[i]
  <2> HIDE DEF n, F
  <2>1. \A i \in 1..n : open[i - 1] = due[i - 1] => open[i] = due[i]
    BY <1>6
  <2>2. n \in Nat
    BY <1>1
  <2>3. QED BY <1>5, <2>1, <2>2, SameSteps, ZenonT(60)
<1>8. QED BY <1>4, <1>7

LEMMA LayoutIsNested ==
  ASSUME NEW calls, Nests(calls), NULL \notin Closers
  PROVE  IsNested(Interface!Layout(calls))
<1> DEFINE file == Interface!Layout(calls)
<1>1. PICK due : IsDue(due, calls) /\ due[0] = <<>> /\ due[Len(calls)] = <<>>
  <2>1. <<>> \in Seq(Closers)
    OBVIOUS
  <2>2. QED BY <2>1 DEF Nests, Leads
<1>2. calls \in Seq(PrintCalls)
  <2>1. <<>> \in Seq(Closers)
    OBVIOUS
  <2>2. QED BY <2>1 DEF Nests, Leads
<1> DEFINE n == Len(calls)
<1>3. n \in Nat /\ DOMAIN calls = 1..n
  BY <1>2
<1>4. /\ DOMAIN file = 1..n
      /\ \A i \in 1..n : /\ file[i].what = calls[i].what /\ file[i].closer = calls[i].closer
                        /\ file[i].indent = IF calls[i].indent_change < 0 THEN LevelsOf(calls)[i]
                                            ELSE LevelsOf(calls)[i - 1]
  <2> HIDE DEF n
  <2>1. QED BY <1>3, LayoutIndents
<1>5. Len(file) = n
  <2> HIDE DEF n, file
  <2>1. QED BY <1>3, <1>4
<1>6. \A i \in 0..n : LevelsOf(calls)[i] = Len(due[i])
  BY <1>1, <1>2, LevelsCountDue
<1>7. \A i \in 0..n : OpenIn(file)[i] = due[i]
  <2>1. \A i \in 1..n : file[i].what = calls[i].what /\ file[i].closer = calls[i].closer
    BY <1>4
  <2> HIDE DEF file
  <2>2. QED BY <1>1, <1>2, <1>5, <2>1, OpenIsDue
<1> HIDE DEF file
<1>8. ASSUME NEW i \in 1..n
      PROVE  IF file[i].what = "close"
             THEN /\ OpenIn(file)[i - 1] # <<>> /\ Head(OpenIn(file)[i - 1]) = file[i].closer
                  /\ file[i].indent = Len(OpenIn(file)[i])
             ELSE file[i].indent = Len(OpenIn(file)[i - 1])
  <2>1. Follows(due[i - 1], calls[i], due[i])
    BY <1>1 DEF IsDue
  <2>2. /\ OpenIn(file)[i - 1] = due[i - 1] /\ OpenIn(file)[i] = due[i]
        /\ LevelsOf(calls)[i - 1] = Len(due[i - 1]) /\ LevelsOf(calls)[i] = Len(due[i])
    <3> HIDE DEF n
    <3>1. i \in 0..n /\ i - 1 \in 0..n
      BY <1>3
    <3>2. QED BY <1>6, <1>7, <3>1
  <2>3. /\ file[i].what = calls[i].what /\ file[i].closer = calls[i].closer
        /\ file[i].indent = IF calls[i].indent_change < 0 THEN LevelsOf(calls)[i]
                            ELSE LevelsOf(calls)[i - 1]
    BY <1>4
  <2>4. CASE calls[i].what = "close"
    <3>1. calls[i].indent_change = -1 /\ due[i - 1] # <<>> /\ Head(due[i - 1]) = calls[i].closer
      BY <2>1, <2>4 DEF Follows
    <3>2. calls[i].indent_change < 0
      BY <3>1
    <3>3. QED BY <2>2, <2>3, <2>4, <3>1, <3>2
  <2>5. CASE calls[i].what # "close"
    <3>1. calls[i].indent_change \in {0, 1}
      BY <2>1, <2>5 DEF Follows
    <3>2. ~(calls[i].indent_change < 0)
      BY <3>1
    <3>3. QED BY <2>2, <2>3, <2>5, <3>2
  <2>6. QED BY <2>4, <2>5
<1>9. OpenIn(file)[n] = <<>>
  <2> HIDE DEF n
  <2>1. n \in 0..n
    BY <1>3
  <2>2. QED BY <1>1, <1>7, <2>1 DEF n
<1>10. QED BY <1>4, <1>5, <1>8, <1>9 DEF IsNested, file

\* Every interface that an IDL file may hold is printed nested, closed and indented.
THEOREM ScopesAlwaysNest == WorkstationSpec => []ScopesNest
<1> DEFINE NestInv == node \in Nodes \cup {NULL} /\ (zig_file # NULL => IsNested(zig_file))
<1>1. WorkstationInit => NestInv
  BY DEF WorkstationInit, Interface!Init
<1>2. NestInv /\ [WorkstationNext]_workstationVars => NestInv'
  <2> SUFFICES ASSUME NestInv, [WorkstationNext]_workstationVars PROVE NestInv'
    OBVIOUS
  <2>1. CASE UNCHANGED interfaceVars \/ Interface!EditInterface
    BY <2>1 DEF Interface!EditInterface, interfaceVars
  <2>2. CASE Interface!Generate
    <3>1. NULL \notin Closers
      BY InterfaceAssumption DEF Closers
    <3>2. node' = node /\ zig_file' = Interface!Layout(Interface!Printed) /\ node \in Nodes
      BY <2>2 DEF Interface!Generate
    <3>3. PICK n \in Nat : DOMAIN node.ops = 1..n
      <4>1. node.ops \in Seq(Range(node.ops))
        BY <3>2, InterfaceAssumption
      <4>2. DOMAIN node.ops = 1..Len(node.ops) /\ Len(node.ops) \in Nat
        BY <4>1, LenProperties
      <4>3. QED BY <4>2
    <3>4. IsNested(Interface!Layout(Interface!Printed))
      BY <3>1, <3>3, PrintedNests, LayoutIsNested
    <3>5. QED BY <3>2, <3>4
  <2>3. QED
    BY <2>1, <2>2
    DEF WorkstationNext, Building, ManagingZig, GeneratingCodePage, GeneratingInterface,
        ReadingBitmap, Interface!Next, interfaceVars, workstationVars, otherVars
<1>3. NestInv => ScopesNest
  BY ScopesNestIsNested
<1>4. QED BY <1>1, <1>2, <1>3, PTL DEF WorkstationSpec

-----------------------------------------------------------------------------
(* zig.py list *)

\* A field of a version.
Field == Seq(0..9)

LEMMA FieldsHaveDigits ==
  ASSUME NEW a \in Field
  PROVE  Len(a) \in Nat /\ \A i \in 1..Len(a) : a[i] \in 0..9 /\ a[i] \in Nat
BY DEF Field

\* What FieldLess finds at k.
LessAt(a, b, k) ==
  /\ k \in 1..Len(b) /\ k <= Len(a) + 1 /\ \A i \in 1..(k - 1) : a[i] = b[i]
  /\ k = Len(a) + 1 \/ a[k] < b[k]

LEMMA FieldsDiffer ==
  ASSUME NEW a \in Field, NEW b \in Field, a # b
  PROVE  \E k \in Nat : LessAt(a, b, k) \/ LessAt(b, a, k)
<1> DEFINE m == Len(a)
           n == Len(b)
           D == {k \in 1..m : k <= n /\ a[k] # b[k]}
<1>1. m \in Nat /\ n \in Nat /\ D \in SUBSET Nat
  BY DEF Field
<1>2. \A k \in 1..m : a[k] \in Nat
  BY DEF Field
<1>3. \A k \in 1..n : b[k] \in Nat
  BY DEF Field
<1>4. CASE D # {}
  <2>1. PICK k \in D : \A i \in D : k <= i
    <3> HIDE DEF D
    <3>1. QED BY <1>1, <1>4, LeastOne
  <2>2. k \in 1..m /\ k \in 1..n /\ a[k] # b[k]
    BY <1>1, <2>1
  <2>3. \A i \in 1..(k - 1) : a[i] = b[i]
    <3>1. \A i \in 1..(k - 1) : i \in 1..m /\ i <= n /\ ~(k <= i)
      BY <1>1, <2>2
    <3>2. QED BY <2>1, <3>1
  <2>4. a[k] < b[k] \/ b[k] < a[k]
    BY <1>2, <1>3, <2>2
  <2>5. k \in Nat /\ k <= m + 1 /\ k <= n + 1
    BY <1>1, <2>2
  <2> HIDE DEF D
  <2>6. QED BY <2>2, <2>3, <2>4, <2>5 DEF LessAt
<1>5. CASE D = {}
  <2>1. \A k \in 1..m : k <= n => a[k] = b[k]
    BY <1>5
  <2>2. m # n
    <3> SUFFICES ASSUME m = n PROVE FALSE
      OBVIOUS
    <3>1. \A k \in 1..m : a[k] = b[k]
      BY <1>1, <2>1
    <3>2. a \in Seq(0..9) /\ b \in Seq(0..9)
      BY DEF Field
    <3>3. a = b
      BY <3>1, <3>2, SeqEqual
    <3>4. QED BY <3>3
  <2>3. CASE m < n
    <3>1. m + 1 \in 1..n /\ m + 1 \in Nat /\ \A i \in 1..((m + 1) - 1) : i \in 1..m /\ i <= n
      BY <1>1, <2>3
    <3>2. LessAt(a, b, m + 1)
      BY <2>1, <3>1 DEF LessAt
    <3>3. QED BY <3>1, <3>2
  <2>4. CASE n < m
    <3>1. n + 1 \in 1..m /\ n + 1 \in Nat /\ \A i \in 1..((n + 1) - 1) : i \in 1..m /\ i <= n
      BY <1>1, <2>4
    <3>2. LessAt(b, a, n + 1)
      BY <2>1, <3>1 DEF LessAt
    <3>3. QED BY <3>1, <3>2
  <2>5. QED BY <1>1, <2>2, <2>3, <2>4
<1>6. QED BY <1>4, <1>5

LEMMA FieldLessIsAt ==
  ASSUME NEW a, NEW b
  PROVE  Zig!FieldLess(a, b) <=> \E k \in Nat : LessAt(a, b, k)
BY DEF Zig!FieldLess, LessAt

\* The strings of the fields are in a total order.
LEMMA FieldsAreOrdered ==
  /\ \A a \in Field : ~Zig!FieldLess(a, a)
  /\ \A a, b \in Field : a # b => Zig!FieldLess(a, b) \/ Zig!FieldLess(b, a)
  /\ \A a, b, c \in Field : Zig!FieldLess(a, b) /\ Zig!FieldLess(b, c) => Zig!FieldLess(a, c)
<1>1. ASSUME NEW a \in Field, NEW k \in Nat, LessAt(a, a, k) PROVE FALSE
  <2>1. Len(a) \in Nat /\ k \in 1..Len(a)
    BY <1>1 DEF LessAt, Field
  <2>2. a[k] \in Nat /\ k # Len(a) + 1
    BY <2>1 DEF Field
  <2>3. QED BY <1>1, <2>2 DEF LessAt
<1>2. ASSUME NEW a \in Field, NEW b \in Field, NEW c \in Field,
             NEW k \in Nat, NEW m \in Nat, LessAt(a, b, k), LessAt(b, c, m)
      PROVE  \E j \in Nat : LessAt(a, c, j)
  <2> DEFINE p == Len(a)
             q == Len(b)
             r == Len(c)
  <2>1. p \in Nat /\ q \in Nat /\ r \in Nat
    BY DEF Field
  <2>2. /\ k \in 1..q /\ k <= p + 1 /\ (\A i \in 1..(k - 1) : a[i] = b[i])
        /\ k = p + 1 \/ a[k] < b[k]
    BY <1>2 DEF LessAt
  <2>3. /\ m \in 1..r /\ m <= q + 1 /\ (\A i \in 1..(m - 1) : b[i] = c[i])
        /\ m = q + 1 \/ b[m] < c[m]
    BY <1>2 DEF LessAt
  <2>4. /\ \A i \in 1..p : a[i] \in Nat
        /\ \A i \in 1..q : b[i] \in Nat
        /\ \A i \in 1..r : c[i] \in Nat
    BY FieldsHaveDigits
  <2> HIDE DEF p, q, r
  <2>5. CASE k < m
    <3>1. k \in 1..r /\ k \in 1..(m - 1) /\ \A i \in 1..(k - 1) : i \in 1..(m - 1)
      BY <2>1, <2>2, <2>3, <2>5
    <3>2. \A i \in 1..(k - 1) : a[i] = c[i]
      BY <2>2, <2>3, <3>1
    <3>3. k = p + 1 \/ a[k] < c[k]
      BY <2>2, <2>3, <3>1
    <3>4. LessAt(a, c, k)
      BY <2>2, <3>1, <3>2, <3>3 DEF LessAt, p, r
    <3>5. QED BY <3>4
  <2>6. CASE m < k
    <3>1. m \in 1..q /\ m # q + 1 /\ m \in 1..(k - 1) /\ m <= p + 1 /\ m \in 1..p
          /\ \A i \in 1..(m - 1) : i \in 1..(k - 1)
      BY <2>1, <2>2, <2>3, <2>6
    <3>2. \A i \in 1..(m - 1) : a[i] = c[i]
      BY <2>2, <2>3, <3>1
    <3>3. a[m] < c[m]
      BY <2>2, <2>3, <3>1
    <3>4. LessAt(a, c, m)
      BY <2>3, <3>1, <3>2, <3>3 DEF LessAt, p, r
    <3>5. QED BY <3>4
  <2>7. CASE k = m
    <3>1. k # q + 1
      BY <2>1, <2>2
    <3>2. \A i \in 1..(k - 1) : a[i] = c[i]
      BY <2>2, <2>3, <2>7
    <3>3. k = p + 1 \/ a[k] < c[k]
      <4>1. CASE k # p + 1
        <5>1. k \in 1..p /\ k \in 1..q /\ k \in 1..r
          BY <2>1, <2>2, <2>3, <2>7, <4>1
        <5>2. a[k] < b[k] /\ b[k] < c[k]
          BY <2>2, <2>3, <2>7, <3>1, <4>1
        <5>3. QED BY <2>4, <5>1, <5>2
      <4>2. QED BY <4>1
    <3>4. LessAt(a, c, k)
      BY <2>2, <2>3, <2>7, <3>2, <3>3 DEF LessAt, p, r
    <3>5. QED BY <3>4
  <2>8. QED BY <2>5, <2>6, <2>7
<1>3. \A a \in Field : ~Zig!FieldLess(a, a)
  BY <1>1, FieldLessIsAt
<1>4. \A a, b \in Field : a # b => Zig!FieldLess(a, b) \/ Zig!FieldLess(b, a)
  BY FieldsDiffer, FieldLessIsAt
<1>5. \A a, b, c \in Field : Zig!FieldLess(a, b) /\ Zig!FieldLess(b, c) => Zig!FieldLess(a, c)
  BY <1>2, FieldLessIsAt
<1>6. QED BY <1>3, <1>4, <1>5

\* Number, of the first digits.
ReadTo(field) ==
  LET read[i \in 0..Len(field)] == IF i = 0 THEN 0 ELSE 10 * read[i - 1] + field[i]
  IN read

LEMMA DigitsAreRead ==
  ASSUME NEW a \in Field
  PROVE  /\ ReadTo(a)[0] = 0 /\ Zig!Number(a) = ReadTo(a)[Len(a)]
         /\ \A i \in 1..Len(a) : /\ ReadTo(a)[i - 1] \in Nat
                               /\ ReadTo(a)[i] = 10 * ReadTo(a)[i - 1] + a[i]
<1> DEFINE n == Len(a)
           turn == [i \in 1..n |-> [x \in Nat |-> 10 * x + a[i]]]
           F(f) == f = [i \in 0..n |-> IF i = 0 THEN 0 ELSE 10 * f[i - 1] + a[i]]
<1>1. n \in Nat /\ \A i \in 1..n : a[i] \in Nat
  BY FieldsHaveDigits
<1>2. turn \in [1..n -> [Nat -> Nat]]
  <2> HIDE DEF n
  <2>1. \A i \in 1..n, x \in Nat : 10 * x + a[i] \in Nat
    BY <1>1
  <2>2. QED BY <2>1
<1>3. PICK f : Made(f, n, Nat, 0, turn)
  <2> HIDE DEF n, turn
  <2>1. 0 \in Nat
    OBVIOUS
  <2>2. QED BY <1>1, <1>2, <2>1, StepByStep
<1>4. f \in [0..n -> Nat] /\ f[0] = 0 /\ \A i \in 1..n : f[i] = 10 * f[i - 1] + a[i]
  <2>1. f \in [0..n -> Nat] /\ f[0] = 0 /\ \A i \in 1..n : f[i] = turn[i][f[i - 1]]
    <3> HIDE DEF n, turn
    <3>1. QED BY <1>3 DEF Made
  <2>2. \A i \in 1..n : f[i - 1] \in Nat
    <3> HIDE DEF n, turn
    <3>1. \A i \in 1..n : i - 1 \in 0..n
      BY <1>1
    <3>2. QED BY <2>1, <3>1
  <2>3. QED BY <2>1, <2>2
<1>5. F(f)
  <2> HIDE DEF n
  <2>1. \A i \in 0..n : i # 0 => i \in 1..n
    BY <1>1
  <2>2. QED BY <1>4, <2>1
<1>6. PICK g : F(g) /\ ReadTo(a) = g
  BY <1>5 DEF ReadTo
<1>7. Zig!Number(a) = ReadTo(a)[n]
  BY DEF Zig!Number, ReadTo
<1>8. g[0] = 0 /\ \A i \in 1..n : g[i] = 10 * g[i - 1] + a[i]
  <2> HIDE DEF n
  <2>1. \A i \in 1..n : i \in 0..n /\ i # 0
    BY <1>1
  <2>2. QED BY <1>1, <1>6, <2>1
<1> DEFINE T == {i \in 0..n : g[i] \in Nat}
<1>9. 0..n \subseteq T
  <2> HIDE DEF n, F
  <2>1. 0 \in T
    BY <1>1, <1>8
  <2>2. ASSUME NEW i \in 0..(n - 1), i \in T PROVE i + 1 \in T
    <3>1. i + 1 \in 1..n /\ i + 1 \in 0..n /\ (i + 1) - 1 = i
      BY <1>1
    <3>2. g[i + 1] = 10 * g[i] + a[i + 1] /\ g[i] \in Nat /\ a[i + 1] \in Nat
      BY <1>1, <1>8, <2>2, <3>1
    <3>3. QED BY <3>1, <3>2
  <2> HIDE DEF T
  <2>3. QED BY <1>1, <2>1, <2>2, UpToAll
<1>10. \A i \in 1..n : g[i - 1] \in Nat
  <2> HIDE DEF n, F
  <2>1. \A i \in 1..n : i - 1 \in 0..n
    BY <1>1
  <2>2. QED BY <1>9, <2>1
<1>11. QED BY <1>6, <1>7, <1>8, <1>10

LEMMA TenTimesMore ==
  ASSUME NEW x \in Nat, NEW y \in Nat, x < y, NEW d \in 0..9, NEW e \in 0..9
  PROVE  10 * x + d < 10 * y + e
OBVIOUS

\* With as many digits the string that is less is the number that is less.
LEMMA LessIsSmaller ==
  ASSUME NEW a \in Field, NEW b \in Field, Len(a) = Len(b), Zig!FieldLess(a, b)
  PROVE  Zig!Number(a) < Zig!Number(b)
<1> DEFINE n == Len(a)
           f == ReadTo(a)
           g == ReadTo(b)
<1>1. /\ n \in Nat /\ \A i \in 1..n : a[i] \in 0..9 /\ b[i] \in 0..9
  BY FieldsHaveDigits
<1>2. PICK k \in Nat : LessAt(a, b, k)
  BY FieldLessIsAt
<1>3. k \in 1..n /\ (\A i \in 1..(k - 1) : a[i] = b[i]) /\ a[k] < b[k]
  BY <1>1, <1>2 DEF LessAt
<1>4. /\ f[0] = 0 /\ Zig!Number(a) = f[n]
      /\ \A i \in 1..n : f[i - 1] \in Nat /\ f[i] = 10 * f[i - 1] + a[i]
      /\ g[0] = 0 /\ Zig!Number(b) = g[n]
      /\ \A i \in 1..n : g[i - 1] \in Nat /\ g[i] = 10 * g[i - 1] + b[i]
  BY DigitsAreRead
<1> HIDE DEF n, f, g
<1>5. \A i \in 0..(k - 1) : f[i] = g[i]
  <2>1. k - 1 \in Nat /\ \A i \in 1..(k - 1) : i \in 1..n
    BY <1>1, <1>3
  <2>2. \A i \in 1..(k - 1) : f[i - 1] = g[i - 1] => f[i] = g[i]
    BY <1>3, <1>4, <2>1
  <2>3. f[0] = g[0]
    BY <1>4
  <2>4. k - 1 \in Nat
    BY <2>1
  <2>5. QED BY <2>2, <2>3, <2>4, SameSteps, ZenonT(60)
<1>6. f[k] < g[k]
  <2>1. k \in 1..n /\ k - 1 \in 0..(k - 1) /\ f[k - 1] = g[k - 1]
    BY <1>3, <1>5
  <2>2. f[k] = 10 * f[k - 1] + a[k] /\ g[k] = 10 * g[k - 1] + b[k] /\ f[k - 1] \in Nat
    BY <1>4, <2>1
  <2>3. a[k] \in 0..9 /\ b[k] \in 0..9
    BY <1>1, <2>1
  <2>4. PICK x \in Nat, d \in 0..9, e \in 0..9 : x = f[k - 1] /\ d = a[k] /\ e = b[k]
    BY <2>2, <2>3
  <2>5. f[k] = 10 * x + d /\ g[k] = 10 * x + e /\ d < e
    BY <1>3, <2>1, <2>2, <2>4
  <2>6. QED BY <2>5
<1> DEFINE T == {i \in 0..(n - k) : f[k + i] < g[k + i]}
<1>7. n - k \in Nat /\ n - k \in 0..(n - k) /\ k + (n - k) = n
  BY <1>1, <1>3
<1>8. 0 \in T
  BY <1>6, <1>7
<1>9. ASSUME NEW i \in 0..((n - k) - 1), i \in T PROVE i + 1 \in T
  <2>1. /\ i + 1 \in 0..(n - k) /\ k + (i + 1) \in 1..n /\ (k + (i + 1)) - 1 = k + i
    BY <1>1, <1>3
  <2>2. f[k + i] < g[k + i]
    BY <1>9
  <2>3. /\ f[k + i] \in Nat /\ f[k + (i + 1)] = 10 * f[k + i] + a[k + (i + 1)]
        /\ g[k + i] \in Nat /\ g[k + (i + 1)] = 10 * g[k + i] + b[k + (i + 1)]
        /\ a[k + (i + 1)] \in 0..9 /\ b[k + (i + 1)] \in 0..9
    BY <1>1, <1>4, <2>1
  <2>4. f[k + (i + 1)] < g[k + (i + 1)]
    BY <2>2, <2>3, TenTimesMore, Zenon
  <2>5. QED BY <2>1, <2>4
<1>10. 0..(n - k) \subseteq T
  <2> HIDE DEF T
  <2>1. QED BY <1>7, <1>8, <1>9, UpToAll
<1>11. f[n] < g[n]
  BY <1>7, <1>10
<1>12. QED BY <1>4, <1>11

\* No dev number comes after all of them.
PartLess(x, y) == x # NULL /\ (y = NULL \/ Zig!FieldLess(x, y))

Parts == Field \cup {NULL}

LEMMA PartsAreOrdered ==
  ASSUME NULL \notin Field
  PROVE  /\ \A x \in Parts : ~PartLess(x, x)
         /\ \A x, y \in Parts : x # y => PartLess(x, y) \/ PartLess(y, x)
         /\ \A x, y, z \in Parts : PartLess(x, y) /\ PartLess(y, z) => PartLess(x, z)
<1>1. \A x \in Parts : ~PartLess(x, x)
  BY FieldsAreOrdered DEF PartLess, Parts
<1>2. \A x, y \in Parts : x # y => PartLess(x, y) \/ PartLess(y, x)
  BY FieldsAreOrdered DEF PartLess, Parts
<1>3. ASSUME NEW x \in Parts, NEW y \in Parts, NEW z \in Parts, PartLess(x, y), PartLess(y, z)
      PROVE  PartLess(x, z)
  <2>1. x \in Field /\ y \in Field /\ Zig!FieldLess(x, y)
    BY <1>3 DEF PartLess, Parts
  <2>2. CASE z = NULL
    BY <2>1, <2>2 DEF PartLess
  <2>3. CASE z # NULL
    <3>1. z \in Field /\ Zig!FieldLess(y, z)
      BY <1>3, <2>3 DEF PartLess, Parts
    <3>2. Zig!FieldLess(x, z)
      BY <2>1, <3>1, FieldsAreOrdered
    <3>3. QED BY <2>1, <3>2 DEF PartLess
  <2>4. QED BY <2>2, <2>3
<1>4. QED BY <1>1, <1>2, <1>3

\* Zig.__lt__() finds the first part that differs.
LEMMA LessAtFirst ==
  ASSUME NEW v \in Version, NEW w \in Version
  PROVE  Zig!Less(v, w) <=>
           \E i \in 1..4 : PartLess(v[i], w[i]) /\ \A k \in 1..(i - 1) : v[k] = w[k]
<1> DEFINE D == Zig!Differing(v, w)
<1>1. /\ \A i \in 1..3 : v[i] \in Field /\ w[i] \in Field
      /\ v[4] \in Parts /\ w[4] \in Parts /\ NULL \notin Field
  BY ZigAssumption DEF Field, Parts
<1>2. CASE D # {}
  <2>1. PICK m \in D : \A i \in D : m <= i
    <3>1. D \in SUBSET Nat
      BY DEF Zig!Differing
    <3> HIDE DEF D
    <3>2. QED BY <1>2, <3>1, LeastOne
  <2>2. m \in 1..3 /\ v[m] # w[m] /\ \A i \in 1..(m - 1) : v[i] = w[i]
    <3>1. m \in 1..3 /\ v[m] # w[m]
      BY <2>1 DEF Zig!Differing
    <3>2. \A i \in 1..(m - 1) : i \in 1..3 /\ ~(m <= i)
      BY <3>1
    <3>3. QED BY <2>1, <3>1, <3>2 DEF Zig!Differing
  <2>3. Zig!Min(D) = m
    <3>1. \A x \in D : x \in Nat
      BY DEF Zig!Differing
    <3> HIDE DEF D
    <3>2. \E x \in D : \A y \in D : x <= y
      BY <2>1
    <3>3. Zig!Min(D) \in D /\ \A y \in D : Zig!Min(D) <= y
      BY <3>2 DEF Zig!Min
    <3>4. QED BY <2>1, <3>1, <3>3
  <2>4. Zig!Less(v, w) <=> Zig!FieldLess(v[m], w[m])
    BY <1>2, <2>3 DEF Zig!Less
  <2>5. PartLess(v[m], w[m]) <=> Zig!FieldLess(v[m], w[m])
    BY <1>1, <2>2 DEF PartLess
  <2>6. ASSUME NEW i \in 1..4, PartLess(v[i], w[i]), \A k \in 1..(i - 1) : v[k] = w[k]
        PROVE  i = m
    <3>1. ~(m < i)
      <4>1. m < i => m \in 1..(i - 1)
        BY <2>2
      <4>2. QED BY <2>2, <2>6, <4>1
    <3>2. ~(i < m)
      <4> SUFFICES ASSUME i < m PROVE FALSE
        OBVIOUS
      <4>1. i \in 1..(m - 1) /\ i \in 1..3
        BY <2>2
      <4>2. v[i] = w[i] /\ v[i] \in Parts
        BY <1>1, <2>2, <4>1 DEF Parts
      <4>3. ~PartLess(v[i], v[i])
        BY <1>1, <4>2, PartsAreOrdered
      <4>4. QED BY <2>6, <4>2, <4>3
    <3>3. QED BY <2>2, <3>1, <3>2
  <2>7. m \in 1..4
    BY <2>2
  <2>8. QED BY <2>2, <2>4, <2>5, <2>6, <2>7
<1>3. CASE D = {}
  <2>1. \A i \in 1..3 : v[i] = w[i]
    BY <1>3 DEF Zig!Differing
  <2>2. Zig!Less(v, w) <=> PartLess(v[4], w[4])
    BY <1>3 DEF Zig!Less, PartLess
  <2>3. \A i \in 1..4 : i = 4 \/ i \in 1..3
    OBVIOUS
  <2>4. \A i \in 1..3 : ~PartLess(v[i], w[i])
    BY <1>1, <2>1, PartsAreOrdered DEF Parts
  <2>5. \A k \in 1..(4 - 1) : v[k] = w[k]
    BY <2>1
  <2>6. 4 \in 1..4
    OBVIOUS
  <2>7. QED BY <2>2, <2>3, <2>4, <2>5, <2>6
<1>4. QED BY <1>2, <1>3

\* So the versions are in a total order.
LEMMA VersionsAreOrdered ==
  /\ \A v \in Version : ~Zig!Less(v, v)
  /\ \A v, w \in Version : v # w => Zig!Less(v, w) \/ Zig!Less(w, v)
  /\ \A u, v, w \in Version : Zig!Less(u, v) /\ Zig!Less(v, w) => Zig!Less(u, w)
<1>1. NULL \notin Field /\ \A v \in Version : v \in [1..4 -> Parts]
  BY ZigAssumption DEF Field, Parts
<1>2. ASSUME NEW v \in Version PROVE ~Zig!Less(v, v)
  BY <1>1, LessAtFirst, PartsAreOrdered
<1>3. ASSUME NEW v \in Version, NEW w \in Version, v # w
      PROVE  Zig!Less(v, w) \/ Zig!Less(w, v)
  <2> DEFINE D == {i \in 1..4 : v[i] # w[i]}
  <2>1. D # {} /\ D \in SUBSET Nat
    BY <1>1, <1>3
  <2>2. PICK m \in D : \A i \in D : m <= i
    <3> HIDE DEF D
    <3>1. QED BY <2>1, LeastOne
  <2>3. m \in 1..4 /\ v[m] # w[m] /\ \A i \in 1..(m - 1) : v[i] = w[i]
    <3>1. m \in 1..4 /\ v[m] # w[m]
      BY <2>2
    <3>2. \A i \in 1..(m - 1) : i \in 1..4 /\ ~(m <= i)
      BY <3>1
    <3>3. QED BY <2>2, <3>1, <3>2
  <2>4. PartLess(v[m], w[m]) \/ PartLess(w[m], v[m])
    BY <1>1, <2>3, PartsAreOrdered
  <2>5. QED BY <2>3, <2>4, LessAtFirst
<1>4. ASSUME NEW u \in Version, NEW v \in Version, NEW w \in Version,
             Zig!Less(u, v), Zig!Less(v, w)
      PROVE  Zig!Less(u, w)
  <2>1. PICK i \in 1..4 : PartLess(u[i], v[i]) /\ \A k \in 1..(i - 1) : u[k] = v[k]
    BY <1>4, LessAtFirst
  <2>2. PICK j \in 1..4 : PartLess(v[j], w[j]) /\ \A k \in 1..(j - 1) : v[k] = w[k]
    BY <1>4, LessAtFirst
  <2>3. CASE i < j
    <3>1. i \in 1..(j - 1) /\ \A k \in 1..(i - 1) : k \in 1..(j - 1)
      BY <2>3
    <3>2. PartLess(u[i], w[i]) /\ \A k \in 1..(i - 1) : u[k] = w[k]
      BY <2>1, <2>2, <3>1
    <3>3. QED BY <3>2, LessAtFirst
  <2>4. CASE j < i
    <3>1. j \in 1..(i - 1) /\ \A k \in 1..(j - 1) : k \in 1..(i - 1)
      BY <2>4
    <3>2. PartLess(u[j], w[j]) /\ \A k \in 1..(j - 1) : u[k] = w[k]
      BY <2>1, <2>2, <3>1
    <3>3. QED BY <3>2, LessAtFirst
  <2>5. CASE i = j
    <3>1. PartLess(u[i], w[i])
      <4>1. u[i] \in Parts /\ v[i] \in Parts /\ w[i] \in Parts
        BY <1>1
      <4>2. QED BY <1>1, <2>1, <2>2, <2>5, <4>1, PartsAreOrdered
    <3>2. \A k \in 1..(i - 1) : u[k] = w[k]
      BY <2>1, <2>2, <2>5
    <3>3. QED BY <3>1, <3>2, LessAtFirst
  <2>6. QED BY <2>3, <2>4, <2>5
<1>5. QED BY <1>2, <1>3, <1>4

\* The one that is less, of two with as many digits, is the older.
LEMMA LessIsOlder ==
  ASSUME NEW v \in Version, NEW w \in Version, Zig!Less(w, v), Zig!SameWidths(v, w)
  PROVE  Zig!Newer(v, w)
<1>1. PICK i \in 1..4 : PartLess(w[i], v[i]) /\ \A k \in 1..(i - 1) : w[k] = v[k]
  BY LessAtFirst
<1>2. /\ \A k \in 1..3 : v[k] \in Field /\ w[k] \in Field /\ v[k] # NULL /\ w[k] # NULL
      /\ v[4] \in Parts /\ w[4] \in Parts /\ NULL \notin Field
  BY ZigAssumption DEF Field, Parts
<1>3. \A k \in 1..(i - 1) : Zig!Number(v[k]) = Zig!Number(w[k])
  BY <1>1
<1>4. ASSUME v[i] # NULL
      PROVE  Zig!Number(w[i]) < Zig!Number(v[i])
  <2>1. w[i] # NULL /\ Zig!FieldLess(w[i], v[i])
    BY <1>1, <1>4 DEF PartLess
  <2>2. Len(w[i]) = Len(v[i])
    BY <1>4, <2>1 DEF Zig!SameWidths
  <2>3. w[i] \in Field /\ v[i] \in Field
    BY <1>2, <1>4, <2>1 DEF Parts
  <2>4. QED BY <2>1, <2>2, <2>3, LessIsSmaller
<1>5. CASE i \in 1..3
  <2>1. Zig!Number(v[i]) > Zig!Number(w[i])
    BY <1>2, <1>4, <1>5
  <2>2. QED BY <1>3, <1>5, <2>1 DEF Zig!Newer
<1>6. CASE i = 4
  <2>1. \A k \in 1..3 : Zig!Number(v[k]) = Zig!Number(w[k])
    BY <1>3, <1>6
  <2>2. w[4] # NULL
    BY <1>1, <1>6 DEF PartLess
  <2>3. v[4] = NULL \/ Zig!Number(v[4]) > Zig!Number(w[4])
    BY <1>4, <1>6
  <2>4. QED BY <2>1, <2>2, <2>3 DEF Zig!Newer
<1>7. QED BY <1>5, <1>6

\* As Cardinality is the same here as there.
LEMMA CardinalityOfZigs == \A S : Zig!Cardinality(S) = Cardinality(S)
BY DEF Zig!Cardinality, Cardinality

\* What is ordered by a relation can be listed from the greatest down, as it is
\* by how many are greater.
LEMMA CanBeListed ==
  ASSUME NEW S, IsFiniteSet(S), NEW R,
         \A x \in S : <<x, x>> \notin R,
         \A x, y \in S : x # y => <<x, y>> \in R \/ <<y, x>> \in R,
         \A x, y, z \in S : <<x, y>> \in R /\ <<y, z>> \in R => <<x, z>> \in R
  PROVE  \E list \in [1..Cardinality(S) -> S] :
           \A i, k \in 1..Cardinality(S) : i < k => <<list[k], list[i]>> \in R
<1> DEFINE n == Cardinality(S)
           Above(x) == {y \in S : <<x, y>> \in R}
           Place(x) == Cardinality(Above(x)) + 1
<1>1. n \in Nat
  BY FS_CardinalityType
<1>2. ASSUME NEW x \in S PROVE Place(x) \in 1..n
  <2>1. Above(x) \in SUBSET S /\ x \notin Above(x)
    OBVIOUS
  <2> DEFINE A == Above(x)
  <2>2. IsFiniteSet(A) /\ Cardinality(A) <= n /\ Cardinality(A) # n /\ Cardinality(A) \in Nat
    <3>1. A \in SUBSET S /\ A # S
      BY <2>1
    <3> HIDE DEF A
    <3>2. QED BY <3>1, FS_Subset, FS_CardinalityType
  <2> HIDE DEF A, n
  <2>3. Cardinality(A) + 1 \in 1..n
    BY <1>1, <2>2
  <2>4. QED BY <2>3 DEF A
<1>3. ASSUME NEW x \in S, NEW y \in S, <<x, y>> \in R PROVE Place(y) < Place(x)
  <2> DEFINE A == Above(x)
             B == Above(y)
  <2>1. B \in SUBSET A /\ B # A /\ A \in SUBSET S
    <3>1. y \in A /\ y \notin B
      BY <1>3
    <3>2. \A z \in B : z \in A
      BY <1>3
    <3>3. QED BY <3>1, <3>2
  <2>2. Cardinality(B) \in Nat /\ Cardinality(A) \in Nat /\ Cardinality(B) <= Cardinality(A)
        /\ Cardinality(B) # Cardinality(A)
    <3> HIDE DEF A, B
    <3>1. IsFiniteSet(A)
      BY <2>1, FS_Subset
    <3>2. IsFiniteSet(B)
      BY <2>1, <3>1, FS_Subset
    <3>3. QED BY <2>1, <3>1, <3>2, FS_Subset, FS_CardinalityType
  <2> HIDE DEF A, B
  <2>3. Cardinality(B) + 1 < Cardinality(A) + 1
    BY <2>2
  <2>4. QED BY <2>3 DEF A, B
<1> HIDE DEF Place
<1> DEFINE f == [x \in S |-> Place(x)]
<1>4. f \in Injection(S, 1..n)
  <2>1. f \in [S -> 1..n]
    BY <1>2
  <2>2. ASSUME NEW x \in S, NEW y \in S, Place(x) = Place(y) PROVE x = y
    <3>1. Place(x) \in 1..n
      BY <1>2
    <3>2. <<x, y>> \notin R /\ <<y, x>> \notin R
      <4> HIDE DEF n
      <4>1. ~(Place(x) < Place(x)) /\ ~(Place(y) < Place(x)) /\ ~(Place(x) < Place(y))
        BY <1>1, <2>2, <3>1
      <4>2. QED BY <1>3, <4>1
    <3>3. QED BY <3>2
  <2>3. QED BY <2>1, <2>2 DEF Injection, IsInjective
<1>5. f \in Surjection(S, 1..n)
  <2>1. IsFiniteSet(1..n) /\ Cardinality(1..n) = n
    <3> HIDE DEF n
    <3>1. QED BY <1>1, FS_Interval
  <2> HIDE DEF f
  <2>2. QED BY <1>4, <2>1, FS_Injection
<1>6. \A i \in 1..n : \E x \in S : Place(x) = i
  BY <1>5 DEF Surjection
<1> DEFINE list == [i \in 1..n |-> CHOOSE x \in S : Place(x) = i]
<1>7. list \in [1..n -> S] /\ \A i \in 1..n : Place(list[i]) = i
  <2> HIDE DEF n, f
  <2>1. \A i \in 1..n : list[i] \in S /\ Place(list[i]) = i
    BY <1>6
  <2>2. QED BY <2>1
<1>8. ASSUME NEW i \in 1..n, NEW k \in 1..n, i < k PROVE <<list[k], list[i]>> \in R
  <2> HIDE DEF list, n, f
  <2>1. list[i] \in S /\ list[k] \in S /\ Place(list[i]) = i /\ Place(list[k]) = k
    BY <1>7
  <2>2. list[i] # list[k] /\ ~(Place(list[k]) < Place(list[i]))
    BY <1>1, <1>8, <2>1
  <2>3. <<list[i], list[k]>> \notin R
    BY <1>3, <2>1, <2>2
  <2>4. QED BY <2>1, <2>2, <2>3
<1> HIDE DEF list
<1>9. QED BY <1>7, <1>8

\* What list prints are the versions that are there, each before those that are less.
LEMMA DownloadedIsSorted ==
  LET there == {v \in Version : Zig!Exists(v)}
  IN /\ DOMAIN Zig!Downloaded = 1..Cardinality(there)
     /\ Zig!Range(Zig!Downloaded) = there
     /\ \A i, k \in DOMAIN Zig!Downloaded :
          i < k => Zig!Less(Zig!Downloaded[k], Zig!Downloaded[i])
<1> DEFINE there == {v \in Version : Zig!Exists(v)}
           n == Cardinality(there)
           R == {p \in Version \X Version : Zig!Less(p[1], p[2])}
           Falls(list) == list \in [1..n -> there] /\
                          \A i, k \in DOMAIN list : i < k => Zig!Less(list[k], list[i])
<1>1. there \in SUBSET Version /\ IsFiniteSet(there)
  <2>1. there \in SUBSET Version
    OBVIOUS
  <2> HIDE DEF there
  <2>2. QED BY <2>1, ZigAssumption, FS_Subset
<1>2. n \in Nat
  <2> HIDE DEF there
  <2>1. QED BY <1>1, FS_CardinalityType
<1>3. \A v, w \in Version : <<v, w>> \in R <=> Zig!Less(v, w)
  OBVIOUS
<1> HIDE DEF there, R
<1>4. \E list \in [1..n -> there] : \A i, k \in 1..n : i < k => <<list[k], list[i]>> \in R
  <2>1. /\ \A x \in there : <<x, x>> \notin R
        /\ \A x, y \in there : x # y => <<x, y>> \in R \/ <<y, x>> \in R
        /\ \A x, y, z \in there : <<x, y>> \in R /\ <<y, z>> \in R => <<x, z>> \in R
    <3>1. \A x \in there : x \in Version
      BY <1>1
    <3>2. QED BY <1>3, <3>1, VersionsAreOrdered
  <2>2. QED BY <1>1, <2>1, CanBeListed
<1> HIDE DEF n
<1>5. \E list : Falls(list)
  <2>1. PICK list \in [1..n -> there] : \A i, k \in 1..n : i < k => <<list[k], list[i]>> \in R
    BY <1>4
  <2>2. \A i \in 1..n : list[i] \in Version
    BY <1>1, <2>1
  <2>3. QED BY <1>3, <2>1, <2>2
<1>6. Falls(Zig!Downloaded)
  <2>1. Zig!Downloaded =
          CHOOSE list \in [1..n -> there] :
            \A i, k \in DOMAIN list : i < k => Zig!Less(list[k], list[i])
    BY CardinalityOfZigs DEF Zig!Downloaded, there, n
  <2>2. QED BY <1>5, <2>1
<1> DEFINE list == Zig!Downloaded
<1>7. list \in [1..n -> there] /\ \A i, k \in 1..n : i < k => Zig!Less(list[k], list[i])
  BY <1>6
<1> HIDE DEF list
<1>8. list \in Injection(1..n, there)
  <2>1. ASSUME NEW i \in 1..n, NEW k \in 1..n, list[i] = list[k] PROVE i = k
    <3>1. list[i] \in Version /\ ~Zig!Less(list[i], list[i])
      BY <1>1, <1>7, VersionsAreOrdered
    <3>2. ~(i < k) /\ ~(k < i)
      BY <1>7, <2>1, <3>1
    <3>3. QED BY <1>2, <3>2
  <2>2. QED BY <1>7, <2>1 DEF Injection, IsInjective
<1>9. list \in Surjection(1..n, there)
  <2>1. Cardinality(1..n) = Cardinality(there)
    BY <1>2, FS_Interval DEF n
  <2>2. QED BY <1>1, <1>8, <2>1, FS_Injection
<1>10. Zig!Range(list) = there
  BY <1>7, <1>9 DEF Surjection, Zig!Range
<1>11. QED BY <1>7, <1>10 DEF list, n, there

\* Whatever versions there are, whatever was downloaded, removed or broken off
\* before, zig.py list has each once, the newest first.
THEOREM ListIsAlwaysNewestFirst == WorkstationSpec => []ListIsNewestFirst
<1>1. WorkstationInit => ZigInv
  BY ZigStarts DEF WorkstationInit, Zig!Init
<1>2. ZigInv /\ [WorkstationNext]_workstationVars => ZigInv'
  BY StepsAreZigSteps, StepsKeepZigs
<1>3. ZigInv => ListIsNewestFirst
  <2> SUFFICES ASSUME ZigInv PROVE Zig!ListIsNewestFirst
    BY DEF ListIsNewestFirst
  <2> DEFINE list == Zig!Downloaded
             there == {v \in Version : Zig!Exists(v)}
  <2>1. /\ Zig!Range(list) = there
        /\ DOMAIN list = 1..Cardinality(there)
        /\ \A i, k \in DOMAIN list : i < k => Zig!Less(list[k], list[i])
    BY DownloadedIsSorted
  <2>2. there = {v \in Version : zigs[v] \notin {"absent", "nothing"}}
    BY DEF ZigInv, ZigTypeOK, Zig!Exists
  <2>3. \A i \in DOMAIN list : list[i] \in Version
    <3>1. \A i \in DOMAIN list : list[i] \in Zig!Range(list)
      BY DEF Zig!Range
    <3>2. QED BY <2>1, <3>1
  <2> HIDE DEF list, there
  <2>4. \A i, k \in DOMAIN list :
           i < k /\ Zig!SameWidths(list[i], list[k]) => Zig!Newer(list[i], list[k])
    BY <2>1, <2>3, LessIsOlder
  <2>5. QED BY <2>1, <2>2, <2>4 DEF list, Zig!ListIsNewestFirst
<1>4. QED BY <1>1, <1>2, <1>3, PTL DEF WorkstationSpec
=============================================================================
