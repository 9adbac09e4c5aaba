----------------------------- MODULE FlatFiles -----------------------------
(***************************************************************************)
(* What open files promise: each has a position in a file that is one      *)
(* sequence of bytes, whoever else has it open, and an id leads to the     *)
(* file it was given for until it is closed.  Writes go to the end of the  *)
(* file or into its last page; what others do to it is not promised.       *)
(***************************************************************************)
EXTENDS Integers, Sequences

CONSTANTS
  Process, File, PageSize,
  Id,        \* what open files are known by
  Position,  \* in a file: 0, 1, ...
  Data,      \* what is written in one call
  Lengths,   \* how much is read in one call
  Offsets,   \* of seek
  Unknown

VARIABLES
  text,     \* the bytes of each file, or Unknown
  opened,   \* for each process: the file and the position of its ids
  answer    \* what the last call returned

vars == <<text, opened, answer>>

Init ==
  /\ text = [f \in File |-> <<>>]
  /\ opened = [p \in Process |-> <<>>]
  /\ answer = <<"done">>

Handle(p) == DOMAIN opened[p]

Without(p, i) == [j \in Handle(p) \ {i} |-> opened[p][j]]

With(p, i, h) == [j \in Handle(p) \cup {i} |-> IF j = i THEN h ELSE opened[p][j]]

Open(p) ==
  /\ answer' = <<"done">>
  /\ \E f \in File, i \in Id \ Handle(p) :
       opened' = [opened EXCEPT ![p] = With(p, i, [file |-> f, pos |-> 0])]
  /\ UNCHANGED text

Close(p, i) ==
  /\ answer' = <<"done">>
  /\ opened' = [opened EXCEPT ![p] = Without(p, i)]
  /\ UNCHANGED text

Move(p, i, pos) == opened' = [opened EXCEPT ![p][i].pos = pos]

Read(p, i, wanted) ==
  LET h == opened[p][i]
      end == IF h.pos + wanted < Len(text[h.file]) THEN h.pos + wanted ELSE Len(text[h.file])
  IN /\ answer'[1] = "read"
     /\ IF text[h.file] = Unknown THEN Len(answer'[2]) <= wanted
        ELSE answer'[2] = SubSeq(text[h.file], h.pos + 1, end)
     /\ Move(p, i, h.pos + Len(answer'[2]))
     /\ UNCHANGED text

\* Where a file of this length can be written.
Writable(length, pos) ==
  /\ pos <= length
  /\ pos >= length - (length % PageSize)

Put(old, pos, bytes) ==
  [k \in 1..(IF pos + Len(bytes) > Len(old) THEN pos + Len(bytes) ELSE Len(old)) |->
     IF k \in pos + 1..pos + Len(bytes) THEN bytes[k - pos] ELSE old[k]]

\* Less than all of it is written only when the caller gets an error.
Write(p, i, bytes) ==
  LET h == opened[p][i]
  IN \E n \in 0..Len(bytes) :
       /\ answer' = IF n = Len(bytes) THEN <<"done">> ELSE <<"error">>
       /\ Move(p, i, h.pos + n)
       /\ text' = [text EXCEPT ![h.file] =
                     IF @ = Unknown THEN Unknown
                     ELSE IF n = 0 THEN @
                     ELSE IF Writable(Len(@), h.pos) THEN Put(@, h.pos, SubSeq(bytes, 1, n))
                     ELSE Unknown]

Seek(p, i, pos) ==
  /\ answer' = <<"done">>
  /\ Move(p, i, pos)
  /\ UNCHANGED text

\* From the start, from here or from the end; nobody knows where the end of a file is
\* whose text is unknown.
Target(p, i, offset) ==
  LET h == opened[p][i]
  IN IF text[h.file] = Unknown THEN Position
     ELSE {n + offset : n \in {0, h.pos, Len(text[h.file])}} \cap Position

\* A file that is removed is gone for those who have it open.
Unlink(f) ==
  /\ answer' = <<"done">>
  /\ text' = [text EXCEPT ![f] = <<>>]
  /\ opened' = [p \in Process |->
                  [i \in {j \in Handle(p) : opened[p][j].file # f} |-> opened[p][i]]]

\* Errors, directories, and whatever else is no business of open files.
Other ==
  /\ answer'[1] \in {"done", "error"}
  /\ UNCHANGED <<opened, text>>

Next ==
  \/ Other
  \/ \E p \in Process :
       \/ Open(p)
       \/ \E i \in Handle(p) :
            \/ Close(p, i)
            \/ \E n \in Lengths : Read(p, i, n)
            \/ \E bytes \in Data : Write(p, i, bytes)
            \/ \E offset \in Offsets : \E pos \in Target(p, i, offset) : Seek(p, i, pos)
  \/ \E f \in File : Unlink(f)

Spec == Init /\ [][Next]_vars
=============================================================================
