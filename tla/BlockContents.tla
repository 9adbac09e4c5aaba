---------------------------- MODULE BlockContents ----------------------------
(***************************************************************************)
(* What a BlockStore promises: a read returns what was last written, and   *)
(* an operation that fails has changed nothing.                            *)
(***************************************************************************)
CONSTANTS Address, Data

VARIABLES
  contents,   \* of each block
  reply       \* what the last operation returned

vars == <<contents, reply>>

Init == contents \in [Address -> Data] /\ reply = <<"done">>

Read(a) == reply' = <<"data", a, contents[a]>> /\ UNCHANGED contents

Write(a, d) == contents' = [contents EXCEPT ![a] = d] /\ reply' = <<"done">>

Flush == reply' = <<"done">> /\ UNCHANGED contents

Fail == reply' = <<"error">> /\ UNCHANGED contents

Next ==
  \/ \E a \in Address : Read(a) \/ \E d \in Data : Write(a, d)
  \/ Flush
  \/ Fail

Spec == Init /\ [][Next]_vars
=============================================================================
