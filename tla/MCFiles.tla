------------------------------ MODULE MCFiles ------------------------------
(* A RAM disk with memory for two nodes besides its root, and short paths.    *)
EXTENDS Files

CONSTANTS root, n1, n2, byteA, byteB

\* Which memory a new node gets makes no difference.
Memory == Permutations({n1, n2})

Relative(components) == [absolute |-> FALSE, components |-> components, slash |-> FALSE]

Rooted(components) == [absolute |-> TRUE, components |-> components, slash |-> FALSE]

Paths ==
  {Relative(<<>>), Relative(<<"x">>), Relative(<<"..">>), Relative(<<"x", "x">>),
   Relative(<<"x", "..">>), [Relative(<<"x">>) EXCEPT !.slash = TRUE],
   Rooted(<<"ramdisk">>), Rooted(<<"ramdisk", "..">>), Rooted(<<"..", "ramdisk", "y">>)}

Moves == {-1, 1}

Writes == {<<byteA>>, <<byteB, byteA>>}
=============================================================================
