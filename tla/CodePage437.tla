---------------------------- MODULE CodePage437 -----------------------------
(***************************************************************************)
(* scripts/codegen/code_page_437.py writes the tables with which            *)
(* from_unicode() of the text console turns a code point into a character:  *)
(* ranges for those that follow one another, a hash table for the others.   *)
(***************************************************************************)
EXTENDS Integers, FiniteSets, FiniteSetsExt

CONSTANTS
  KeyTables,   \* what keys may be: a code point or NULL for each character
  CodePoints,  \* what is printed
  NULL

VARIABLES
  keys,    \* the list in the script: keys[i] is that of character i - 1
  tables   \* kernel/platform/code_point_437.zig; NULL, both, until there is one

codePageVars == <<keys, tables>>

code_points == {keys[i] : i \in DOMAIN keys} \ {NULL}

\* KeyValue: the character of a code point, and the difference that offset() is.
value(c) == (CHOOSE i \in DOMAIN keys : keys[i] = c) - 1
offset(c) == c - value(c)

\* get_ranges(): as long as each key is the next one.
ranges ==
  {p[1]..p[2] : p \in {q \in code_points \X code_points :
                        /\ q[1] <= q[2] /\ q[1]..q[2] \subseteq code_points
                        /\ {q[1] - 1, q[2] + 1} \cap code_points = {}}}

\* Mutant: an offset that only the last shares with the first.
SameAtTheEnds(r) == Cardinality(r) > 1 /\ offset(Max(r)) = offset(Min(r))

\* same_offset(), of more than one.
IsContiguous(r) == Cardinality(r) > 1 /\ \A c, d \in r : offset(c) = offset(d)

\* The tables that the script writes.  A place of the hash table that is not
\* valid is NULL.  Which range or key comes before which tells nothing apart,
\* and is left out: buckets are in the order of their keys.
Generated ==
  LET hashed == UNION {r \in ranges : ~IsContiguous(r)}
      bucket_count == Cardinality(hashed)
      buckets == [h \in 0..(bucket_count - 1) |-> {c \in hashed : c % bucket_count = h}]
      max_bucket_length == Max({Cardinality(buckets[h]) : h \in DOMAIN buckets})
      max_hash_used == Max({h \in DOMAIN buckets : buckets[h] # {}})
      Place(h, i) == {c \in buckets[h] : Cardinality({d \in buckets[h] : d < c}) = i}
  IN [bucket_count |-> bucket_count,
      max_bucket_length |-> max_bucket_length,
      max_hash_used |-> max_hash_used,
      hash_table |->
        [i \in 0..((max_hash_used + 1) * max_bucket_length - 1) |->
           LET place == Place(i \div max_bucket_length, i % max_bucket_length)
           IN IF place = {} THEN NULL
              ELSE [key |-> Min(place), value |-> value(Min(place))]],
      contiguous_ranges |->
        {[first |-> Min(r), last |-> Max(r), offset |-> offset(Min(r))] :
           r \in {s \in ranges : IsContiguous(s)}}]

\* Keys that make tables.  With a code point for two characters there are two
\* keys for it; with nothing to hash the console would divide by no buckets; and
\* the offset of a range below its characters would be written with a minus sign
\* after the 0x.
Usable ==
  /\ \A i, k \in DOMAIN keys : keys[i] = keys[k] => i = k \/ keys[i] = NULL
  /\ \E r \in ranges : ~IsContiguous(r)
  /\ \A r \in ranges : IsContiguous(r) => offset(Min(r)) >= 0

Init == keys = NULL /\ tables = NULL

\* Somebody changes the list.
EditKeys ==
  /\ keys = NULL
  /\ keys' \in KeyTables
  /\ UNCHANGED tables

Generate ==
  /\ keys # NULL /\ Usable
  /\ tables = NULL
  /\ tables' = Generated
  /\ UNCHANGED keys

Next == EditKeys \/ Generate

Spec == Init /\ [][Next]_codePageVars

\* from_unicode() of the console.
from_unicode(c) ==
  LET within == {r \in tables.contiguous_ranges : r.first <= c /\ c <= r.last}
      hash == c % tables.bucket_count
      bucket == [i \in 1..tables.max_bucket_length |->
                   tables.hash_table[hash * tables.max_bucket_length + i - 1]]
      found == {i \in DOMAIN bucket :
                  /\ \A k \in 1..i : bucket[k] # NULL
                  /\ bucket[i].key = c}
  IN IF within # {} THEN c - (CHOOSE r \in within : TRUE).offset
     ELSE IF hash > tables.max_hash_used \/ found = {} THEN NULL
     ELSE bucket[Min(found)].value

-----------------------------------------------------------------------------
\* The console finds the character of every code point in the code page, and
\* none for any other, through whichever table the script put it in.
CodePageIsExact ==
  tables # NULL =>
    \A c \in CodePoints :
      LET characters == {i \in DOMAIN keys : keys[i] = c}
      IN from_unicode(c) = IF characters = {} THEN NULL ELSE Min(characters) - 1
=============================================================================
