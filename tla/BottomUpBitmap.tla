--------------------------- MODULE BottomUpBitmap ---------------------------
(***************************************************************************)
(* scripts/prototypes/bmp.py: reading a bitmap, whose file has its last row *)
(* first, from the top, in buffers of any size.                             *)
(***************************************************************************)
EXTENDS Integers, Sequences

CONSTANTS
  Widths, Heights,   \* of the bitmaps
  BufferSizes

VARIABLES
  width, height,
  pos,    \* how far read_bitmap() has come
  taken   \* the bytes that its callers have had

bitmapVars == <<width, height, pos, taken>>

length == width * height

\* A byte is the row, from the top, and the column it belongs to.  The file has
\* the rows the other way round.
bmp_data(i) == <<height - 1 - (i \div width), i % width>>

\* Mutant: a row's length too far.
OneRowOff == length - width * (pos \div width) + (pos % width)

\* Where the rest of the row that pos is in begins in the file.
seek_to == length - width * ((pos \div width) + 1) + (pos % width)

\* What one turn of the loop reads: no more than the row.
RowPart(at, wanted) ==
  LET rest == width - (at % width) IN IF rest < wanted THEN rest ELSE wanted

Init == width = 0 /\ height = 0 /\ pos = 0 /\ taken = <<>>

\* Bmp.__init__(), for any size.
Open ==
  /\ width = 0
  /\ width' \in Widths /\ height' \in Heights
  /\ UNCHANGED <<pos, taken>>

\* read_bitmap() turns its loop until the buffer is full or the bitmap ends; here
\* a turn is a step, and the buffer's end is where the caller takes what it got.
ReadRowPart(left) ==
  LET count == RowPart(pos, left)
  IN /\ pos < length
     /\ taken' = taken \o [i \in 1..count |-> bmp_data(seek_to + i - 1)]
     /\ pos' = pos + count
     /\ UNCHANGED <<width, height>>

Next == Open \/ \E left \in BufferSizes : ReadRowPart(left)

Spec == Init /\ [][Next]_bitmapVars

-----------------------------------------------------------------------------
\* Whatever the sizes of the buffers, the rows come from the top and none is
\* missing.
RowsComeFromTheTop ==
  /\ Len(taken) = pos /\ pos <= length
  /\ \A i \in 1..pos : taken[i] = <<(i - 1) \div width, (i - 1) % width>>
=============================================================================
