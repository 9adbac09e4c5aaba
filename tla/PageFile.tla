------------------------------ MODULE PageFile ------------------------------
(***************************************************************************)
(* PageFile of kernel/fs/RamDisk.zig: the contents of a file in pages that *)
(* are written from their start.  A page is what has been written to it,   *)
(* so its length is Page.written.                                          *)
(***************************************************************************)
EXTENDS Integers, Sequences

CONSTANT PageSize

ASSUME PageFileAssumption == PageSize \in Nat \ {0}

NewPageFile == [pages |-> <<>>, total_written |-> 0]

\* Bytes written to the pages before page i.
SeenBefore(pages, i) ==
  LET seen[k \in 0..i - 1] == IF k = 0 THEN 0 ELSE seen[k - 1] + Len(pages[k])
  IN seen[i - 1]

\* Mutant: a position at the end of a full page is in that page.
HoldsEnd(pages, pos, i) ==
  LET before == SeenBefore(pages, i)
  IN before + Len(pages[i]) >= pos /\ pos <= before + PageSize

\* The test of get_page()'s loop.
Holds(pages, pos, i) ==
  LET before == SeenBefore(pages, i)
  IN before + Len(pages[i]) >= pos /\ pos < before + PageSize

\* get_page(): the first page that holds pos, or 0.
GetPage(pages, pos) ==
  LET held == {i \in DOMAIN pages : Holds(pages, pos, i)}
  IN IF held = {} THEN 0 ELSE CHOOSE i \in held : \A j \in held : i <= j

Full(page) == Len(page) = PageSize

\* How many of the bytes there is room for behind an offset into a page.
Fitting(offset, bytes) ==
  IF Len(bytes) < PageSize - offset THEN Len(bytes) ELSE PageSize - offset

\* copy_from(): bytes go into page at offset, as many as there is room for.
Overwrite(page, offset, bytes) ==
  LET n == Fitting(offset, bytes)
  IN SubSeq(page, 1, offset) \o SubSeq(bytes, 1, n) \o SubSeq(page, offset + n + 1, Len(page))

\* A write in progress: the file, where it goes on, the bytes left, and how many pages
\* can still be allocated (-1 when one too many was asked for).
Writing(file, pos, left, room) == [file |-> file, pos |-> pos, left |-> left, room |-> room]

\* The page is written to, and total_written follows.
Replaced(file, i, page) ==
  [pages |-> [file.pages EXCEPT ![i] = page],
   total_written |-> file.total_written - Len(file.pages[i]) + Len(page)]

Appended(file, page) ==
  [pages |-> Append(file.pages, page), total_written |-> file.total_written + Len(page)]

\* One turn of write_impl()'s loop: into the page that holds the position unless it is
\* full, else into a new one.
WriteChunk(w) ==
  LET i == GetPage(w.file.pages, w.pos)
      append == i = 0 \/ Full(w.file.pages[i])
      offset == IF append THEN 0 ELSE w.pos - SeenBefore(w.file.pages, i)
      page == Overwrite(IF append THEN <<>> ELSE w.file.pages[i], offset, w.left)
      n == Fitting(offset, w.left)
      left == SubSeq(w.left, n + 1, Len(w.left))
  IN IF w.left = <<>> \/ w.room < 0 THEN w
     ELSE IF append /\ w.room = 0 THEN [w EXCEPT !.room = -1]
     ELSE IF append THEN Writing(Appended(w.file, page), w.pos + n, left, w.room - 1)
     ELSE Writing(Replaced(w.file, i, page), w.pos + n, left, w.room)

\* write_impl() with memory for room more pages.
WriteFile(file, pos, bytes, room) ==
  LET turn[k \in 0..Len(bytes)] ==
        IF k = 0 THEN Writing(file, pos, bytes, room) ELSE WriteChunk(turn[k - 1])
  IN turn[Len(bytes)]

\* One turn of read_impl()'s loop, with the bytes read so far and those still wanted.
ReadChunk(pages, r) ==
  LET i == GetPage(pages, r.pos)
      offset == r.pos - SeenBefore(pages, i)
      rest == SubSeq(pages[i], offset + 1, Len(pages[i]))
      got == IF Len(rest) < r.wanted THEN rest ELSE SubSeq(rest, 1, r.wanted)
  IN IF i = 0 THEN r
     ELSE [pos |-> r.pos + Len(got), bytes |-> r.bytes \o got, wanted |-> r.wanted - Len(got)]

\* read_impl()
ReadFile(file, pos, wanted) ==
  LET turn[k \in 0..wanted] ==
        IF k = 0 THEN [pos |-> pos, bytes |-> <<>>, wanted |-> wanted]
        ELSE ReadChunk(file.pages, turn[k - 1])
  IN turn[wanted]

\* All that was written, page after page.
Concatenated(pages) ==
  LET text[i \in 0..Len(pages)] == IF i = 0 THEN <<>> ELSE text[i - 1] \o pages[i]
  IN text[Len(pages)]

\* generic_seek() without a limit: the new position, negative for EndOfStream.
SeekFile(file, pos, offset, from) ==
  offset + (CASE from = "FromStart" -> 0
              [] from = "FromHere" -> pos
              [] from = "FromEnd" -> file.total_written)
=============================================================================
