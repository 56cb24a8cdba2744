--------------------------- MODULE MergeSortFile ---------------------------
(* The segment file of the first design (src/old/src/MergeSortFile.cpp): a    *)
(* header, a table of 100 metadata slots, and the data behind it.  The data   *)
(* only ever goes to the end of the file; the metadata of segment s goes to   *)
(* slot s, whether or not the table has that many.                            *)
(*                                                                            *)
(* A file is the header's numSegments and the cells behind the header.  The   *)
(* cell is one metadata slot (24 bytes, also the header's size); a key is     *)
(* given a cell of its own, so that a slot past the table lies on one key     *)
(* instead of six.  Offsets are counted from the end of the header.           *)
EXTENDS Integers, Sequences

CONSTANT Reserved      \* metadata slots in front of the data; the code has 100
ASSUME ReservedAssumption == Reserved \in Nat /\ Reserved >= 2

NoFile == [numSegments |-> 0, cells |-> <<>>]
Exists(f) == f.cells # <<>>

Header == [header |-> TRUE]        \* the copy of the header put as a placeholder
Zero   == [zero |-> TRUE]          \* what a seek past the end leaves behind
Meta(offset, count) == [offset |-> offset, count |-> count]

\* seekp to a cell and write it, the file growing as far as it has to.
Written(cells, at, cell) ==
  [a \in 1..(IF at < Len(cells) THEN Len(cells) ELSE at + 1) |->
     IF a = at + 1 THEN cell ELSE IF a <= Len(cells) THEN cells[a] ELSE Zero]

\* create: the file is truncated only if the constructor could not open it,
\* so `old` is what lay under that name (NoFile if nothing did).
PlaceholderBehind(init) == Reserved                                \* mutant
Placeholder(init) == IF init THEN Reserved - 1 ELSE Reserved
Created(old, init) ==
  LET table == IF init THEN Written(old.cells, 0, Meta(Reserved, 0)) ELSE old.cells
  IN  [numSegments |-> IF init THEN 1 ELSE 0,
       cells |-> Written(table, Placeholder(init), Header)]

SegmentInfo(f, s) == f.cells[s + 1]

\* appendSegment: a new segment at the end of the file, its metadata in the
\* slot after the last one.
AppendSegment(f, run) ==
  [numSegments |-> f.numSegments + 1,
   cells |-> Written(f.cells \o run, f.numSegments, Meta(Len(f.cells), Len(run)))]

\* append: data at the end of the file, counted to the last segment.
Append2Last(f, data) ==
  LET last == SegmentInfo(f, f.numSegments - 1)
  IN  IF f.numSegments = 0 THEN f
      ELSE [f EXCEPT !.cells = Written(f.cells \o data, f.numSegments - 1,
                                       Meta(last.offset, last.count + Len(data)))]

\* readSegment, and readSegmentChunk; a read that returns false gives <<>>.
ReadSegment(f, s) ==
  LET m == SegmentInfo(f, s) IN SubSeq(f.cells, m.offset + 1, m.offset + m.count)

ChunkEnd(m, start, count) == IF start + count > m.count THEN m.count ELSE start + count
ReadSegmentChunk(f, s, start, count) ==
  IF s >= f.numSegments \/ start >= SegmentInfo(f, s).count THEN <<>>
  ELSE SubSeq(ReadSegment(f, s), start + 1, ChunkEnd(SegmentInfo(f, s), start, count))
=============================================================================
