----------------------------- MODULE FileStreams -----------------------------
(***************************************************************************)
(* Which bytes of which parts answer a request for a file, or for a range  *)
(* of it (ByteRange, _Span), and how they are checked as they are read     *)
(* (PartPath.chunks, WholeFileCheck).                                      *)
(*                                                                         *)
(* A file says its parts, in order, their sizes if it records them, its    *)
(* size if that is said, and its hash: none, that of its parts, or some    *)
(* other.  A byte is the content it is of and where in it.                 *)
(***************************************************************************)
EXTENDS Integers, SequencesExt

CONSTANT Length  \* how many bytes each content has

Unknown == -1

Bytes(content) == [i \in 1..Length[content] |-> <<content, i>>]
Least(a, b) == IF a < b THEN a ELSE b
Most(a, b) == IF a > b THEN a ELSE b
Total(sizes) == FoldLeft(LAMBDA sum, size : sum + size, 0, sizes)

-----------------------------------------------------------------------------
(* Ranges, cut at the end of the file: from `start` up to `stop`.          *)

NoRange == [form |-> "none", first |-> 0, last |-> Unknown, ifRange |-> "none"]

RangeWithin(range, size) ==
  LET stop == IF range.last = Unknown THEN size ELSE Least(range.last + 1, size)
  IN IF range.form = "suffix" THEN [start |-> Most(size - range.last, 0), stop |-> size]
     ELSE [start |-> Least(range.first, stop), stop |-> stop]

Satisfiable(span) == span.start < span.stop

(* A header naming several ranges, or none that can be read, is ignored,   *)
(* and so is one that If-Range makes of another file.                      *)
Ranged(file, range, head) ==
  /\ ~head /\ file.sized
  /\ range.form \in {"from", "suffix"}
  /\ range.form = "from" => range.last = Unknown \/ range.first <= range.last
  /\ range.ifRange \in {"none", "same"}
  /\ range.ifRange = "same" => file.hash # "none"

-----------------------------------------------------------------------------
(* Spans.                                                                  *)

End(file, i) == Total(SubSeq(file.sizes, 1, i))

(* The pieces holding the bytes from start up to stop: from the first part *)
(* ending past the first byte to the first ending at or past the last.     *)
Piece(file, i, start, stop) ==
  LET offset == End(file, i) - file.sizes[i]
  IN [part |-> file.parts[i], size |-> file.sizes[i],
      from |-> Most(start - offset, 0), to |-> Least(stop - offset, file.sizes[i])]

PiecesWithin(file, start, stop) ==
  LET from == Cardinality({i \in DOMAIN file.sizes : End(file, i) <= start}) + 1
      upTo == Cardinality({i \in DOMAIN file.sizes : End(file, i) < stop}) + 1
  IN IF start >= stop THEN <<>>
     ELSE [i \in 1..(upTo - from + 1) |-> Piece(file, from + i - 1, start, stop)]

AllPieces(file) ==
  [i \in DOMAIN file.parts |->
     IF file.sized THEN Piece(file, i, 0, End(file, Len(file.sizes)))
     ELSE [part |-> file.parts[i], size |-> Unknown, from |-> 0, to |-> Unknown]]

WholeSpan(file) ==
  [pieces |-> AllPieces(file), whole |-> TRUE,
   length |-> IF file.sized THEN Total(file.sizes) ELSE file.size]

SpanOf(file, range) ==
  IF range.start = 0 /\ range.stop = Total(file.sizes) THEN WholeSpan(file)
  ELSE [pieces |-> PiecesWithin(file, range.start, range.stop), whole |-> FALSE,
        length |-> range.stop - range.start]

-----------------------------------------------------------------------------
(* Reading.                                                                *)

IsOfItsSize(piece) == piece.size = Unknown \/ Length[piece.part] = piece.size

(* WholeFileCheck, once `taken` bytes have been: not too many, and all.    *)
NotTooMany(file, taken) == file.size = Unknown \/ taken <= file.size
WholeFile(file, taken) == (file.size = Unknown \/ taken = file.size) /\ file.hash # "other"

SentOf(piece) ==
  SubSeq(Bytes(piece.part), piece.from + 1,
         IF piece.to = Unknown THEN Length[piece.part] ELSE piece.to)
=============================================================================
