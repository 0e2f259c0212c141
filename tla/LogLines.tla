------------------------------ MODULE LogLines ------------------------------
(***************************************************************************)
(* A file or stream of newline-terminated JSON lines, as a sequence of     *)
(* pieces: a line n written whole is its two pieces, one after the other,  *)
(* the second of which ends with the newline.                              *)
(***************************************************************************)
EXTENDS Subsequences, FiniteSets, SequencesExt

Piece(line, last) == [line |-> line, last |-> last]

\* The whole lines of data: a last piece that follows its first piece, which is at
\* the beginning of a line.  Anything else between two newlines is not JSON.
WholeAt(data, i) ==
  /\ i > 1
  /\ data[i].last /\ ~data[i - 1].last /\ data[i].line = data[i - 1].line
  /\ i = 2 \/ data[i - 2].last
LinesOf(data) == [i \in 1..Len(data) |-> data[i].line]
WholeLines(data) == Picked(LinesOf(data), {i \in 1..Len(data) : WholeAt(data, i)})

\* What follows the last newline.
Newlines(data) == {i \in 1..Len(data) : data[i].last}
Rest(data) == SubSeq(data, Max({0} \union Newlines(data)) + 1, Len(data))

=============================================================================
