---------------------------- MODULE Subsequences ----------------------------
(***************************************************************************)
(* Selecting from sequences by position.                                   *)
(***************************************************************************)
EXTENDS Integers, Sequences

\* The elements of s whose positions are in I, in their order.
Picked(s, I) ==
  LET upto[n \in 0..Len(s)] ==
        IF n = 0 THEN <<>>
        ELSE IF n \in I THEN Append(upto[n - 1], s[n]) ELSE upto[n - 1]
  IN upto[Len(s)]
=============================================================================
