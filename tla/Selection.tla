------------------------------- MODULE Selection -------------------------------
(* The elements of a sequence at some of its positions: what a filter of    *)
(* the code leaves of an array.  SelectSeq, with the positions in place of  *)
(* the test, in a form that proofs can unfold.                              *)
EXTENDS Naturals, Sequences

Selected(s, I) ==
  LET upTo[n \in 0..Len(s)] ==
        IF n = 0 THEN <<>>
        ELSE IF n \in I THEN Append(upTo[n - 1], s[n]) ELSE upTo[n - 1]
  IN  upTo[Len(s)]

=============================================================================
