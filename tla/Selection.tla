----------------------------- MODULE Selection -----------------------------
(***************************************************************************)
(* The loop that copies some of a slice's elements, in order, to another:  *)
(* how the code drops commands and picks the supported ones.  SelectSeq    *)
(* says the same, in a form no backend of the proof system knows.          *)
(***************************************************************************)
EXTENDS Sequences, SequencesExt

\* The elements of seq that are in wanted.
Keep(seq, wanted) ==
  FoldLeft(LAMBDA kept, x : IF x \in wanted THEN Append(kept, x) ELSE kept, <<>>, seq)
=============================================================================
