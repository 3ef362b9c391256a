----------------------------- MODULE Selection ------------------------------
(***************************************************************************)
(* What a loop with a condition collects from a list.  It is written       *)
(* without SelectSeq because proofs cannot look into that operator.        *)
(***************************************************************************)
EXTENDS Integers, SequencesExt

\* The elements of seq at these places, in their order.
Selected(seq, places) ==
  FlattenSeq([i \in DOMAIN seq |-> IF i \in places THEN <<seq[i]>> ELSE << >>])
=============================================================================
