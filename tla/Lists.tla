-------------------------------- MODULE Lists --------------------------------
(***************************************************************************)
(* Loops that append to a result, as the models of them write it.          *)
(***************************************************************************)
EXTENDS Integers, Sequences, SequencesExt

\* The elements of s at the positions of I, in their order.
At(s, I) == FlattenSeq([i \in DOMAIN s |-> IF i \in I THEN <<s[i]>> ELSE <<>>])

=============================================================================
