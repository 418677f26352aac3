------------------------------- MODULE Lists -------------------------------
(***************************************************************************)
(* A list comprehension with a condition, as the code of Sanad is full of. *)
(***************************************************************************)
EXTENDS Sequences, SequencesExt

(* The elements of a sequence that are in a set, in their order. *)
Kept(s, S) == FoldLeft(LAMBDA kept, x : IF x \in S THEN Append(kept, x) ELSE kept, <<>>, s)
=============================================================================
