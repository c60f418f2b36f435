----------------------------- MODULE MCTreeBins -----------------------------
(* Four bins: sizes 5; none; 8 to 11; 14 and more. *)
EXTENDS TreeBins, TLC

Symmetry == Permutations(Chunk)
=============================================================================
