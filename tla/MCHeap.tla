------------------------------- MODULE MCHeap -------------------------------
(* The heap with pages of 16 words and segments of two of them. *)
EXTENDS Heap

MCRequests == {1, 7, 13, 45, W - 18}
MCCallocs == {<<3, 171>>}
MCAligns == {<<16, 5>>, <<16, 25>>}
MCIndependents == {<<1, 7>>}
=============================================================================
