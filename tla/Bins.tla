-------------------------------- MODULE Bins --------------------------------
(***************************************************************************)
(* What the heap relies on when it keeps free chunks in bins: a function   *)
(* from the sizes there are to the queue of the chunks of that size.  Heap *)
(* works on these queues, FreeBins makes a specification of them and       *)
(* TreeBins, the tries of dlmalloc.c, implements it.                       *)
(***************************************************************************)
EXTENDS Integers, Sequences, FiniteSetsExt, SequencesExt, TLC

Queue(bins, s) == IF s \in DOMAIN bins THEN bins[s] ELSE <<>>

PutFirst(bins, p, s) == (s :> <<p>> \o Queue(bins, s)) @@ bins
PutLast(bins, p, s) == (s :> Append(Queue(bins, s), p)) @@ bins

(* p leaves the queue of size s; an empty queue leaves the bins. *)
TakeOut(bins, p, s) ==
  IF Len(bins[s]) = 1 THEN [t \in DOMAIN bins \ {s} |-> bins[t]]
  ELSE [bins EXCEPT ![s] = Remove(@, p)]

Fitting(bins, nb) == {s \in DOMAIN bins : s >= nb}
=============================================================================
