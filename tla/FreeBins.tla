------------------------------ MODULE FreeBins ------------------------------
(***************************************************************************)
(* The large bins as the heap sees them: chunks come and go, and a request *)
(* gets the chunk that has waited longest among those of the smallest size *)
(* that fits.                                                              *)
(***************************************************************************)
EXTENDS Bins

CONSTANTS
  Chunk,   \* the chunks there are
  Size,    \* the sizes a large chunk may have
  Wanted,  \* the sizes asked for
  NULL     \* no chunk

VARIABLES
  bins,    \* free chunks by size
  taken    \* the last request and what it got, if that was the last call

vars == <<bins, taken>>

Nothing == [wanted |-> 0, got |-> NULL]

Init ==
  /\ bins = <<>>
  /\ taken = Nothing

Held(s) == ToSet(Queue(bins, s))

Insert(x, s) ==
  /\ \A t \in DOMAIN bins : x \notin Held(t)
  /\ bins' = PutLast(bins, x, s)
  /\ taken' = Nothing

(* A neighbour is freed or extended and x becomes part of it. *)
Unlink(x, s) ==
  /\ x \in Held(s)
  /\ bins' = TakeOut(bins, x, s)
  /\ taken' = Nothing

Take(nb) ==
  LET s == Min(Fitting(bins, nb))
      got == IF Fitting(bins, nb) = {} THEN NULL ELSE Head(bins[s])
  IN /\ taken' = [wanted |-> nb, got |-> got]
     /\ bins' = IF got = NULL THEN bins ELSE TakeOut(bins, got, s)

Next ==
  \/ \E x \in Chunk, s \in Size : Insert(x, s) \/ Unlink(x, s)
  \/ \E nb \in Wanted : Take(nb)

Spec == Init /\ [][Next]_vars
=============================================================================
