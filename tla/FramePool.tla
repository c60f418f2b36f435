------------------------------ MODULE FramePool ------------------------------
(***************************************************************************)
(* What the physical memory manager promises its callers: a pool of page   *)
(* frames.  An allocation takes any one frame out of the pool, a release   *)
(* puts one in and may consume one other free frame for the manager's own  *)
(* bookkeeping, and the manager gives up only when the pool is empty.      *)
(* PhysicalMemory, the model of kernel/mm/physical.c, implements it.       *)
(***************************************************************************)
CONSTANT Frames

VARIABLES
  free,       \* frames an allocation may return
  held,       \* frames the callers own
  unclaimed,  \* usable frames the boot loop has not handed over yet
  panicked    \* the manager stopped the machine

vars == <<free, held, unclaimed, panicked>>

Init ==
  /\ free = {}
  /\ held = {}
  /\ unclaimed = Frames
  /\ panicked = FALSE

Alloc ==
  \E f \in free :
    /\ free' = free \ {f}
    /\ held' = held \cup {f}
    /\ UNCHANGED <<unclaimed, panicked>>

(* The frames that remain free when one of them may become bookkeeping. *)
Remainders == {free} \cup {free \ {b} : b \in free}

Release(f) == \E rest \in Remainders : free' = rest \cup {f}

Claim ==
  \E f \in unclaimed :
    /\ Release(f)
    /\ unclaimed' = unclaimed \ {f}
    /\ UNCHANGED <<held, panicked>>

GiveBack ==
  \E f \in held :
    /\ Release(f)
    /\ held' = held \ {f}
    /\ UNCHANGED <<unclaimed, panicked>>

OutOfMemory ==
  /\ free = {}
  /\ panicked' = TRUE
  /\ UNCHANGED <<free, held, unclaimed>>

Next ==
  /\ ~panicked
  /\ Alloc \/ Claim \/ GiveBack \/ OutOfMemory

Spec == Init /\ [][Next]_vars
=============================================================================
