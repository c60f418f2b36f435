-------------------------------- MODULE Slab --------------------------------
(***************************************************************************)
(* The slab cache of kernel/mm/slab.c, which holds the nodes of the kernel *)
(* address space list.  There is one slab, made by mm_cache_create_vm; a   *)
(* second one cannot be made, because mm_slab_create only panics.          *)
(*                                                                         *)
(* slab->free[0 .. objects_per_slab - inuse - 1] holds the numbers of the  *)
(* free objects.  An object is its number; the address arithmetic          *)
(* (start + object_size * number) and the clearing of the object are left  *)
(* out.                                                                    *)
(***************************************************************************)
EXTENDS Integers, FiniteSets

CONSTANT objects_per_slab   \* (SLAB_SIZE - header) / (object_size + 8), 341

(* With fewer than three objects the slab would be full before it ever     *)
(* counted as partial; the kernel's has 341.                               *)
ASSUME ObjectsAssumption == objects_per_slab \in Nat \ {0, 1, 2}

VARIABLES
  free,      \* slab->free
  inuse,     \* slab->inuse
  list,      \* the list of the cache that the slab's node is linked into
  live,      \* history: objects handed out and not freed
  panicked   \* panic("mm_slab_create unimplemented")

vars == <<free, inuse, list, live, panicked>>

Objects == 0 .. objects_per_slab - 1

(* mm_cache_create_vm with mm_slab_create_initial. *)
Init ==
  /\ free = [i \in Objects |-> i]
  /\ inuse = 0
  /\ list = "slabs_free"
  /\ live = {}
  /\ panicked = FALSE

(* The list mm_slab_alloc takes the slab to be in, and the next one up. *)
queue == IF inuse = 0 THEN "slabs_free" ELSE "slabs_partial"
queue_up == IF inuse = 0 THEN "slabs_partial" ELSE "slabs_full"

Index == objects_per_slab - inuse - 1

(* Mutant: the slab counts as full only when no object is left to take. *)
FullTooLate(used) == objects_per_slab - used < 0

(* The last free object but one has been taken: the slab moves up if it is *)
(* in the list `queue' (list_append and list_remove ignore the NULL tail   *)
(* of an empty list), and mm_slab_create panics.                           *)
Full(used) == objects_per_slab - used <= 1

(* mm_slab_alloc.  mm_slab_get takes the slab from slabs_partial or        *)
(* slabs_free; a call that panics returns no object.                       *)
Alloc ==
  /\ list \in {"slabs_partial", "slabs_free"}
  /\ free' = [free EXCEPT ![Index] = 0]
  /\ inuse' = inuse + 1
  /\ IF Full(inuse + 1)
       THEN /\ list' = IF list = queue THEN queue_up ELSE list
            /\ panicked' = TRUE
            /\ UNCHANGED live
       ELSE /\ live' = live \cup {free[Index]}
            /\ UNCHANGED <<list, panicked>>

(* Mutant: the freed object overwrites the topmost free one. *)
FreeOverwrites(object) ==
  /\ object \in live
  /\ free' = [free EXCEPT ![objects_per_slab - inuse - 1] = object]
  /\ inuse' = inuse - 1
  /\ live' = live \ {object}
  /\ UNCHANGED <<list, panicked>>

(* Mutant: the counter is not decremented. *)
FreeUncounted(object) ==
  /\ object \in live
  /\ free' = [free EXCEPT ![objects_per_slab - inuse] = object]
  /\ live' = live \ {object}
  /\ UNCHANGED <<inuse, list, panicked>>

(* mm_slab_free: the slab stays in its list, queue_down is not used. *)
Free(object) ==
  /\ object \in live
  /\ free' = [free EXCEPT ![objects_per_slab - inuse] = object]
  /\ inuse' = inuse - 1
  /\ live' = live \ {object}
  /\ UNCHANGED <<list, panicked>>

Next ==
  /\ ~panicked
  /\ Alloc \/ \E object \in Objects : Free(object)

Spec == Init /\ [][Next]_vars
-----------------------------------------------------------------------------
Lists == {"slabs_free", "slabs_partial", "slabs_full"}

TypeOK ==
  /\ free \in [Objects -> Objects]
  /\ inuse \in 0 .. objects_per_slab
  /\ list \in Lists
  /\ live \subseteq Objects
  /\ panicked \in BOOLEAN

FreeSlots == {i \in Objects : i < objects_per_slab - inuse}

(* The free part of the array names every object that is not live exactly  *)
(* once: mm_slab_alloc never returns a live object and, after any sequence *)
(* of allocations and frees, no object is forgotten.                       *)
FreeListExact ==
  ~panicked =>
    /\ {free[i] : i \in FreeSlots} = Objects \ live
    /\ \A i, j \in FreeSlots : free[i] = free[j] => i = j

(* The counter is the number of live objects. *)
InuseCounts == ~panicked => inuse = Cardinality(live)

(* mm_slab_alloc and mm_slab_free index the array inside its bounds. *)
IndexInBounds ==
  /\ ~panicked => Index \in Objects
  /\ ~panicked /\ live # {} => objects_per_slab - inuse \in Objects

(* The comment in mm_slab_alloc: `queue' is "the list this slab is in". *)
QueueIsList == ~panicked => list = queue
=============================================================================
