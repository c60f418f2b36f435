-------------------------------- MODULE DList --------------------------------
(***************************************************************************)
(* The doubly linked lists of kernel/util/list.c, pointer by pointer, and  *)
(* with the same code the list of kernel/mm/virtual.c.                     *)
(*                                                                         *)
(* Nodes come from malloc, or from a removal, so the links of a node that  *)
(* is in no list hold anything.  `contents' is what the lists stand for.   *)
(***************************************************************************)
EXTENDS Integers, SequencesExt

CONSTANTS Nodes, Lists, NULL

VARIABLES
  head, tail, length,  \* of each list
  prev, next,          \* of each node
  contents             \* history: the sequence each list represents

vars == <<head, tail, length, prev, next, contents>>

Links == Nodes \cup {NULL}

(* Static lists are zero; the nodes' memory is not initialised. *)
Init ==
  /\ head = [l \in Lists |-> NULL]
  /\ tail = [l \in Lists |-> NULL]
  /\ length = [l \in Lists |-> 0]
  /\ prev \in [Nodes -> Links]
  /\ next \in [Nodes -> Links]
  /\ contents = [l \in Lists |-> <<>>]

Linked == UNION {ToSet(contents[l]) : l \in Lists}

-----------------------------------------------------------------------------
(* list_append *)
ListAppend(l, node) ==
  /\ node \notin Linked
  /\ head' = IF head[l] = NULL THEN [head EXCEPT ![l] = node] ELSE head
  /\ next' = [n \in Nodes |-> IF n = node THEN NULL
                              ELSE IF n = tail[l] THEN node ELSE next[n]]
  /\ prev' = [prev EXCEPT ![node] = tail[l]]
  /\ tail' = [tail EXCEPT ![l] = node]
  /\ length' = [length EXCEPT ![l] = @ + 1]
  /\ contents' = [contents EXCEPT ![l] = Append(@, node)]

Position(l, node) == CHOOSE i \in DOMAIN contents[l] : contents[l][i] = node

(* Mutant: the tail is not moved when the node becomes the last one. *)
ListInsertAfterKeepsTail(l, after, node) ==
  /\ after \in ToSet(contents[l]) /\ node \notin Linked
  /\ prev' = [n \in Nodes |-> IF n = node THEN after
                              ELSE IF n = next[after] THEN node ELSE prev[n]]
  /\ next' = [next EXCEPT ![node] = next[after], ![after] = node]
  /\ length' = [length EXCEPT ![l] = @ + 1]
  /\ contents' = [contents EXCEPT ![l] = InsertAt(@, Position(l, after) + 1, node)]
  /\ UNCHANGED <<head, tail>>

(* list_insert_after and mm_virtual_insert_after *)
ListInsertAfter(l, after, node) ==
  /\ after \in ToSet(contents[l]) /\ node \notin Linked
  /\ prev' = [n \in Nodes |-> IF n = node THEN after
                              ELSE IF n = next[after] THEN node ELSE prev[n]]
  /\ tail' = IF next[after] = NULL THEN [tail EXCEPT ![l] = node] ELSE tail
  /\ next' = [next EXCEPT ![node] = next[after], ![after] = node]
  /\ length' = [length EXCEPT ![l] = @ + 1]
  /\ contents' = [contents EXCEPT ![l] = InsertAt(@, Position(l, after) + 1, node)]
  /\ UNCHANGED head

(* mm_virtual_insert_before *)
ListInsertBefore(l, before, node) ==
  /\ before \in ToSet(contents[l]) /\ node \notin Linked
  /\ next' = [n \in Nodes |-> IF n = node THEN before
                              ELSE IF n = prev[before] THEN node ELSE next[n]]
  /\ head' = IF prev[before] = NULL THEN [head EXCEPT ![l] = node] ELSE head
  /\ prev' = [prev EXCEPT ![node] = prev[before], ![before] = node]
  /\ length' = [length EXCEPT ![l] = @ + 1]
  /\ contents' = [contents EXCEPT ![l] = InsertAt(@, Position(l, before), node)]
  /\ UNCHANGED tail

(* list_remove and mm_virtual_remove: the node keeps its own links. *)
ListRemove(l, node) ==
  /\ node \in ToSet(contents[l])
  /\ head' = IF prev[node] = NULL THEN [head EXCEPT ![l] = next[node]] ELSE head
  /\ next' = [n \in Nodes |-> IF n = prev[node] THEN next[node] ELSE next[n]]
  /\ tail' = IF next[node] = NULL THEN [tail EXCEPT ![l] = prev[node]] ELSE tail
  /\ prev' = [n \in Nodes |-> IF n = next[node] THEN prev[node] ELSE prev[n]]
  /\ length' = [length EXCEPT ![l] = @ - 1]
  /\ contents' = [contents EXCEPT ![l] = RemoveAt(@, Position(l, node))]

-----------------------------------------------------------------------------
TypeOK ==
  /\ head \in [Lists -> Links] /\ tail \in [Lists -> Links]
  /\ length \in [Lists -> Nat]
  /\ prev \in [Nodes -> Links] /\ next \in [Nodes -> Links]
  /\ contents \in [Lists -> Seq(Nodes)]

(* Following next from head, or prev from tail, visits the nodes of the    *)
(* list in order and ends: no operation leaves a dangling link, and an     *)
(* operation on one list never disturbs another.                           *)
Represents(l) ==
  LET s == contents[l]
      At(i) == IF i \in DOMAIN s THEN s[i] ELSE NULL
  IN /\ head[l] = At(1)
     /\ tail[l] = At(Len(s))
     /\ length[l] = Len(s)
     /\ \A i \in DOMAIN s : next[s[i]] = At(i + 1) /\ prev[s[i]] = At(i - 1)

ListsWellFormed == \A l \in Lists : Represents(l)
=============================================================================
