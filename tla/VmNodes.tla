------------------------------- MODULE VmNodes -------------------------------
(***************************************************************************)
(* The nodes of the kernel's address space list in memory: objects of the  *)
(* slab cache (Slab), linked into a doubly linked list (DList) by the      *)
(* functions of kernel/mm/virtual.c.  AddressSpace has what the nodes say. *)
(*                                                                         *)
(* mm_slab_alloc clears the object it returns; the links of a freed object *)
(* stay what they were.  In mm_virtual_free the removal of nodes is        *)
(* commented out ("this breaks somewhere"), so that no node is ever freed; *)
(* the model removes nodes the way these functions are meant to be called. *)
(***************************************************************************)
EXTENDS Slab

CONSTANT NULL   \* the pointer 0

ASSUME NullAssumption == NULL \notin Objects

VARIABLES head, tail, length, prev, next, contents

L == INSTANCE DList WITH Nodes <- Objects, Lists <- {"vm"}

slab == <<free, inuse, list, live, panicked>>
links == <<head, tail, length, prev, next, contents>>
nodes == <<slab, links>>

NodesInit ==
  /\ Init
  /\ prev = [n \in Objects |-> NULL] /\ next = [n \in Objects |-> NULL]
  /\ L!Init

(* The object mm_slab_alloc is about to return. *)
Top == free[Index]

(* The first node of the list, as mm_virtual_range_set makes it: list.head *)
(* and list.tail are set to it.                                            *)
FirstNode ==
  /\ Alloc
  /\ IF panicked' THEN UNCHANGED links ELSE L!ListAppend("vm", Top)

(* A node split off another one goes behind it, or in front of it. *)
SplitAfter(after) ==
  /\ Alloc
  /\ IF panicked' THEN UNCHANGED links ELSE L!ListInsertAfter("vm", after, Top)

SplitBefore(before) ==
  /\ Alloc
  /\ IF panicked' THEN UNCHANGED links ELSE L!ListInsertBefore("vm", before, Top)

(* Mutant: the node before the removed one is freed, as in the commented   *)
(* lines of mm_virtual_free, where mm_virtual_remove(free->prev) has       *)
(* changed free->prev when mm_slab_free(cache, free->prev) reads it.       *)
MergeFreesPrev(node) ==
  /\ L!ListRemove("vm", node)
  /\ Free(IF prev[node] = NULL THEN node ELSE prev[node])

(* mm_virtual_remove, then mm_slab_free. *)
Merge(node) ==
  /\ L!ListRemove("vm", node)
  /\ Free(node)

NodesNext ==
  /\ ~panicked
  /\ \/ head["vm"] = NULL /\ FirstNode
     \/ \E n \in L!Linked : SplitAfter(n) \/ SplitBefore(n) \/ Merge(n)

NodesSpec == NodesInit /\ [][NodesNext]_nodes
-----------------------------------------------------------------------------
(* The list that the pointers make up is the one the operations stand for, *)
(* forwards and backwards, whatever stale links a reused object holds.     *)
NodesWellFormed == L!ListsWellFormed

(* The nodes on the list are the live objects of the slab: no node on the  *)
(* list can be handed out again, and none that left it stays allocated.    *)
LinkedAreLive == ~panicked => L!Linked = live
=============================================================================
