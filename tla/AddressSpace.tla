---------------------------- MODULE AddressSpace ----------------------------
(***************************************************************************)
(* The kernel's address space list of kernel/mm/virtual.c: the nodes set   *)
(* up at boot by mm_virtual_range_set, and mm_virtual_alloc and            *)
(* mm_virtual_free on them.                                                *)
(*                                                                         *)
(* Addresses and lengths count pages and are scaled down; no address of    *)
(* the kernel's ranges wraps around 2^64 (the first one ends exactly       *)
(* there).  The linked list is a sequence (DList models the pointers), its *)
(* nodes come from the slab cache (Slab), of which only the number of      *)
(* objects in use matters here.  Mapping adds the page tables and the      *)
(* callers; the runs check the two together.                               *)
(***************************************************************************)
EXTENDS Integers, Sequences

CONSTANTS
  BootRanges,        \* the calls of mm_virtual_range_set in mm_virtual_init,
                     \* each a set of ranges: the size of the kernel is open
  MaxPages,          \* largest request of a caller
  objects_per_slab   \* nodes the slab cache has room for

VM_FREE == "VM_FREE"
VM_USED == "VM_USED"

NodeFlags == {{}, {VM_FREE}, {VM_USED}}

(* struct vm_node without the links. *)
Node == [start : Nat, len : Nat \ {0}, flags : NodeFlags]

End(node) == node.start + node.len

(* The first call sets the whole space free; the ranges of the others are  *)
(* in use.                                                                 *)
ASSUME BootAssumption ==
  /\ BootRanges \in Seq(SUBSET Node) /\ BootRanges # <<>>
  /\ \A r \in BootRanges[1] : r.flags = {VM_FREE}
  /\ \A k \in DOMAIN BootRanges \ {1} : \A r \in BootRanges[k] : r.flags = {VM_USED}

ASSUME BoundAssumption ==
  /\ MaxPages \in Nat \ {0}
  /\ objects_per_slab \in Nat \ {0, 1, 2}

VARIABLES
  list,      \* the nodes from head to tail
  inuse,     \* objects of the slab cache that are in use
  boot,      \* number of calls mm_virtual_init has made
  panicked,
  reserved,  \* history: ranges set in use at boot
  owned      \* history: regions handed out and not freed

vars == <<list, inuse, boot, panicked, reserved, owned>>

Init ==
  /\ list = <<>>
  /\ inuse = 0
  /\ boot = 0
  /\ panicked = FALSE
  /\ reserved = {}
  /\ owned = {}

-----------------------------------------------------------------------------
(* mm_virtual_insert_after *)
InsertAfter(nodes, i, new) ==
  [j \in 1 .. Len(nodes) + 1 |->
     IF j <= i THEN nodes[j] ELSE IF j = i + 1 THEN new ELSE nodes[j - 1]]

Panic ==
  /\ panicked' = TRUE
  /\ UNCHANGED <<list, inuse>>

(* n calls of mm_slab_alloc, then the list becomes `nodes'.  The call that *)
(* leaves a single object in the slab panics.                              *)
SlabRoom(n) == objects_per_slab - (inuse + n) > 1

TakeNodes(n, nodes) ==
  IF SlabRoom(n)
    THEN /\ inuse' = inuse + n
         /\ list' = nodes
         /\ UNCHANGED panicked
    ELSE Panic

(* The node the loop of mm_virtual_range_set stops at: the first one that  *)
(* starts above addr, or the last one.                                     *)
IsPrev(p, addr) ==
  /\ p = Len(list) \/ list[p].start > addr
  /\ \A i \in 1 .. p - 1 : list[i].start <= addr

(* "is the new node not within an existing one?"  The code compares last   *)
(* bytes: addr + len - 1 > next->start when the end lies a page above it.  *)
Apart(p, r) ==
  /\ End(list[p]) <= r.start
  /\ p < Len(list) /\ End(r) > list[p + 1].start

WithinPrev(p, r) == list[p].start <= r.start /\ End(list[p]) >= End(r)
StartAligned(p, r) == list[p].start = r.start
EndAligned(p, r) == End(list[p]) = End(r)

(* Mutant: the range set gets the flags prev had. *)
CutStartOldFlags(p, r) ==
  InsertAfter([list EXCEPT ![p].len = r.len], p,
              [start |-> End(r), len |-> list[p].len - r.len, flags |-> list[p].flags])

(* prev becomes the range and a new node its rest, with prev's old flags. *)
CutStart(p, r) ==
  InsertAfter([list EXCEPT ![p] = r], p,
              [start |-> End(r), len |-> list[p].len - r.len, flags |-> list[p].flags])

(* The range is cut out of the middle of prev.  The node for the rest is   *)
(* fresh from the slab, which clears it: its flags stay 0.                 *)
CutOut(p, r) ==
  LET before == [list EXCEPT ![p].len = r.start - list[p].start]
      post == [start |-> End(r), len |-> End(list[p]) - End(r), flags |-> {}]
  IN InsertAfter(InsertAfter(before, p, r), p + 1, post)

(* The cases of mm_virtual_range_set once prev is found. *)
Place(p, r) ==
  IF Apart(p, r)
    THEN TakeNodes(1, InsertAfter(list, p, r))
    ELSE /\ WithinPrev(p, r) /\ ~EndAligned(p, r)
         /\ IF StartAligned(p, r) THEN TakeNodes(1, CutStart(p, r))
                                  ELSE TakeNodes(2, CutOut(p, r))

(* "end-aligned", "start-/end-aligned" and "unhandled overlap" *)
PlacePanic(p, r) ==
  /\ ~Apart(p, r)
  /\ ~WithinPrev(p, r) \/ EndAligned(p, r)
  /\ Panic

(* One call of mm_virtual_range_set by mm_virtual_init. *)
RangeSet(r) ==
  /\ \/ list = <<>> /\ TakeNodes(1, <<r>>)
     \/ \E p \in DOMAIN list : IsPrev(p, r.start) /\ (Place(p, r) \/ PlacePanic(p, r))
  /\ reserved' = IF VM_USED \in r.flags THEN reserved \cup {r} ELSE reserved
  /\ UNCHANGED owned

Boot ==
  /\ boot < Len(BootRanges)
  /\ \E r \in BootRanges[boot + 1] : RangeSet(r)
  /\ boot' = boot + 1

-----------------------------------------------------------------------------
Booted == boot = Len(BootRanges)

Fits(i, pages) == VM_FREE \in list[i].flags /\ list[i].len >= pages

(* The first node of the list that is free and long enough. *)
IsFirstFit(i, pages) ==
  Fits(i, pages) /\ \A j \in 1 .. i - 1 : ~Fits(j, pages)

(* The node for the pages handed out: VM_FREE is cleared, VM_USED set. *)
Claimed(i, pages) ==
  [list[i] EXCEPT !.len = pages, !.flags = (@ \ {VM_FREE}) \cup {VM_USED}]

(* Mutant: the rest keeps the length of the whole node. *)
RestFullLength(i, pages) ==
  [start |-> list[i].start + pages, len |-> list[i].len, flags |-> list[i].flags]

Rest(i, pages) ==
  [start |-> list[i].start + pages, len |-> list[i].len - pages, flags |-> list[i].flags]

(* mm_virtual_alloc.  It returns 0 and changes nothing when no node fits   *)
(* or pages is 0.                                                          *)
Alloc(pages) ==
  /\ Booted
  /\ \E i \in DOMAIN list :
       LET marked == [list EXCEPT ![i] = Claimed(i, pages)]
       IN /\ IsFirstFit(i, pages)
          /\ IF list[i].len = pages
               THEN list' = marked /\ UNCHANGED <<inuse, panicked>>
               ELSE TakeNodes(1, InsertAfter(marked, i, Rest(i, pages)))
          /\ owned' = IF panicked' THEN owned ELSE owned \cup {Claimed(i, pages)}
  /\ UNCHANGED <<boot, reserved>>

InUseAt(i, addr) == list[i].start = addr /\ VM_USED \in list[i].flags

(* mm_virtual_free of a region a caller owns.  The node found is the first *)
(* one in use that starts there; it is not merged with its neighbours.     *)
Free(region) ==
  /\ Booted
  /\ region \in owned
  /\ \E i \in DOMAIN list :
       /\ InUseAt(i, region.start)
       /\ \A j \in 1 .. i - 1 : ~InUseAt(j, region.start)
       /\ list' = [list EXCEPT ![i].flags = (@ \ {VM_USED}) \cup {VM_FREE}]
  /\ owned' = owned \ {region}
  /\ UNCHANGED <<inuse, boot, panicked, reserved>>

Next ==
  /\ ~panicked
  /\ \/ Boot
     \/ \E pages \in 1 .. MaxPages : Alloc(pages)
     \/ \E region \in owned : Free(region)

Spec == Init /\ [][Next]_vars
-----------------------------------------------------------------------------
TypeOK ==
  /\ list \in Seq(Node)
  /\ inuse \in Nat
  /\ boot \in 0 .. Len(BootRanges)
  /\ panicked \in BOOLEAN
  /\ reserved \subseteq Node
  /\ owned \subseteq Node

(* The nodes tile the space of the first range: in order, without gap and  *)
(* without overlap, whatever was set, allocated and freed.                 *)
Tiling ==
  list # <<>> =>
    /\ \E space \in BootRanges[1] :
         list[1].start = space.start /\ End(list[Len(list)]) = End(space)
    /\ \A i \in 1 .. Len(list) - 1 : End(list[i]) = list[i + 1].start
    /\ \A i, j \in 1 .. Len(list) : i < j => End(list[i]) <= list[j].start

(* Every region a caller owns is exactly one node of the list, in use and  *)
(* of the length asked for, and so is every range reserved at boot.  Hence *)
(* mm_virtual_free finds the node of a region and returns the length that  *)
(* munmap and acpi_os_unmap_memory assert.                                 *)
RegionsAreNodes ==
  ~panicked => \A region \in owned \cup reserved : \E i \in DOMAIN list : list[i] = region

(* mm_virtual_dump prints every node that is not in use as "free". *)
DumpedFreeIsFree ==
  \A i \in DOMAIN list : VM_USED \notin list[i].flags => VM_FREE \in list[i].flags
=============================================================================
