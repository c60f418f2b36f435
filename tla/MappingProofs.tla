---------------------------- MODULE MappingProofs ----------------------------
(***************************************************************************)
(* Proofs about the address space, the page tables and the TLB together,   *)
(* for every address space, every number of frames and every device.       *)
(***************************************************************************)
EXTENDS Mapping, TLAPS

(***************************************************************************)
(* The address space list of kernel/mm/virtual.c alone, for every set of   *)
(* boot ranges, every size of request and every slab.                      *)
(***************************************************************************)
(* mm_virtual_init runs to its end before the first mm_virtual_alloc, and  *)
(* its first call never fails.                                             *)
BootFirst ==
  /\ boot = 0 <=> list = <<>>
  /\ boot = 0 => ~panicked /\ inuse = 0 /\ reserved = {}
  /\ ~Booted => owned = {}

(* Where the next call of mm_virtual_range_set can cut: the reserved       *)
(* ranges lie below the last node.                                         *)
CutsBehind ==
  ~panicked /\ ~Booted /\ list # <<>> =>
    \A q \in reserved : End(q) <= list[Len(list)].start

(* A region is in use, and is not both reserved and handed out. *)
RegionsApart ==
  ~panicked =>
    /\ \A q \in reserved \cup owned : q.flags = {VM_USED}
    /\ reserved \cap owned = {}

SpaceInv ==
  /\ TypeOK /\ Tiling /\ RegionsAreNodes
  /\ BootFirst /\ CutsBehind /\ RegionsApart
-----------------------------------------------------------------------------
(* A list of nodes that covers lo .. hi - 1 in order, without gap. *)
Tiles(s, lo, hi) ==
  /\ s \in Seq(Node) /\ s # <<>>
  /\ s[1].start = lo /\ End(s[Len(s)]) = hi
  /\ \A i \in 1 .. Len(s) - 1 : End(s[i]) = s[i + 1].start
  /\ \A i, j \in 1 .. Len(s) : i < j => End(s[i]) <= s[j].start

(* Node i of s replaced by a. *)
Replaced(s, i, a) == [s EXCEPT ![i] = a]

(* A node ends behind its start. *)
LEMMA NodeFacts ==
  ASSUME NEW n \in Node
  PROVE  n.start \in Nat /\ n.len \in Nat /\ End(n) \in Nat /\ n.start < End(n)
  BY DEF Node, End

(* t is the list s with x inserted behind node i. *)
IsInserted(t, s, i, x) ==
  /\ t \in Seq(Node) /\ Len(t) = Len(s) + 1
  /\ DOMAIN t = 1 .. Len(s) + 1
  /\ \A j \in 1 .. Len(s) + 1 :
       t[j] = IF j <= i THEN s[j] ELSE IF j = i + 1 THEN x ELSE s[j - 1]

(* What mm_virtual_insert_after leaves in the list.                        *)
LEMMA InsertFacts ==
  ASSUME NEW s \in Seq(Node), NEW i \in 1 .. Len(s), NEW x \in Node
  PROVE  IsInserted(InsertAfter(s, i, x), s, i, x)
<1> DEFINE t == InsertAfter(s, i, x)
<1>1. Len(s) \in Nat /\ \A j \in 1 .. Len(s) : s[j] \in Node
  OBVIOUS
<1>2. t = [j \in 1 .. Len(s) + 1 |->
             IF j <= i THEN s[j] ELSE IF j = i + 1 THEN x ELSE s[j - 1]]
  BY DEF InsertAfter
<1>3. \A j \in 1 .. Len(s) + 1 : t[j] \in Node
  BY <1>1, <1>2
<1>4. t \in [1 .. Len(s) + 1 -> Node]
  BY <1>2, <1>3
<1>5. t \in Seq(Node) /\ Len(t) = Len(s) + 1
  BY <1>1, <1>4
<1>6. /\ DOMAIN t = 1 .. Len(s) + 1
      /\ \A j \in 1 .. Len(s) + 1 :
           t[j] = IF j <= i THEN s[j] ELSE IF j = i + 1 THEN x ELSE s[j - 1]
  BY <1>1, <1>2
<1> HIDE DEF t
<1>7. IsInserted(t, s, i, x)
  BY <1>5, <1>6 DEF IsInserted
<1>8. QED
  BY <1>7 DEF t

(* A node changed in place: the other nodes stay. *)
LEMMA ReplaceFacts ==
  ASSUME NEW s \in Seq(Node), NEW i \in 1 .. Len(s), NEW a \in Node
  PROVE  LET t == Replaced(s, i, a)
         IN /\ t \in Seq(Node) /\ Len(t) = Len(s) /\ DOMAIN t = 1 .. Len(s)
            /\ t[i] = a
            /\ \A j \in 1 .. Len(s) : j # i => t[j] = s[j]
<1> DEFINE t == Replaced(s, i, a)
<1>1. Len(s) \in Nat /\ s \in [1 .. Len(s) -> Node] /\ DOMAIN s = 1 .. Len(s)
  OBVIOUS
<1>2. t = [s EXCEPT ![i] = a]
  BY DEF Replaced
<1>3. t \in [1 .. Len(s) -> Node]
  BY <1>1, <1>2
<1>4. t \in Seq(Node) /\ Len(t) = Len(s)
  BY <1>1, <1>3
<1>5. QED
  BY <1>1, <1>2, <1>4

(* No two nodes of a tiling start at the same address, so the searches of  *)
(* mm_virtual_free and mm_virtual_range_set find at most one node.         *)
LEMMA StartsDiffer ==
  ASSUME NEW s, NEW lo, NEW hi, Tiles(s, lo, hi),
         NEW i \in 1 .. Len(s), NEW j \in 1 .. Len(s), s[i].start = s[j].start
  PROVE  i = j
<1>1. \A k \in 1 .. Len(s) : s[k] \in Node
  BY DEF Tiles
<1>2. \A k \in 1 .. Len(s) : End(s[k]) > s[k].start /\ s[k].start \in Nat
  BY <1>1 DEF End, Node
<1>3. Len(s) \in Nat
  BY DEF Tiles
<1>4. \A k, m \in 1 .. Len(s) : k < m => End(s[k]) <= s[m].start
  BY DEF Tiles
<1>5. End(s[i]) \in Int /\ End(s[j]) \in Int
  BY <1>1 DEF End, Node
<1>6. ~(i < j) /\ ~(j < i)
  BY <1>2, <1>4, <1>5
<1>7. QED
  BY <1>3, <1>6

(* Two nodes of a tiling are apart and within the space tiled. *)
LEMMA NodesApart ==
  ASSUME NEW s, NEW lo, NEW hi, Tiles(s, lo, hi),
         NEW i \in 1 .. Len(s), NEW j \in 1 .. Len(s)
  PROVE  /\ i = j \/ End(s[i]) <= s[j].start \/ End(s[j]) <= s[i].start
         /\ lo <= s[i].start /\ End(s[i]) <= hi
<1>1. s \in Seq(Node) /\ Len(s) \in Nat /\ 1 \in 1 .. Len(s) /\ Len(s) \in 1 .. Len(s)
  BY DEF Tiles
<1>2. \A k, m \in 1 .. Len(s) : k < m => End(s[k]) <= s[m].start
  BY DEF Tiles
<1>3. \A k \in 1 .. Len(s) :
        s[k].start \in Nat /\ End(s[k]) \in Nat /\ s[k].start < End(s[k])
  BY <1>1, NodeFacts
<1>4. lo = s[1].start /\ hi = End(s[Len(s)])
  BY DEF Tiles
<1>5. lo <= s[i].start
  <2>1. CASE i = 1
    BY <1>1, <1>3, <1>4, <2>1
  <2>2. CASE i # 1
    BY <1>1, <1>2, <1>3, <1>4, <2>2
  <2>3. QED
    BY <2>1, <2>2
<1>6. End(s[i]) <= hi
  <2>1. CASE i = Len(s)
    BY <1>1, <1>3, <1>4, <2>1
  <2>2. CASE i # Len(s)
    <3>1. End(s[i]) <= s[Len(s)].start
      BY <1>1, <1>2, <2>2
    <3>2. QED
      BY <1>1, <1>3, <1>4, <3>1
  <2>3. QED
    BY <2>1, <2>2
<1>7. QED
  BY <1>1, <1>2, <1>5, <1>6

(* Changing only the flags of a node keeps the tiling. *)
LEMMA ReflagTiles ==
  ASSUME NEW s, NEW lo, NEW hi, Tiles(s, lo, hi), NEW i \in 1 .. Len(s),
         NEW a \in Node, a.start = s[i].start, a.len = s[i].len
  PROVE  Tiles(Replaced(s, i, a), lo, hi)
<1> DEFINE t == Replaced(s, i, a)
<1>1. s \in Seq(Node) /\ Len(s) \in Nat /\ s # <<>>
  BY DEF Tiles
<1>2. /\ t \in Seq(Node) /\ Len(t) = Len(s)
      /\ t[i] = a /\ \A j \in 1 .. Len(s) : j # i => t[j] = s[j]
  BY <1>1, ReplaceFacts
<1> HIDE DEF t
<1>3. \A j \in 1 .. Len(s) : t[j].start = s[j].start /\ End(t[j]) = End(s[j])
  BY <1>2 DEF End
<1>4. t # <<>>
  BY <1>1, <1>2
<1>5. 1 \in 1 .. Len(s) /\ Len(s) \in 1 .. Len(s)
  BY <1>1
<1>6. \A j \in 1 .. Len(s) - 1 : j \in 1 .. Len(s) /\ j + 1 \in 1 .. Len(s)
  BY <1>1
<1>7. Tiles(t, lo, hi)
  BY <1>2, <1>3, <1>4, <1>5, <1>6 DEF Tiles
<1>8. QED
  BY <1>7 DEF t

(* t is a tiling s with node i replaced by a and b. *)
IsSplit(t, s, i, a, b, lo, hi) ==
  /\ Tiles(t, lo, hi)
  /\ Len(t) = Len(s) + 1
  /\ t[i] = a /\ t[i + 1] = b
  /\ \A k \in 1 .. Len(s) : k < i => t[k] = s[k]
  /\ \A k \in 1 .. Len(s) : k > i => t[k + 1] = s[k]

(* Splitting a node in two keeps the tiling: this is what the start-       *)
(* aligned case of mm_virtual_range_set and mm_virtual_alloc do, and the   *)
(* general case of mm_virtual_range_set does twice.                        *)
LEMMA SplitTiles ==
  ASSUME NEW s, NEW lo, NEW hi, Tiles(s, lo, hi), NEW i \in 1 .. Len(s),
         NEW a \in Node, NEW b \in Node,
         a.start = s[i].start, End(a) = b.start, End(b) = End(s[i])
  PROVE  IsSplit(InsertAfter(Replaced(s, i, a), i, b), s, i, a, b, lo, hi)
<1> DEFINE u == Replaced(s, i, a)
           t == InsertAfter(u, i, b)
<1>1. s \in Seq(Node) /\ Len(s) \in Nat /\ s # <<>>
  BY DEF Tiles
<1>2. /\ u \in Seq(Node) /\ Len(u) = Len(s)
      /\ u[i] = a /\ \A j \in 1 .. Len(s) : j # i => u[j] = s[j]
  BY <1>1, ReplaceFacts
<1> HIDE DEF u
<1>3. /\ t \in Seq(Node) /\ Len(t) = Len(s) + 1
      /\ \A j \in 1 .. Len(s) + 1 :
           t[j] = IF j <= i THEN u[j] ELSE IF j = i + 1 THEN b ELSE u[j - 1]
  <2>1. i \in 1 .. Len(u)
    BY <1>2
  <2>2. IsInserted(t, u, i, b)
    BY <1>2, <2>1, InsertFacts
  <2> HIDE DEF t
  <2>3. QED
    BY <1>2, <2>2 DEF IsInserted
<1> HIDE DEF t
<1>4. /\ t[i] = a /\ t[i + 1] = b
      /\ \A k \in 1 .. Len(s) : k < i => t[k] = s[k]
      /\ \A k \in 1 .. Len(s) : k > i => t[k + 1] = s[k]
  <2>1. t[i] = a /\ t[i + 1] = b
    BY <1>1, <1>2, <1>3
  <2>2. ASSUME NEW k \in 1 .. Len(s), k < i PROVE t[k] = s[k]
    BY <1>1, <1>2, <1>3, <2>2
  <2>3. ASSUME NEW k \in 1 .. Len(s), k > i PROVE t[k + 1] = s[k]
    <3>1. k + 1 \in 1 .. Len(s) + 1 /\ ~(k + 1 <= i) /\ k + 1 # i + 1 /\ (k + 1) - 1 = k
      BY <1>1, <2>3
    <3>2. QED
      BY <1>2, <1>3, <2>3, <3>1
  <2>4. QED
    BY <2>1, <2>2, <2>3
<1>5. \A k \in 1 .. Len(s) : s[k].start \in Nat /\ s[k].len \in Nat \ {0}
  <2>1. \A k \in 1 .. Len(s) : s[k] \in Node
    BY <1>1
  <2>2. QED
    BY <2>1 DEF Node
<1>6. a.start \in Nat /\ a.len \in Nat \ {0} /\ b.start \in Nat /\ b.len \in Nat \ {0}
  BY DEF Node
<1>7. /\ s[1].start = lo /\ End(s[Len(s)]) = hi
      /\ \A k \in 1 .. Len(s) - 1 : End(s[k]) = s[k + 1].start
      /\ \A k, j \in 1 .. Len(s) : k < j => End(s[k]) <= s[j].start
  BY DEF Tiles
<1>8. t # <<>> /\ t[1].start = lo
  BY <1>1, <1>3, <1>4, <1>7
<1>9. End(t[Len(t)]) = hi
  <2>1. CASE i = Len(s)
    BY <1>3, <1>4, <1>7, <2>1
  <2>2. CASE i # Len(s)
    BY <1>1, <1>3, <1>4, <1>7, <2>2
  <2>3. QED
    BY <2>1, <2>2
<1>10. \A k \in 1 .. Len(t) - 1 : End(t[k]) = t[k + 1].start
  <2> SUFFICES ASSUME NEW k \in 1 .. Len(s) PROVE End(t[k]) = t[k + 1].start
    BY <1>3
  <2>1. CASE k < i - 1
    BY <1>1, <1>4, <1>7, <2>1
  <2>2. CASE k = i - 1
    BY <1>1, <1>4, <1>7, <2>2
  <2>3. CASE k = i
    BY <1>4, <2>3
  <2>4. CASE k = i + 1
    BY <1>1, <1>4, <1>7, <2>4
  <2>5. CASE k > i + 1
    <3>1. t[k] = s[k - 1] /\ t[k + 1] = s[k]
      <4>1. k - 1 \in 1 .. Len(s) /\ k - 1 > i /\ (k - 1) + 1 = k
        BY <1>1, <2>5
      <4>2. QED
        BY <1>4, <2>5, <4>1
    <3>2. QED
      BY <1>1, <1>7, <2>5, <3>1
  <2>6. QED
    BY <2>1, <2>2, <2>3, <2>4, <2>5
<1>11. \A k, j \in 1 .. Len(t) : k < j => End(t[k]) <= t[j].start
  <2> SUFFICES ASSUME NEW k \in 1 .. Len(s) + 1, NEW j \in 1 .. Len(s) + 1, k < j
               PROVE  End(t[k]) <= t[j].start
    BY <1>3
  <2>1. \A m \in 1 .. Len(s) + 1 :
          LET o == IF m <= i THEN m ELSE m - 1
          IN /\ o \in 1 .. Len(s)
             /\ s[o].start <= t[m].start /\ End(t[m]) <= End(s[o])
             /\ o # i => t[m] = s[o]
    <3> TAKE m \in 1 .. Len(s) + 1
    <3>1. CASE m < i
      <4>1. m \in 1 .. Len(s) /\ m <= i /\ t[m] = s[m]
        BY <1>1, <1>4, <3>1
      <4>2. s[m].start \in Nat /\ End(s[m]) \in Nat
        BY <1>1, <4>1, NodeFacts
      <4>3. QED
        BY <4>1, <4>2
    <3>2. CASE m = i
      BY <1>1, <1>4, <1>5, <1>6, <3>2, SMTT(30) DEF End
    <3>3. CASE m = i + 1
      <4>1. t[m] = b /\ ~(m <= i) /\ m - 1 = i
        BY <1>4, <3>3
      <4>2. s[i].start <= b.start /\ End(b) <= End(s[i])
        BY <1>5, <1>6, SMTT(30) DEF End
      <4>3. QED
        BY <4>1, <4>2
    <3>4. CASE m > i + 1
      <4>1. m - 1 \in 1 .. Len(s) /\ m - 1 > i /\ (m - 1) + 1 = m
        BY <1>1, <3>4
      <4>2. t[m] = s[m - 1]
        BY <1>4, <4>1
      <4>3. QED
        BY <1>5, <3>4, <4>1, <4>2 DEF End
    <3>5. QED
      BY <3>1, <3>2, <3>3, <3>4
  <2> DEFINE ok == IF k <= i THEN k ELSE k - 1
             oj == IF j <= i THEN j ELSE j - 1
  <2>2. CASE ok < oj
    <3>1. /\ ok \in 1 .. Len(s) /\ oj \in 1 .. Len(s)
          /\ End(t[k]) <= End(s[ok]) /\ s[oj].start <= t[j].start
      BY <2>1
    <3>2. End(s[ok]) <= s[oj].start
      BY <1>7, <2>2, <3>1
    <3>3. t[k] \in Node /\ t[j] \in Node /\ s[ok] \in Node /\ s[oj] \in Node
      BY <1>1, <1>3, <3>1
    <3> HIDE DEF ok, oj
    <3>4. End(t[k]) \in Int /\ t[j].start \in Int /\ End(s[ok]) \in Int /\ s[oj].start \in Int
      BY <3>3, NodeFacts, SMTT(30)
    <3>5. QED
      BY <3>1, <3>2, <3>4
  <2>3. CASE ~(ok < oj)
    <3>1. k = i /\ j = i + 1
      BY <1>1, <2>3
    <3>2. QED
      BY <1>4, <1>6, <3>1 DEF End
  <2>4. QED
    BY <2>2, <2>3
<1>12. Tiles(t, lo, hi)
  BY <1>3, <1>8, <1>9, <1>10, <1>11 DEF Tiles
<1>13. IsSplit(t, s, i, a, b, lo, hi)
  BY <1>3, <1>4, <1>12 DEF IsSplit
<1>14. QED
  BY <1>13 DEF t, u

-----------------------------------------------------------------------------
(* The list is empty before the first call of mm_virtual_range_set and     *)
(* tiles one of the spaces that call can set from then on.                 *)
LEMMA ListTiles ==
  ASSUME TypeOK, Tiling, list # <<>>
  PROVE  \E sp \in BootRanges[1] : Tiles(list, sp.start, End(sp))
  BY DEF TypeOK, Tiling, Tiles

(* The state mm_virtual_init starts from. *)
LEMMA InitSpace == Init => SpaceInv
<1> SUFFICES ASSUME Init PROVE SpaceInv
  OBVIOUS
<1>1. Len(BootRanges) \in Nat \ {0}
  BY BootAssumption
<1>2. TypeOK
  <2>1. list \in Seq(Node) /\ inuse \in Nat /\ boot \in 0 .. Len(BootRanges)
    BY <1>1 DEF Init
  <2>2. panicked \in BOOLEAN /\ reserved \subseteq Node /\ owned \subseteq Node
    BY DEF Init
  <2>3. QED
    BY <2>1, <2>2 DEF TypeOK
<1>3. QED
  BY <1>1, <1>2 DEF Init, SpaceInv, Tiling, RegionsAreNodes, BootFirst, CutsBehind,
                    RegionsApart, Booted

(* A call of mm_virtual_range_set that finds the list empty: the first.    *)
LEMMA FirstRangeSpace ==
  ASSUME SpaceInv, ~panicked, boot < Len(BootRanges), boot' = boot + 1,
         NEW r \in BootRanges[boot + 1], RangeSet(r), list = <<>>
  PROVE  SpaceInv'
<1>1. /\ boot = 0 /\ inuse = 0 /\ reserved = {} /\ owned = {}
  BY DEF SpaceInv, BootFirst, TypeOK, Booted
<1>2. /\ r \in BootRanges[1] /\ r.flags = {VM_FREE} /\ r \in Node
      /\ Len(BootRanges) \in Nat \ {0}
  BY <1>1, BootAssumption
<1>3. TakeNodes(1, <<r>>)
  <2>1. DOMAIN list = {}
    OBVIOUS
  <2>2. QED
    BY <2>1 DEF RangeSet
<1>4. inuse' = 1 /\ list' = <<r>> /\ panicked' = FALSE
  BY <1>1, <1>3, BoundAssumption DEF TakeNodes, SlabRoom, SpaceInv, TypeOK
<1>5. reserved' = {} /\ owned' = {}
  BY <1>1, <1>2 DEF RangeSet, VM_USED, VM_FREE
<1>6. boot' = 1
  BY <1>1
<1>7. list' \in Seq(Node) /\ Len(list') = 1 /\ list'[1] = r /\ list' # <<>>
  BY <1>2, <1>4
<1>8. TypeOK'
  <2>1. inuse' \in Nat /\ boot' \in 0 .. Len(BootRanges)
    BY <1>2, <1>4, <1>6
  <2>2. panicked' \in BOOLEAN /\ reserved' \subseteq Node /\ owned' \subseteq Node
    BY <1>4, <1>5
  <2>3. QED
    BY <1>7, <2>1, <2>2 DEF TypeOK
<1>9. Tiling'
  BY <1>2, <1>7 DEF Tiling
<1>10. RegionsAreNodes' /\ CutsBehind' /\ RegionsApart'
  BY <1>5 DEF RegionsAreNodes, CutsBehind, RegionsApart
<1>11. BootFirst'
  BY <1>5, <1>6, <1>7 DEF BootFirst
<1>12. QED
  BY <1>8, <1>9, <1>10, <1>11 DEF SpaceInv

(* Whatever the list is, a panic leaves it as it was. *)
LEMMA PanicSpace ==
  ASSUME SpaceInv, list # <<>>, Panic,
         boot' \in 0 .. Len(BootRanges), boot' # 0, reserved' \subseteq Node, owned' = owned,
         ~Booted' => ~Booted
  PROVE  SpaceInv'
<1>1. list' = list /\ inuse' = inuse /\ panicked' = TRUE
  BY DEF Panic
<1>2. TypeOK'
  BY <1>1 DEF SpaceInv, TypeOK
<1>3. Tiling'
  BY <1>1 DEF SpaceInv, Tiling
<1>4. BootFirst'
  BY <1>1 DEF SpaceInv, BootFirst
<1>5. QED
  BY <1>1, <1>2, <1>3, <1>4 DEF SpaceInv, RegionsAreNodes, CutsBehind, RegionsApart

(* A later call of mm_virtual_range_set panics or cuts the last node, and  *)
(* never one of the reserved ranges.                                       *)
LEMMA LaterRangeCuts ==
  ASSUME SpaceInv, ~panicked, NEW r \in Node, list # <<>>,
         NEW p \in DOMAIN list, IsPrev(p, r.start), Place(p, r) \/ PlacePanic(p, r)
  PROVE  \/ Panic
         \/ /\ p = Len(list)
            /\ list[p].start <= r.start /\ End(r) < End(list[p])
            /\ \/ /\ list[p].start = r.start
                  /\ TakeNodes(1, CutStart(p, r))
               \/ /\ list[p].start # r.start
                  /\ TakeNodes(2, CutOut(p, r))
<1>1. /\ list \in Seq(Node) /\ Len(list) \in Nat /\ p \in 1 .. Len(list) /\ list[p] \in Node
  BY DEF SpaceInv, TypeOK
<1>2. p = Len(list) \/ list[p].start > r.start
  BY DEF IsPrev
<1>3. /\ list[p].start \in Nat /\ End(list[p]) \in Nat /\ list[p].start < End(list[p])
      /\ r.start \in Nat /\ End(r) \in Nat
  BY <1>1, NodeFacts
<1>4. ~Apart(p, r)
  <2>1. CASE p = Len(list)
    BY <1>1, <2>1 DEF Apart
  <2>2. CASE list[p].start > r.start
    BY <1>3, <2>2 DEF Apart
  <2>3. QED
    BY <1>2, <2>1, <2>2
<1>5. CASE PlacePanic(p, r)
  BY <1>5 DEF PlacePanic
<1>6. CASE Place(p, r)
  <2>1. /\ WithinPrev(p, r) /\ ~EndAligned(p, r)
        /\ IF StartAligned(p, r) THEN TakeNodes(1, CutStart(p, r))
                                 ELSE TakeNodes(2, CutOut(p, r))
    BY <1>4, <1>6 DEF Place
  <2>2. list[p].start <= r.start /\ End(r) < End(list[p])
    BY <1>3, <2>1 DEF WithinPrev, EndAligned
  <2>3. p = Len(list)
    BY <1>2, <1>3, <2>2
  <2>4. QED
    BY <2>1, <2>2, <2>3 DEF StartAligned
<1>7. QED
  BY <1>5, <1>6

(* A range cut from the start of the last node. *)
LEMMA CutStartSpace ==
  ASSUME SpaceInv, NEW r \in Node, list # <<>>,
         list[Len(list)].start = r.start, End(r) < End(list[Len(list)])
  PROVE  LET t == CutStart(Len(list), r)
         IN /\ \E sp \in BootRanges[1] : Tiles(t, sp.start, End(sp))
            /\ t[Len(t)].start = End(r) /\ \E k \in DOMAIN t : t[k] = r
            /\ \A k \in 1 .. Len(list) - 1 : \E j \in DOMAIN t : t[j] = list[k]
<1> DEFINE n == Len(list)
           b == [start |-> End(r), len |-> list[n].len - r.len, flags |-> list[n].flags]
           t == InsertAfter(Replaced(list, n, r), n, b)
<1>1. PICK sp \in BootRanges[1] : Tiles(list, sp.start, End(sp))
  BY ListTiles DEF SpaceInv
<1>2. list \in Seq(Node) /\ n \in Nat /\ n \in 1 .. Len(list) /\ list[n] \in Node
  BY DEF SpaceInv, TypeOK
<1>3. b \in Node /\ End(b) = End(list[n])
  BY <1>2 DEF Node, End
<1>4. End(r) = b.start
  OBVIOUS
<1> HIDE DEF b
<1>5. /\ Tiles(t, sp.start, End(sp)) /\ Len(t) = n + 1
      /\ t[n] = r /\ t[n + 1] = b
      /\ \A k \in 1 .. Len(list) : k < n => t[k] = list[k]
  <2>1. IsSplit(t, list, n, r, b, sp.start, End(sp))
    BY <1>1, <1>2, <1>3, <1>4, SplitTiles
  <2>2. QED
    BY <2>1 DEF IsSplit
<1>6. CutStart(n, r) = t
  BY DEF CutStart, Replaced, b
<1> HIDE DEF t
<1>7. DOMAIN t = 1 .. n + 1
  BY <1>5 DEF Tiles
<1>8. QED
  BY <1>2, <1>4, <1>5, <1>6, <1>7

(* A range cut from the middle of the last node: what is left of the node, *)
(* the range and the rest are three nodes of the list.                     *)
LEMMA CutOutSpace ==
  ASSUME SpaceInv, NEW r \in Node, list # <<>>,
         list[Len(list)].start < r.start, End(r) < End(list[Len(list)])
  PROVE  LET t == CutOut(Len(list), r)
         IN /\ \E sp \in BootRanges[1] : Tiles(t, sp.start, End(sp))
            /\ t[Len(t)].start = End(r) /\ \E k \in DOMAIN t : t[k] = r
            /\ \A k \in 1 .. Len(list) - 1 : \E j \in DOMAIN t : t[j] = list[k]
<1> DEFINE n == Len(list)
           m == n + 1
           pre == [list[n] EXCEPT !.len = r.start - list[n].start]
           mid == [start |-> r.start, len |-> End(list[n]) - r.start, flags |-> r.flags]
           post == [start |-> End(r), len |-> End(list[n]) - End(r), flags |-> {}]
           v == Replaced(list, n, pre)
           u == InsertAfter(v, n, mid)
           x == Replaced(u, m, r)
           t == InsertAfter(x, m, post)
<1>1. PICK sp \in BootRanges[1] : Tiles(list, sp.start, End(sp))
  BY ListTiles DEF SpaceInv
<1>2. list \in Seq(Node) /\ n \in Nat /\ n \in 1 .. Len(list) /\ list[n] \in Node
  BY DEF SpaceInv, TypeOK
<1>3. pre \in Node /\ pre.start = list[n].start /\ End(pre) = r.start
  <2>1. r.start - list[n].start \in Nat \ {0}
    BY <1>2 DEF Node
  <2>2. pre \in Node
    BY <1>2, <2>1 DEF Node
  <2>3. pre.start = list[n].start /\ pre.len = r.start - list[n].start
    BY <1>2 DEF Node
  <2>4. QED
    BY <1>2, <2>1, <2>2, <2>3 DEF End, Node
<1>4. mid \in Node /\ mid.start = r.start /\ End(mid) = End(list[n])
  BY <1>2 DEF Node, End
<1>5. post \in Node /\ post.start = End(r) /\ End(post) = End(list[n])
  BY <1>2 DEF Node, End, NodeFlags
<1>6. /\ pre = [list[n] EXCEPT !.len = r.start - list[n].start]
      /\ post = [start |-> End(r), len |-> End(list[n]) - End(r), flags |-> {}]
  OBVIOUS
<1> HIDE DEF pre, mid, post
<1>7. /\ Tiles(u, sp.start, End(sp)) /\ Len(u) = m
      /\ u[n] = pre /\ u[m] = mid
      /\ \A k \in 1 .. Len(list) : k < n => u[k] = list[k]
  <2>1. IsSplit(u, list, n, pre, mid, sp.start, End(sp))
    BY <1>1, <1>2, <1>3, <1>4, SplitTiles
  <2>2. QED
    BY <2>1 DEF IsSplit
<1>8. m \in 1 .. Len(u) /\ u \in Seq(Node) /\ m \in Nat
  BY <1>2, <1>7 DEF Tiles
<1>9. CutOut(n, r) = t
  <2> DEFINE w == InsertAfter(v, n, r)
  <2>1. CutOut(n, r) = InsertAfter(w, m, post)
    BY <1>6 DEF CutOut, Replaced
  <2>2. v \in Seq(Node) /\ Len(v) = n
    BY <1>2, <1>3, ReplaceFacts
  <2> HIDE DEF v
  <2>3. /\ Len(w) = n + 1 /\ DOMAIN w = 1 .. n + 1
        /\ \A j \in 1 .. n + 1 :
             w[j] = IF j <= n THEN v[j] ELSE IF j = n + 1 THEN r ELSE v[j - 1]
    <3>1. n \in 1 .. Len(v)
      BY <1>2, <2>2
    <3>2. IsInserted(w, v, n, r)
      BY <2>2, <3>1, InsertFacts
    <3> HIDE DEF w
    <3>3. QED
      BY <2>2, <3>2 DEF IsInserted
  <2>4. /\ DOMAIN u = 1 .. n + 1
        /\ \A j \in 1 .. n + 1 :
             u[j] = IF j <= n THEN v[j] ELSE IF j = n + 1 THEN mid ELSE v[j - 1]
    <3>1. n \in 1 .. Len(v)
      BY <1>2, <2>2
    <3>2. IsInserted(u, v, n, mid)
      BY <1>4, <2>2, <3>1, InsertFacts
    <3> HIDE DEF u
    <3>3. QED
      BY <2>2, <3>2 DEF IsInserted
  <2> HIDE DEF w, u, m
  <2>5. /\ DOMAIN x = 1 .. Len(u) /\ x[m] = r
        /\ \A j \in 1 .. Len(u) : j # m => x[j] = u[j]
    BY <1>8, ReplaceFacts
  <2> HIDE DEF x
  <2>6. m = n + 1
    BY DEF m
  <2>7. \A j \in 1 .. n + 1 : w[j] = x[j]
    BY <1>2, <1>7, <2>3, <2>4, <2>5, <2>6
  <2>8. DOMAIN w = DOMAIN x
    BY <1>7, <2>3, <2>5, <2>6
  <2>9. w = x
    <3>1. w = [j \in DOMAIN w |-> w[j]]
      BY DEF w, InsertAfter
    <3>2. x = [j \in DOMAIN x |-> x[j]]
      <4>1. u = [j \in DOMAIN u |-> u[j]]
        BY DEF u, InsertAfter
      <4>2. QED
        BY <4>1 DEF x, Replaced
    <3>3. QED
      BY <2>3, <2>7, <2>8, <3>1, <3>2
  <2>10. QED
    BY <2>1, <2>9
<1> HIDE DEF u, m
<1>10. /\ Tiles(t, sp.start, End(sp)) /\ Len(t) = m + 1
       /\ t[m] = r /\ t[m + 1] = post
       /\ \A k \in 1 .. Len(u) : k < m => t[k] = u[k]
  <2>1. r.start = u[m].start /\ End(r) = post.start /\ End(post) = End(u[m])
    BY <1>4, <1>5, <1>7
  <2>2. IsSplit(t, u, m, r, post, sp.start, End(sp))
    BY <1>5, <1>7, <1>8, <2>1, SplitTiles
  <2>3. QED
    BY <1>7, <2>2 DEF IsSplit
<1> HIDE DEF t
<1>11. DOMAIN t = 1 .. m + 1 /\ m = n + 1
  BY <1>10 DEF Tiles, m
<1>12. \A k \in 1 .. n - 1 : k \in 1 .. m + 1 /\ t[k] = list[k]
  BY <1>2, <1>7, <1>10, <1>11
<1>13. \A k \in 1 .. Len(list) - 1 : \E j \in DOMAIN t : t[j] = list[k]
  BY <1>11, <1>12
<1>14. t[Len(t)].start = End(r) /\ m \in DOMAIN t
  BY <1>5, <1>8, <1>10, <1>11
<1>15. QED
  BY <1>9, <1>10, <1>13, <1>14

(* mm_virtual_init keeps the invariant, call by call. *)
LEMMA BootSpace ==
  ASSUME SpaceInv, ~panicked, Boot
  PROVE  SpaceInv'
<1>1. PICK r \in BootRanges[boot + 1] : RangeSet(r)
  BY DEF Boot
<1>2. /\ boot \in Nat /\ boot < Len(BootRanges) /\ boot' = boot + 1
      /\ Len(BootRanges) \in Nat /\ boot' \in 0 .. Len(BootRanges) /\ boot' # 0
      /\ boot + 1 \in DOMAIN BootRanges /\ r \in Node
  BY <1>1, BootAssumption DEF Boot, SpaceInv, TypeOK
<1>3. CASE list = <<>>
  BY <1>1, <1>2, <1>3, FirstRangeSpace
<1>4. CASE list # <<>>
  <2> DEFINE n == Len(list)
  <2>1. /\ boot # 0 /\ r.flags = {VM_USED}
        /\ reserved' = reserved \cup {r} /\ owned' = owned /\ owned = {}
    <3>1. boot # 0
      BY <1>4 DEF SpaceInv, BootFirst
    <3>2. r.flags = {VM_USED}
      BY <1>2, <3>1, BootAssumption
    <3>3. owned = {}
      BY <1>2 DEF SpaceInv, BootFirst, Booted
    <3>4. QED
      BY <1>1, <3>1, <3>2, <3>3 DEF RangeSet
  <2>2. PICK p \in DOMAIN list : IsPrev(p, r.start) /\ (Place(p, r) \/ PlacePanic(p, r))
    BY <1>1, <1>4 DEF RangeSet
  <2>3. /\ list \in Seq(Node) /\ n \in Nat /\ n \in 1 .. n /\ list[n] \in Node
        /\ inuse \in Nat /\ reserved \subseteq Node
    BY <1>4 DEF SpaceInv, TypeOK
  <2>4. CASE Panic
    <3>1. reserved' \subseteq Node
      BY <1>2, <2>1, <2>3
    <3>2. ~Booted
      BY <1>2 DEF Booted
    <3>3. QED
      BY <1>2, <1>4, <2>1, <2>4, <3>1, <3>2, PanicSpace
  <2>5. CASE ~Panic
    <3>1. /\ list[n].start <= r.start /\ End(r) < End(list[n])
          /\ \/ list[n].start = r.start /\ TakeNodes(1, CutStart(n, r))
             \/ list[n].start # r.start /\ TakeNodes(2, CutOut(n, r))
      BY <1>2, <1>4, <2>2, <2>5, LaterRangeCuts
    <3>2. inuse' \in Nat /\ panicked' = panicked
      BY <2>3, <2>5, <3>1 DEF TakeNodes
    <3>3. /\ \E sp \in BootRanges[1] : Tiles(list', sp.start, End(sp))
          /\ list'[Len(list')].start = End(r) /\ \E k \in DOMAIN list' : list'[k] = r
          /\ \A k \in 1 .. n - 1 : \E j \in DOMAIN list' : list'[j] = list[k]
      <4>1. CASE list[n].start = r.start
        <5>1. list' = CutStart(n, r)
          BY <2>5, <3>1, <4>1 DEF TakeNodes
        <5>2. QED
          BY <1>2, <1>4, <3>1, <4>1, <5>1, CutStartSpace
      <4>2. CASE list[n].start # r.start
        <5>1. list' = CutOut(n, r)
          BY <2>5, <3>1, <4>2 DEF TakeNodes
        <5>2. list[n].start < r.start
          BY <1>2, <2>3, <3>1, <4>2, NodeFacts
        <5>3. QED
          BY <1>2, <1>4, <3>1, <5>1, <5>2, CutOutSpace
      <4>3. QED
        BY <4>1, <4>2
    <3>4. PICK sp \in BootRanges[1] : Tiles(list', sp.start, End(sp))
      BY <3>3
    <3>5. list' \in Seq(Node) /\ list' # <<>>
      BY <3>4 DEF Tiles
    <3>6. TypeOK'
      <4>1. panicked' \in BOOLEAN
        BY <3>2 DEF SpaceInv, TypeOK
      <4>2. reserved' \subseteq Node /\ owned' \subseteq Node
        BY <1>2, <2>1, <2>3
      <4>3. QED
        BY <1>2, <3>2, <3>5, <4>1, <4>2 DEF TypeOK
    <3>7. Tiling'
      BY <3>4 DEF Tiling, Tiles
    <3>8. \A q \in reserved : End(q) <= list[n].start
      BY <1>2, <1>4 DEF SpaceInv, CutsBehind, Booted
    <3>9. \A q \in reserved' : End(q) <= list'[Len(list')].start
      <4>1. \A q \in reserved : End(q) <= End(r)
        <5> TAKE q \in reserved
        <5>1. End(q) \in Nat /\ End(r) \in Nat /\ r.start < End(r) /\ r.start \in Nat
              /\ list[n].start \in Nat
          BY <1>2, <2>3, NodeFacts
        <5>2. QED
          BY <3>1, <3>8, <5>1
      <4>2. End(r) \in Nat
        BY <1>2, NodeFacts
      <4>3. QED
        BY <2>1, <3>3, <4>1, <4>2
    <3>10. \A q \in reserved : \E k \in 1 .. n - 1 : list[k] = q
      <4> TAKE q \in reserved
      <4>1. PICK k \in 1 .. n : list[k] = q
        BY <2>3 DEF SpaceInv, RegionsAreNodes
      <4>2. k # n
        BY <2>3, <3>8, <4>1, NodeFacts
      <4>3. QED
        BY <2>3, <4>1, <4>2
    <3>11. RegionsAreNodes'
      BY <2>1, <3>3, <3>10 DEF RegionsAreNodes
    <3>12. BootFirst'
      BY <1>2, <2>1, <3>5 DEF BootFirst
    <3>13. RegionsApart'
      BY <2>1 DEF SpaceInv, RegionsApart
    <3>14. QED
      BY <3>6, <3>7, <3>9, <3>11, <3>12, <3>13 DEF SpaceInv, CutsBehind
  <2>6. QED
    BY <2>4, <2>5
<1>5. QED
  BY <1>3, <1>4

(* A region that mm_virtual_alloc hands out is a node of its own and in    *)
(* use, and no node that was in use is touched.                            *)
LEMMA AllocSpace ==
  ASSUME SpaceInv, ~panicked, NEW pages \in 1 .. MaxPages, Alloc(pages)
  PROVE  SpaceInv'
<1>1. PICK i \in DOMAIN list :
        /\ IsFirstFit(i, pages)
        /\ IF list[i].len = pages
             THEN list' = [list EXCEPT ![i] = Claimed(i, pages)] /\ UNCHANGED <<inuse, panicked>>
             ELSE TakeNodes(1, InsertAfter([list EXCEPT ![i] = Claimed(i, pages)], i, Rest(i, pages)))
        /\ owned' = IF panicked' THEN owned ELSE owned \cup {Claimed(i, pages)}
  BY DEF Alloc
<1> DEFINE a == Claimed(i, pages)
           b == Rest(i, pages)
<1>2. /\ Booted /\ boot' = boot /\ reserved' = reserved
  BY DEF Alloc
<1>3. /\ list \in Seq(Node) /\ Len(list) \in Nat /\ i \in 1 .. Len(list) /\ list[i] \in Node
      /\ list # <<>> /\ inuse \in Nat /\ boot \in 0 .. Len(BootRanges)
      /\ reserved \subseteq Node /\ owned \subseteq Node
  BY DEF SpaceInv, TypeOK
<1>4. pages \in Nat \ {0}
  BY BoundAssumption
<1>5. list[i].flags = {VM_FREE} /\ list[i].len >= pages
  BY <1>1, <1>3 DEF IsFirstFit, Fits, Node, NodeFlags, VM_FREE, VM_USED
<1>6. a.start = list[i].start /\ a.len = pages /\ a.flags = {VM_USED} /\ a \in Node
  <2>1. a = [list[i] EXCEPT !.len = pages, !.flags = {VM_USED}]
    BY <1>3, <1>5 DEF Claimed, Node
  <2>2. {VM_USED} \in NodeFlags
    BY DEF NodeFlags
  <2>3. QED
    BY <1>3, <1>4, <2>1, <2>2 DEF Node
<1> HIDE DEF a
<1>7. PICK sp \in BootRanges[1] : Tiles(list, sp.start, End(sp))
  BY <1>3, ListTiles DEF SpaceInv
<1>8. boot # 0
  BY <1>3 DEF SpaceInv, BootFirst
<1>9. CASE Panic
  <2>1. panicked' = TRUE /\ owned' = owned
    BY <1>1, <1>9 DEF Panic
  <2>2. Booted' /\ boot' \in 0 .. Len(BootRanges) /\ boot' # 0 /\ reserved' \subseteq Node
    BY <1>2, <1>3, <1>8 DEF Booted
  <2>3. QED
    BY <1>3, <1>9, <2>1, <2>2, PanicSpace
<1>10. CASE ~Panic
  <2>1. panicked' = panicked /\ inuse' \in Nat /\ owned' = owned \cup {a}
    <3>1. panicked' = panicked /\ inuse' \in {inuse, inuse + 1}
      BY <1>1, <1>10 DEF TakeNodes
    <3>2. QED
      BY <1>1, <1>3, <3>1 DEF a
  <2>2. /\ Tiles(list', sp.start, End(sp))
        /\ \E j \in DOMAIN list' : list'[j] = a
        /\ \A k \in 1 .. Len(list) : k # i => \E j \in DOMAIN list' : list'[j] = list[k]
    <3>1. CASE list[i].len = pages
      <4>1. list' = Replaced(list, i, a)
        BY <1>1, <3>1 DEF Replaced, a
      <4>2. Tiles(list', sp.start, End(sp))
        BY <1>3, <1>6, <1>7, <3>1, <4>1, ReflagTiles
      <4>3. DOMAIN list' = 1 .. Len(list) /\ list'[i] = a
        BY <1>3, <1>6, <4>1, ReplaceFacts
      <4>4. \A j \in 1 .. Len(list) : j # i => list'[j] = list[j]
        BY <1>3, <4>1 DEF Replaced
      <4>5. QED
        BY <1>3, <4>2, <4>3, <4>4
    <3>2. CASE list[i].len # pages
      <4>1. list' = InsertAfter(Replaced(list, i, a), i, b)
        BY <1>1, <1>10, <3>2 DEF TakeNodes, Replaced, a
      <4>2. b \in Node /\ End(a) = b.start /\ End(b) = End(list[i])
        <5>1. list[i].start \in Nat /\ list[i].len \in Nat /\ list[i].flags \in NodeFlags
          BY <1>3 DEF Node
        <5>2. list[i].len - pages \in Nat \ {0} /\ list[i].start + pages \in Nat
          BY <1>4, <1>5, <3>2, <5>1
        <5>3. QED
          BY <1>4, <1>6, <5>1, <5>2 DEF Node, End, Rest
      <4> HIDE DEF b
      <4>3. /\ Tiles(list', sp.start, End(sp)) /\ Len(list') = Len(list) + 1
            /\ list'[i] = a
            /\ \A k \in 1 .. Len(list) : k < i => list'[k] = list[k]
            /\ \A k \in 1 .. Len(list) : k > i => list'[k + 1] = list[k]
        <5>1. IsSplit(InsertAfter(Replaced(list, i, a), i, b), list, i, a, b,
                      sp.start, End(sp))
          BY <1>3, <1>6, <1>7, <4>2, SplitTiles
        <5>2. QED
          BY <4>1, <5>1 DEF IsSplit
      <4>4. DOMAIN list' = 1 .. Len(list) + 1
        BY <4>3 DEF Tiles
      <4>5. \A k \in 1 .. Len(list) : k # i => \E j \in DOMAIN list' : list'[j] = list[k]
        <5> SUFFICES ASSUME NEW k \in 1 .. Len(list), k # i
                     PROVE  \E j \in DOMAIN list' : list'[j] = list[k]
          OBVIOUS
        <5>1. CASE k < i
          BY <1>3, <4>3, <4>4, <5>1
        <5>2. CASE k > i
          <6>1. k + 1 \in DOMAIN list'
            BY <1>3, <4>4
          <6>2. QED
            BY <4>3, <5>2, <6>1
        <5>3. QED
          BY <1>3, <5>1, <5>2
      <4>6. i \in DOMAIN list'
        BY <1>3, <4>4
      <4>7. QED
        BY <4>3, <4>5, <4>6
    <3>3. QED
      BY <3>1, <3>2
  <2>3. list' \in Seq(Node) /\ list' # <<>>
    BY <2>2 DEF Tiles
  <2>4. TypeOK'
    <3>1. panicked' \in BOOLEAN
      BY <2>1 DEF SpaceInv, TypeOK
    <3>2. reserved' \subseteq Node /\ owned' \subseteq Node
      BY <1>2, <1>3, <1>6, <2>1
    <3>3. QED
      BY <1>2, <1>3, <2>1, <2>3, <3>1, <3>2 DEF TypeOK
  <2>5. Tiling'
    BY <2>2 DEF Tiling, Tiles
  <2>6. \A q \in owned \cup reserved : \E k \in 1 .. Len(list) : k # i /\ list[k] = q
    <3> TAKE q \in owned \cup reserved
    <3>1. PICK k \in 1 .. Len(list) : list[k] = q
      BY <1>3 DEF SpaceInv, RegionsAreNodes
    <3>2. q.flags = {VM_USED}
      BY DEF SpaceInv, RegionsApart
    <3>3. k # i
      BY <1>5, <3>1, <3>2 DEF VM_FREE, VM_USED
    <3>4. QED
      BY <3>1, <3>3
  <2>7. RegionsAreNodes'
    BY <1>2, <2>1, <2>2, <2>6 DEF RegionsAreNodes
  <2>8. RegionsApart'
    <3>1. a \notin reserved
      BY <1>3, <1>6, <1>7, <2>6, StartsDiffer
    <3>2. QED
      BY <1>2, <1>6, <2>1, <3>1 DEF SpaceInv, RegionsApart
  <2>9. BootFirst' /\ CutsBehind'
    BY <1>2, <1>8, <2>3 DEF BootFirst, CutsBehind, Booted
  <2>10. QED
    BY <2>4, <2>5, <2>7, <2>8, <2>9 DEF SpaceInv
<1>11. QED
  BY <1>9, <1>10

(* mm_virtual_alloc hands out one region, of the length asked for, unless  *)
(* it panics.                                                              *)
LEMMA AllocRegion ==
  ASSUME SpaceInv, ~panicked', NEW pages \in 1 .. MaxPages, Alloc(pages)
  PROVE  \E a : owned' = owned \cup {a} /\ a.len = pages
<1>1. PICK i \in DOMAIN list :
        owned' = IF panicked' THEN owned ELSE owned \cup {Claimed(i, pages)}
  BY DEF Alloc
<1>2. list[i] \in Node
  BY DEF SpaceInv, TypeOK
<1>3. Claimed(i, pages).len = pages
  BY <1>2 DEF Claimed, Node
<1>4. QED
  BY <1>1, <1>3

(* The node mm_virtual_free finds for a region of a caller is that region, *)
(* whole: the only node that starts there.                                 *)
LEMMA FreeFinds ==
  ASSUME SpaceInv, ~panicked, NEW region \in owned, NEW i \in DOMAIN list,
         InUseAt(i, region.start)
  PROVE  list[i] = region
<1>1. list \in Seq(Node) /\ DOMAIN list = 1 .. Len(list) /\ list # <<>>
  BY DEF SpaceInv, TypeOK
<1>2. PICK k \in 1 .. Len(list) : list[k] = region
  BY <1>1 DEF SpaceInv, RegionsAreNodes
<1>3. PICK sp \in BootRanges[1] : Tiles(list, sp.start, End(sp))
  BY <1>1, ListTiles DEF SpaceInv
<1>4. list[i].start = list[k].start
  BY <1>2 DEF InUseAt
<1>5. QED
  BY <1>1, <1>2, <1>3, <1>4, StartsDiffer

(* mm_virtual_free gives back one region and leaves every other one.       *)
LEMMA FreeSpace ==
  ASSUME SpaceInv, ~panicked, NEW region \in owned, Free(region)
  PROVE  SpaceInv'
<1>1. PICK i \in DOMAIN list :
        /\ InUseAt(i, region.start)
        /\ list' = [list EXCEPT ![i].flags = (@ \ {VM_USED}) \cup {VM_FREE}]
  BY DEF Free
<1>2. /\ Booted /\ boot' = boot /\ reserved' = reserved /\ owned' = owned \ {region}
      /\ panicked' = panicked /\ inuse' = inuse
  BY DEF Free
<1>3. /\ list \in Seq(Node) /\ Len(list) \in Nat /\ i \in 1 .. Len(list) /\ list[i] \in Node
      /\ list # <<>> /\ boot \in 0 .. Len(BootRanges)
      /\ reserved \subseteq Node /\ owned \subseteq Node
  BY DEF SpaceInv, TypeOK
<1>4. list[i] = region
  BY <1>1, FreeFinds
<1>5. region.flags = {VM_USED} /\ region \notin reserved
  BY DEF SpaceInv, RegionsApart
<1> DEFINE a == [list[i] EXCEPT !.flags = {VM_FREE}]
<1>6. list' = Replaced(list, i, a)
  <2>1. (list[i].flags \ {VM_USED}) \cup {VM_FREE} = {VM_FREE}
    BY <1>4, <1>5
  <2>2. QED
    BY <1>1, <1>3, <2>1 DEF Replaced
<1>7. a \in Node /\ a.start = list[i].start /\ a.len = list[i].len
  <2>1. {VM_FREE} \in NodeFlags
    BY DEF NodeFlags
  <2>2. QED
    BY <1>3, <2>1 DEF Node
<1> HIDE DEF a
<1>8. PICK sp \in BootRanges[1] : Tiles(list, sp.start, End(sp))
  BY <1>3, ListTiles DEF SpaceInv
<1>9. Tiles(list', sp.start, End(sp))
  BY <1>3, <1>6, <1>7, <1>8, ReflagTiles
<1>10. /\ DOMAIN list' = 1 .. Len(list)
       /\ \A j \in 1 .. Len(list) : j # i => list'[j] = list[j]
  BY <1>3, <1>6, <1>7, ReplaceFacts
<1>11. list' \in Seq(Node) /\ list' # <<>>
  BY <1>9 DEF Tiles
<1>12. TypeOK'
  <2>1. panicked' \in BOOLEAN /\ inuse' \in Nat
    BY <1>2 DEF SpaceInv, TypeOK
  <2>2. QED
    BY <1>2, <1>3, <1>11, <2>1 DEF TypeOK
<1>13. Tiling'
  BY <1>8, <1>9 DEF Tiling, Tiles
<1>14. RegionsAreNodes'
  <2> SUFFICES ASSUME NEW q \in (owned \ {region}) \cup reserved
               PROVE  \E j \in DOMAIN list' : list'[j] = q
    BY <1>2 DEF RegionsAreNodes
  <2>1. PICK k \in 1 .. Len(list) : list[k] = q
    BY <1>3 DEF SpaceInv, RegionsAreNodes
  <2>2. q # region
    BY <1>5
  <2>3. k # i
    BY <1>4, <2>1, <2>2
  <2>4. QED
    BY <1>10, <2>1, <2>3
<1>15. RegionsApart'
  BY <1>2 DEF SpaceInv, RegionsApart
<1>16. BootFirst' /\ CutsBehind'
  BY <1>2, <1>3, <1>11 DEF SpaceInv, BootFirst, CutsBehind, Booted
<1>17. QED
  BY <1>12, <1>13, <1>14, <1>15, <1>16 DEF SpaceInv

(* Every step keeps the invariant of the address space. *)
LEMMA NextSpace == SpaceInv /\ [Next]_vars => SpaceInv'
<1> SUFFICES ASSUME SpaceInv, [Next]_vars PROVE SpaceInv'
  OBVIOUS
<1>1. CASE UNCHANGED vars
  BY <1>1 DEF vars, SpaceInv, TypeOK, Tiling, RegionsAreNodes, BootFirst, CutsBehind,
              RegionsApart, Booted
<1>2. CASE ~panicked /\ Boot
  BY <1>2, BootSpace
<1>3. ASSUME ~panicked, NEW pages \in 1 .. MaxPages, Alloc(pages) PROVE SpaceInv'
  BY <1>3, AllocSpace
<1>4. ASSUME ~panicked, NEW region \in owned, Free(region) PROVE SpaceInv'
  BY <1>4, FreeSpace
<1>5. QED
  BY <1>1, <1>2, <1>3, <1>4 DEF Next

(* The invariant all results about the address space follow from. *)
THEOREM SpaceCorrect == Spec => []SpaceInv
<1>1. QED
  BY InitSpace, NextSpace, PTL DEF Spec

(* Type correctness of the address space list: every node has one of the   *)
(* three flag values and is not empty.                                     *)
THEOREM SpaceTypeCorrect == Spec => []TypeOK
<1>1. SpaceInv => TypeOK
  BY DEF SpaceInv
<1>2. QED
  BY <1>1, SpaceCorrect, PTL

(* The nodes tile the space of the first mm_virtual_range_set for every    *)
(* set of boot ranges and every sequence of mm_virtual_alloc and           *)
(* mm_virtual_free.                                                        *)
THEOREM TilingCorrect == Spec => []Tiling
<1>1. SpaceInv => Tiling
  BY DEF SpaceInv
<1>2. QED
  BY <1>1, SpaceCorrect, PTL

(* Every region handed out by mm_virtual_alloc and every range reserved by *)
(* mm_virtual_init is one node of the list until it is freed.              *)
THEOREM RegionsCorrect == Spec => []RegionsAreNodes
<1>1. SpaceInv => RegionsAreNodes
  BY DEF SpaceInv
<1>2. QED
  BY <1>1, SpaceCorrect, PTL
-----------------------------------------------------------------------------
(***************************************************************************)
(* The list with the page tables, the TLB and the users of mappings.       *)
(***************************************************************************)
Entries == Frames \cup Nat \cup {None}
Users == {"mmap", "acpi", "pcie"}

(* A call that maps pages, or munmap. *)
MapJobs ==
  [op : Users \cup {"read"}, virt : Nat, at : Nat, end : Nat, phys : Nat]
UnmapJobs == [op : {"munmap"}, region : Node, at : Nat]

MapTypes ==
  /\ free \subseteq Frames /\ lost \subseteq Frames
  /\ table \in [{TableOf(v) : v \in Pages} -> Frames \cup {None}]
  /\ pte \in [Pages -> Entries] /\ tlb \in [Pages -> Entries]
  /\ job \in {Idle} \cup MapJobs \cup UnmapJobs

(* The regions handed out are apart from each other and from the pages at  *)
(* address 0, where a call without address space maps.                     *)
OwnedPlaced ==
  /\ \A r \in owned : MaxPages <= r.start /\ End(r) <= LastPage + 1
  /\ \A q, r \in owned : q = r \/ End(q) <= r.start \/ End(r) <= q.start

UsersOwn == user \in [{r.start : r \in owned} -> Users]

(* A running call works on a region of its own, or at address 0. *)
JobPlaced ==
  /\ job \in MapJobs =>
       /\ job.virt <= job.at /\ job.at < job.end
       /\ job.op \in {"pcie", "read"} => job.end = job.virt + 1
       /\ \/ job.virt = 0 /\ job.end <= MaxPages /\ job.end <= LastPage + 1
          \/ \E r \in owned :
               /\ r.start = job.virt /\ End(r) = job.end
               /\ user[r.start] = IF job.op = "read" THEN "pcie" ELSE job.op
  /\ job \in UnmapJobs =>
       /\ job.region \in owned /\ user[job.region.start] = "mmap"
       /\ job.region.start <= job.at /\ job.at <= End(job.region)

MapRest == MapTypes /\ UsersOwn /\ JobPlaced /\ FramesAccounted

MapInv == SpaceInv /\ OwnedPlaced /\ MapRest
-----------------------------------------------------------------------------
(* The kind of call in progress, by its name. *)
LEMMA JobKinds ==
  ASSUME MapTypes
  PROVE  /\ job.op = "idle" <=> job = Idle
         /\ job.op \in Users \cup {"read"} <=> job \in MapJobs
         /\ job.op = "munmap" <=> job \in UnmapJobs
  BY DEF MapTypes, Idle, MapJobs, UnmapJobs, Users

(* The calls that use the address space change it only by mm_virtual_init, *)
(* mm_virtual_alloc and mm_virtual_free.                                   *)
LEMMA SpaceStep == MapNext => [Next]_vars
<1> SUFFICES ASSUME MapNext PROVE [Next]_vars
  OBVIOUS
<1> USE DEF vars, space, Next
<1>1. ~panicked
  BY DEF MapNext
<1>2. CASE BootStep
  BY <1>1, <1>2 DEF BootStep
<1>3. ASSUME NEW op, NEW phys, NEW pages \in 1 .. MaxPages, Take(op, pages, phys)
      PROVE  [Next]_vars
  BY <1>1, <1>3 DEF Take
<1>4. 1 \in 1 .. MaxPages
  BY BoundAssumption
<1>5. CASE MmapPage \/ DevicePage \/ MunmapPage
  BY <1>5 DEF MmapPage, DevicePage, MunmapPage
<1>6. CASE MunmapFree
  BY <1>1, <1>6 DEF MunmapFree, GiveBack, Free
<1>7. CASE PcieUnmap
  BY <1>1, <1>7 DEF PcieUnmap, GiveBack
<1>8. ASSUME NEW region \in owned, Munmap(region) \/ AcpiUnmap(region)
      PROVE  [Next]_vars
  BY <1>1, <1>8 DEF Munmap, AcpiUnmap, GiveBack
<1>9. ASSUME NEW v \in Pages, Fill(v) \/ Evict(v) PROVE [Next]_vars
  BY <1>9 DEF Fill, Evict
<1>10. QED
  BY <1>2, <1>3, <1>4, <1>5, <1>6, <1>7, <1>8, <1>9 DEF MapNext

(* mm_virtual_alloc, and nothing else, adds a region; a step that panics   *)
(* adds none.                                                              *)
LEMMA OwnedStep ==
  ASSUME [Next]_vars, panicked'
  PROVE  owned' = owned
<1>1. CASE UNCHANGED vars
  BY <1>1 DEF vars
<1>2. CASE Boot
  BY <1>2 DEF Boot, RangeSet
<1>3. ASSUME NEW pages \in 1 .. MaxPages, Alloc(pages) PROVE owned' = owned
  BY <1>3 DEF Alloc
<1>4. ASSUME ~panicked, NEW region \in owned, Free(region) PROVE FALSE
  BY <1>4 DEF Free
<1>5. QED
  BY <1>1, <1>2, <1>3, <1>4 DEF Next

(* Regions are apart after every step, because they are nodes of a tiling. *)
LEMMA PlacedStep ==
  ASSUME SpaceInv, SpaceInv', OwnedPlaced, [Next]_vars
  PROVE  OwnedPlaced'
<1>1. CASE panicked'
  <2>1. owned' = owned
    BY <1>1, OwnedStep DEF Next, vars
  <2>2. QED
    BY <2>1 DEF OwnedPlaced
<1>2. CASE ~panicked'
  <2>1. \A r \in owned' : \E i \in DOMAIN list' : list'[i] = r
    BY <1>2 DEF SpaceInv, RegionsAreNodes
  <2>2. list' \in Seq(Node) /\ DOMAIN list' = 1 .. Len(list')
    BY DEF SpaceInv, TypeOK
  <2>3. CASE owned' = {}
    BY <2>3 DEF OwnedPlaced
  <2>4. CASE owned' # {}
    <3>1. list' # <<>>
      BY <2>1, <2>4
    <3>2. PICK sp \in BootRanges[1] : Tiles(list', sp.start, End(sp))
      BY <2>2, <3>1 DEF SpaceInv, Tiling, Tiles
    <3>3. sp \in Node /\ MaxPages <= sp.start /\ End(sp) <= LastPage + 1
      BY <3>2, BootAssumption, MappingAssumption
    <3>4. ASSUME NEW r \in owned' PROVE MaxPages <= r.start /\ End(r) <= LastPage + 1
      <4>1. PICK i \in 1 .. Len(list') : list'[i] = r
        BY <2>1, <2>2
      <4>2. sp.start <= r.start /\ End(r) <= End(sp) /\ r \in Node
        BY <2>2, <3>2, <4>1, NodesApart
      <4>3. QED
        BY <3>3, <4>2, NodeFacts, BoundAssumption, MappingAssumption
    <3>5. ASSUME NEW q \in owned', NEW r \in owned'
          PROVE  q = r \/ End(q) <= r.start \/ End(r) <= q.start
      <4>1. PICK i \in 1 .. Len(list') : list'[i] = r
        BY <2>1, <2>2
      <4>2. PICK j \in 1 .. Len(list') : list'[j] = q
        BY <2>1, <2>2
      <4>3. QED
        BY <3>2, <4>1, <4>2, NodesApart
    <3>6. QED
      BY <3>4, <3>5 DEF OwnedPlaced
  <2>5. QED
    BY <2>3, <2>4
<1>3. QED
  BY <1>1, <1>2

-----------------------------------------------------------------------------
(* A page belongs to one region at most. *)
LEMMA PagesApart ==
  ASSUME OwnedPlaced, owned \subseteq Node, NEW q \in owned, NEW r \in owned,
         NEW v, v \in PagesOf(q), v \in PagesOf(r)
  PROVE  q = r
<1>1. q \in Node /\ r \in Node
  OBVIOUS
<1>2. q.start \in Nat /\ End(q) \in Nat /\ r.start \in Nat /\ End(r) \in Nat
  BY <1>1, NodeFacts
<1>3. v \in Int /\ q.start <= v /\ v < End(q) /\ r.start <= v /\ v < End(r)
  BY <1>2 DEF PagesOf
<1>4. ~(End(q) <= r.start) /\ ~(End(r) <= q.start)
  BY <1>2, <1>3
<1>5. QED
  BY <1>4 DEF OwnedPlaced

(* A region lies in the address space, above the pages at address 0. *)
LEMMA RegionPages ==
  ASSUME OwnedPlaced, owned \subseteq Node, NEW r \in owned
  PROVE  /\ r.start \in Nat /\ End(r) \in Nat /\ r.start < End(r)
         /\ PagesOf(r) \subseteq Pages /\ PagesOf(r) \subseteq HeldPages
         /\ r.start \in PagesOf(r)
         /\ \A v \in PagesOf(r) : v \in Nat /\ MaxPages <= v
<1>1. r \in Node
  OBVIOUS
<1>2. r.start \in Nat /\ End(r) \in Nat /\ r.start < End(r)
  BY <1>1, NodeFacts
<1>3. MaxPages <= r.start /\ End(r) <= LastPage + 1
  BY DEF OwnedPlaced
<1>4. \A v \in PagesOf(r) : v \in Nat /\ MaxPages <= v /\ v \in Pages
  BY <1>2, <1>3, MappingAssumption, BoundAssumption DEF PagesOf, Pages
<1>5. r.start \in PagesOf(r)
  BY <1>2 DEF PagesOf
<1>6. PagesOf(r) \subseteq HeldPages
  BY DEF HeldPages
<1>7. QED
  BY <1>2, <1>4, <1>5, <1>6

(* The frames stay accounted for when no frame moves and the heap keeps    *)
(* its pages.                                                              *)
LEMMA AccountedSame ==
  ASSUME FramesAccounted, ~starved, free' = free, table' = table, lost' = lost,
         HeapPages' = HeapPages, \A v \in HeapPages : pte'[v] = pte[v]
  PROVE  FramesAccounted'
<1>1. Backing' = Backing
  BY DEF Backing
<1>2. InTables' = InTables
  BY DEF InTables
<1>3. \A v, w \in HeapPages' : pte'[v] = pte'[w] => v = w
  BY DEF FramesAccounted
<1>4. QED
  BY <1>1, <1>2, <1>3 DEF FramesAccounted

(* A page is a mapped page of the heap if a region held for mmap has it    *)
(* and it is not pending; in this state and in the next.                   *)
LEMMA HeapMember ==
  /\ \A v : v \in HeapPages <=>
       (\E q \in owned : user[q.start] = "mmap" /\ v \in PagesOf(q)) /\ v \notin Pending
  /\ \A v : v \in HeapPages' <=>
       (\E q \in owned' : user'[q.start] = "mmap" /\ v \in PagesOf(q)) /\ v \notin Pending'
  BY DEF HeapPages

(* mm_virtual_init touches neither tables nor regions. *)
LEMMA BootRest ==
  ASSUME MapInv, ~starved, BootStep
  PROVE  MapRest'
<1>1. /\ owned' = owned /\ free' = free /\ table' = table /\ pte' = pte /\ tlb' = tlb
      /\ user' = user /\ job' = job /\ starved' = starved /\ lost' = lost
  BY DEF BootStep, Boot, RangeSet, mappings
<1>2. MapTypes' /\ UsersOwn' /\ JobPlaced'
  BY <1>1 DEF MapInv, MapRest, MapTypes, UsersOwn, JobPlaced
<1>3. HeapPages' = HeapPages
  BY <1>1 DEF HeapPages, Pending
<1>4. FramesAccounted'
  BY <1>1, <1>3, AccountedSame DEF MapInv, MapRest
<1>5. QED
  BY <1>2, <1>4 DEF MapRest

(* mm_virtual_alloc for one of the users: the region is its own, apart     *)
(* from all the others.                                                    *)
LEMMA TakeRegion ==
  ASSUME MapInv, SpaceInv', OwnedPlaced', ~panicked', NEW op \in Users,
         NEW pages \in 1 .. MaxPages, NEW phys \in Nat, Take(op, pages, phys), Alloc(pages)
  PROVE  \E region \in Node :
           /\ owned' = owned \cup {region} /\ region.start \in Nat
           /\ End(region) = region.start + pages
           /\ Begin(op, region.start, pages, phys)
           /\ \A q \in owned : \A v \in PagesOf(q) : v \notin PagesOf(region)
           /\ UsersOwn' /\ user'[region.start] = op
           /\ \A q \in owned : user'[q.start] = user[q.start]
<1>1. UsersOwn /\ OwnedPlaced /\ owned \subseteq Node /\ owned' \subseteq Node
  BY DEF MapInv, MapRest, SpaceInv, TypeOK
<1>2. pages \in Nat /\ pages >= 1
  BY BoundAssumption
<1>3. PICK a : owned' = owned \cup {a} /\ a.len = pages
  BY AllocRegion DEF MapInv
<1>4. PICK region \in owned' \ owned :
        /\ user' = [s \in DOMAIN user \cup {region.start} |->
                      IF s = region.start THEN op ELSE user[s]]
        /\ Begin(op, region.start, pages, phys)
  <2>1. CASE Booted /\ NothingFits(pages)
    BY <2>1 DEF Alloc, NothingFits, IsFirstFit
  <2>2. QED
    BY <2>1 DEF Take
<1>5. /\ region = a /\ region \in Node /\ region \notin owned
      /\ owned' = owned \cup {region} /\ region.len = pages
  BY <1>1, <1>3, <1>4
<1>6. region.start \in Nat /\ End(region) = region.start + pages
  BY <1>5, NodeFacts DEF End
<1>7. \A q \in owned : \A v \in PagesOf(q) : v \notin PagesOf(region)
  <2> SUFFICES ASSUME NEW q \in owned, NEW v \in PagesOf(q), v \in PagesOf(region)
               PROVE  FALSE
    OBVIOUS
  <2>1. q \in Node /\ region \in Node /\ q # region
    BY <1>1, <1>5
  <2>2. /\ q.start \in Nat /\ End(q) \in Nat
        /\ region.start \in Nat /\ End(region) \in Nat
    BY <2>1, NodeFacts
  <2>3. End(q) <= region.start \/ End(region) <= q.start
    BY <1>5, <2>1 DEF OwnedPlaced
  <2>4. QED
    BY <2>2, <2>3 DEF PagesOf
<1>8. \A q \in owned : q.start # region.start
  <2> TAKE q \in owned
  <2>1. q.start \in PagesOf(q)
    BY <1>1, RegionPages
  <2>2. region.start \in PagesOf(region)
    BY <1>2, <1>6 DEF PagesOf
  <2>3. QED
    BY <1>7, <2>1, <2>2
<1>9. /\ UsersOwn' /\ user'[region.start] = op
      /\ \A q \in owned : user'[q.start] = user[q.start]
  <2>1. user \in [{r.start : r \in owned} -> Users]
    BY <1>1 DEF UsersOwn
  <2>2. DOMAIN user \cup {region.start} = {r.start : r \in owned'}
    BY <1>5, <2>1
  <2>3. UsersOwn'
    BY <1>4, <2>1, <2>2 DEF UsersOwn
  <2>4. QED
    BY <1>4, <1>8, <2>1, <2>3
<1>10. QED
  BY <1>4, <1>5, <1>6, <1>7, <1>9

(* None of the region counts as mapped yet. *)
LEMMA TakeRest ==
  ASSUME MapInv, SpaceInv', OwnedPlaced', ~panicked, ~starved,
         NEW op \in Users, NEW pages \in 1 .. MaxPages, NEW phys \in Nat,
         op = "pcie" => pages = 1,
         Take(op, pages, phys)
  PROVE  MapRest'
<1>1. /\ job = Idle /\ free' = free /\ table' = table /\ pte' = pte /\ tlb' = tlb
      /\ starved' = starved /\ lost' = lost
  BY DEF Take, mappings
<1>2. /\ MapTypes /\ UsersOwn /\ JobPlaced /\ FramesAccounted
      /\ OwnedPlaced /\ owned \subseteq Node /\ owned' \subseteq Node
  BY DEF MapInv, MapRest, SpaceInv, TypeOK
<1>3. pages \in Nat /\ pages >= 1 /\ pages <= MaxPages /\ MaxPages \in Nat
  BY BoundAssumption
<1>4. Pending = {} /\ job \notin MapJobs /\ job \notin UnmapJobs
  BY <1>1 DEF Pending, Idle, MapJobs, UnmapJobs, Users
<1>5. CASE panicked'
  <2>1. Alloc(pages) /\ user' = user /\ job' = job
    BY <1>5 DEF Take, space
  <2>2. owned' = owned
    BY <1>5, <2>1 DEF Alloc
  <2>3. HeapPages' = HeapPages
    BY <2>1, <2>2 DEF HeapPages, Pending
  <2>4. FramesAccounted'
    BY <1>1, <1>2, <2>3, AccountedSame
  <2>5. MapTypes' /\ UsersOwn' /\ JobPlaced'
    BY <1>1, <1>2, <2>1, <2>2 DEF MapTypes, UsersOwn, JobPlaced
  <2>6. QED
    BY <2>4, <2>5 DEF MapRest
<1>6. ASSUME NEW virt \in Nat, Begin(op, virt, pages, phys)
      PROVE  /\ job' \in MapJobs /\ job' \notin UnmapJobs
             /\ job'.op = op /\ job'.virt = virt /\ job'.at = virt
             /\ job'.end = virt + pages
             /\ MapTypes'
  <2>1. job' = [op |-> op, virt |-> virt, at |-> virt, end |-> virt + pages, phys |-> phys]
    BY <1>6 DEF Begin
  <2>2. job' \in MapJobs
    BY <1>3, <2>1 DEF MapJobs
  <2>3. job' \notin UnmapJobs
    BY <2>1 DEF UnmapJobs, Users
  <2>4. QED
    BY <1>1, <1>2, <2>1, <2>2, <2>3 DEF MapTypes
<1>7. CASE ~panicked' /\ Alloc(pages)
  <2>1. PICK region \in Node :
           /\ owned' = owned \cup {region} /\ region.start \in Nat
           /\ End(region) = region.start + pages
           /\ Begin(op, region.start, pages, phys)
           /\ \A q \in owned : \A v \in PagesOf(q) : v \notin PagesOf(region)
           /\ UsersOwn' /\ user'[region.start] = op
           /\ \A q \in owned : user'[q.start] = user[q.start]
    BY <1>7, TakeRegion
  <2>2. /\ job' \in MapJobs /\ job' \notin UnmapJobs
        /\ job'.op = op /\ job'.virt = region.start /\ job'.at = region.start
        /\ job'.end = End(region) /\ MapTypes'
    BY <1>6, <2>1
  <2>3. JobPlaced'
    <3>1. job'.virt <= job'.at /\ job'.at < job'.end
      BY <1>3, <2>1, <2>2
    <3>2. job'.op \in {"pcie", "read"} => job'.end = job'.virt + 1
      BY <2>1, <2>2 DEF Users
    <3>3. region \in owned' /\ region.start = job'.virt /\ End(region) = job'.end
      BY <2>1, <2>2
    <3>4. user'[region.start] = IF job'.op = "read" THEN "pcie" ELSE job'.op
      BY <2>1, <2>2 DEF Users
    <3>5. QED
      BY <2>2, <3>1, <3>2, <3>3, <3>4 DEF JobPlaced
  <2>4. HeapPages' = HeapPages
    <3>1. op = "mmap" => Pending' = PagesOf(region)
      BY <2>2 DEF Pending, PagesOf
    <3>2. op # "mmap" => Pending' = {}
      BY <2>2 DEF Pending, Users
    <3>3. \A v : v \in HeapPages <=> \E q \in owned : user[q.start] = "mmap" /\ v \in PagesOf(q)
      BY <1>4, HeapMember
    <3>4. \A v : v \in HeapPages' <=>
             /\ \E q \in owned' : user'[q.start] = "mmap" /\ v \in PagesOf(q)
             /\ v \notin Pending'
      BY HeapMember
    <3>5. \A v : v \in HeapPages' <=> v \in HeapPages
      <4>1. CASE op = "mmap"
        BY <2>1, <3>1, <3>3, <3>4, <4>1
      <4>2. CASE op # "mmap"
        BY <2>1, <3>2, <3>3, <3>4, <4>2
      <4>3. QED
        BY <4>1, <4>2
    <3>6. QED
      BY <3>5
  <2>5. FramesAccounted'
    BY <1>1, <1>2, <2>4, AccountedSame
  <2>6. QED
    BY <2>1, <2>2, <2>3, <2>5 DEF MapRest
<1>8. CASE ~panicked' /\ ~Alloc(pages)
  <2>1. Booted /\ Begin(op, 0, pages, phys) /\ owned' = owned /\ user' = user
    BY <1>8 DEF Take, space
  <2>2. /\ job' \in MapJobs /\ job' \notin UnmapJobs
        /\ job'.op = op /\ job'.virt = 0 /\ job'.at = 0 /\ job'.end = pages /\ MapTypes'
    BY <1>3, <1>6, <2>1
  <2>3. pages <= LastPage + 1
    <3>1. list # <<>> /\ Len(BootRanges) \in Nat
      BY <2>1, BootAssumption DEF MapInv, SpaceInv, BootFirst, Booted
    <3>2. PICK sp \in BootRanges[1] : Tiles(list, sp.start, End(sp))
      BY <3>1, ListTiles DEF MapInv, SpaceInv
    <3>3. sp \in Node /\ MaxPages <= sp.start /\ End(sp) <= LastPage + 1
      BY <3>2, BootAssumption, MappingAssumption
    <3>4. QED
      BY <1>3, <3>3, NodeFacts, MappingAssumption
  <2>4. JobPlaced'
    BY <1>3, <2>2, <2>3 DEF JobPlaced, Users
  <2>5. \A q \in owned : \A v \in PagesOf(q) : v \notin 0 .. pages - 1
    BY <1>2, <1>3, RegionPages
  <2>6. HeapPages' = HeapPages
    <3>1. Pending' \subseteq 0 .. pages - 1
      <4>1. op = "mmap" => Pending' = 0 .. pages - 1
        BY <2>2 DEF Pending
      <4>2. op # "mmap" => Pending' = {}
        BY <2>2 DEF Pending, Users
      <4>3. QED
        BY <4>1, <4>2
    <3>2. \A v : v \in HeapPages' <=> v \in HeapPages
      BY <1>4, <2>1, <2>5, <3>1, HeapMember
    <3>3. QED
      BY <3>2
  <2>7. FramesAccounted'
    BY <1>1, <1>2, <2>6, AccountedSame
  <2>8. UsersOwn'
    BY <1>2, <2>1 DEF UsersOwn
  <2>9. QED
    BY <2>2, <2>4, <2>7, <2>8 DEF MapRest
<1>9. QED
  BY <1>5, <1>7, <1>8

-----------------------------------------------------------------------------
(* The page a call is at is in the address space and not a mapped page of  *)
(* the heap.                                                               *)
LEMMA JobPage ==
  ASSUME MapInv, job \in MapJobs
  PROVE  /\ job.at \in Pages /\ job.at \notin HeapPages
         /\ job.at \in job.virt .. job.end - 1
<1>1. /\ MapTypes /\ UsersOwn /\ JobPlaced /\ FramesAccounted
      /\ OwnedPlaced /\ owned \subseteq Node
  BY DEF MapInv, MapRest, SpaceInv, TypeOK
<1>2. /\ job.op \in Users \cup {"read"} /\ job.virt \in Nat /\ job.at \in Nat /\ job.end \in Nat
      /\ job.virt <= job.at /\ job.at < job.end
  BY <1>1 DEF MapJobs, JobPlaced
<1>3. job.at \in job.virt .. job.end - 1
  BY <1>2
<1>4. job.at \in Pages /\ job.at \notin HeapPages
  <2>1. CASE job.virt = 0 /\ job.end <= MaxPages /\ job.end <= LastPage + 1
    <3>1. job.at \in Pages
      BY <1>2, <2>1, MappingAssumption DEF Pages
    <3>2. \A q \in owned : job.at \notin PagesOf(q)
      BY <1>1, <1>2, <2>1, RegionPages, BoundAssumption
    <3>3. QED
      BY <3>1, <3>2, HeapMember
  <2>2. CASE \E r \in owned :
               /\ r.start = job.virt /\ End(r) = job.end
               /\ user[r.start] = IF job.op = "read" THEN "pcie" ELSE job.op
    <3>1. PICK r \in owned :
               /\ r.start = job.virt /\ End(r) = job.end
               /\ user[r.start] = IF job.op = "read" THEN "pcie" ELSE job.op
      BY <2>2
    <3>2. job.at \in PagesOf(r)
      BY <1>3, <3>1 DEF PagesOf
    <3>3. job.at \in Pages
      BY <1>1, <3>2, RegionPages
    <3>4. CASE job.op = "mmap"
      <4>1. job.at \in Pending
        BY <1>2, <3>4 DEF Pending
      <4>2. QED
        BY <3>3, <4>1, HeapMember
    <3>5. CASE job.op # "mmap"
      <4>1. user[r.start] # "mmap"
        BY <3>1, <3>5
      <4>2. \A q \in owned : job.at \in PagesOf(q) => q = r
        BY <1>1, <3>2, PagesApart
      <4>3. QED
        BY <3>3, <4>1, <4>2, HeapMember
    <3>6. QED
      BY <3>4, <3>5
  <2>3. QED
    BY <1>1, <2>1, <2>2 DEF JobPlaced
<1>5. QED
  BY <1>3, <1>4

(* mm_virtual_map and the frames: `left' is what the pool has left when it *)
(* looks for a table.                                                      *)
LEMMA MapFrames ==
  ASSUME MapTypes, NEW v \in Pages, NEW target, NEW left, left \subseteq Frames,
         left \cap InTables = {},
         \A s, t \in DOMAIN table : table[s] = table[t] /\ table[s] # None => s = t,
         Map(v, target, left), ~starved'
  PROVE  /\ free' \subseteq left
         /\ free' \cup InTables' = left \cup InTables
         /\ free' \cap InTables' = {}
         /\ \A s, t \in DOMAIN table' : table'[s] = table'[t] /\ table'[s] # None => s = t
         /\ table' \in [{TableOf(w) : w \in Pages} -> Frames \cup {None}]
<1> DEFINE T == {TableOf(w) : w \in Pages}
           k == TableOf(v)
<1>1. table \in [T -> Frames \cup {None}] /\ k \in T
  BY DEF MapTypes
<1> HIDE DEF T, k
<1>2. CASE table[k] # None
  <2>1. free' = left /\ table' = table
    BY <1>2 DEF Map, k
  <2>2. InTables' = InTables
    BY <2>1 DEF InTables
  <2>3. QED
    BY <1>1, <2>1, <2>2 DEF T
<1>3. CASE table[k] = None
  <2>1. PICK f \in left : table' = [table EXCEPT ![k] = f] /\ free' = left \ {f}
    BY <1>3 DEF Map, k
  <2>2. f \in Frames /\ f # None
    BY <2>1, MappingAssumption
  <2>3. /\ table' \in [T -> Frames \cup {None}]
        /\ table'[k] = f /\ \A t \in T : t # k => table'[t] = table[t]
    BY <1>1, <2>1, <2>2
  <2>4. InTables' = InTables \cup {f}
    <3>1. \A x : x \in InTables' <=> x # None /\ \E t \in T : x = table'[t]
      BY <2>3 DEF InTables
    <3>2. \A x : x \in InTables <=> x # None /\ \E t \in T : x = table[t]
      BY <1>1 DEF InTables
    <3>3. \A x : x \in InTables' <=> x \in InTables \/ x = f
      BY <1>1, <1>3, <2>2, <2>3, <3>1, <3>2
    <3>4. QED
      BY <3>3
  <2>5. \A t \in T : table[t] # f
    BY <1>1, <2>1, <2>2 DEF InTables
  <2>6. \A s, t \in DOMAIN table' : table'[s] = table'[t] /\ table'[s] # None => s = t
    BY <1>1, <2>3, <2>5
  <2>7. QED
    BY <2>1, <2>3, <2>4, <2>6 DEF T
<1>4. QED
  BY <1>2, <1>3

(* mm_virtual_map writes one entry. *)
LEMMA MapEntry ==
  ASSUME MapTypes, NEW v \in Pages, NEW target \in Entries, NEW left, Map(v, target, left)
  PROVE  /\ pte' \in [Pages -> Entries] /\ pte'[v] = target
         /\ \A w \in Pages : w # v => pte'[w] = pte[w]
  BY DEF MapTypes, Map

(* The loop of mmap or acpi_os_map_memory goes on: it is done with its     *)
(* region, or at the next page of it.                                      *)
LEMMA AdvancePlaced ==
  ASSUME MapInv, job \in MapJobs, job.op \in {"mmap", "acpi"}, Advance,
         owned' = owned, user' = user
  PROVE  /\ JobPlaced' /\ job' \in {Idle} \cup MapJobs
         /\ job' \in MapJobs =>
              job'.op = job.op /\ job'.virt = job.virt /\ job'.end = job.end
         /\ job.op = "mmap" => Pending' = Pending \ {job.at}
         /\ job.op = "acpi" => Pending' = {} /\ Pending = {}
<1>1. JobPlaced
  BY DEF MapInv, MapRest
<1>2. /\ job.virt \in Nat /\ job.at \in Nat /\ job.end \in Nat
      /\ job.virt <= job.at /\ job.at < job.end
  BY <1>1 DEF MapJobs, JobPlaced
<1>3. CASE job.at + 1 = job.end
  <2>1. job' = Idle
    BY <1>3 DEF Advance
  <2>2. job' \notin MapJobs /\ job' \notin UnmapJobs /\ job'.op = "idle"
    BY <2>1 DEF Idle, MapJobs, UnmapJobs, Users
  <2>3. Pending' = {}
    BY <2>2 DEF Pending
  <2>4. job.op = "mmap" => Pending = {job.at}
    BY <1>2, <1>3 DEF Pending
  <2>5. job.op = "acpi" => Pending = {}
    BY DEF Pending
  <2>6. QED
    BY <2>1, <2>2, <2>3, <2>4, <2>5 DEF JobPlaced
<1>4. CASE job.at + 1 # job.end
  <2>1. job' = [job EXCEPT !.at = job.at + 1]
    BY <1>4 DEF Advance
  <2>2. /\ job' \in MapJobs /\ job' \notin UnmapJobs
        /\ job'.op = job.op /\ job'.virt = job.virt /\ job'.end = job.end
        /\ job'.at = job.at + 1
    BY <1>2, <2>1 DEF MapJobs, UnmapJobs, Users
  <2>3. JobPlaced'
    BY <1>1, <1>2, <1>4, <2>2 DEF JobPlaced
  <2>4. job.op = "mmap" => Pending' = Pending \ {job.at}
    BY <1>2, <2>2 DEF Pending
  <2>5. job.op = "acpi" => Pending' = {} /\ Pending = {}
    BY <2>2 DEF Pending
  <2>6. QED
    BY <2>2, <2>3, <2>4, <2>5
<1>5. QED
  BY <1>3, <1>4

(* mmap takes a frame from the pool and puts it behind one more page.      *)
LEMMA MmapPageRest ==
  ASSUME MapInv, ~starved, MmapPage
  PROVE  MapRest'
<1>1. /\ MapTypes /\ UsersOwn /\ JobPlaced /\ FramesAccounted
      /\ OwnedPlaced /\ owned \subseteq Node
  BY DEF MapInv, MapRest, SpaceInv, TypeOK
<1>2. /\ job.op = "mmap" /\ Advance /\ owned' = owned /\ user' = user /\ tlb' = tlb
  BY DEF MmapPage, space
<1>3. job \in MapJobs
  BY <1>1, <1>2, JobKinds DEF Users
<1>4. /\ JobPlaced' /\ job' \in {Idle} \cup MapJobs
      /\ job' \in MapJobs =>
           job'.op = job.op /\ job'.virt = job.virt /\ job'.end = job.end
      /\ Pending' = Pending \ {job.at}
  BY <1>2, <1>3, AdvancePlaced
<1>5. /\ job.at \in Pages /\ job.at \notin HeapPages /\ job.at \in job.virt .. job.end - 1
  BY <1>3, JobPage
<1>6. UsersOwn'
  BY <1>1, <1>2 DEF UsersOwn
<1>7. CASE \E f \in free : /\ Map(job.at, f, free \ {f})
                          /\ lost' = IF job.virt = 0 THEN lost \cup {f} ELSE lost
  <2>1. PICK f \in free : /\ Map(job.at, f, free \ {f})
                          /\ lost' = IF job.virt = 0 THEN lost \cup {f} ELSE lost
    BY <1>7
  <2>2. f \in Frames /\ f \in Entries /\ f # None
    BY <1>1, MappingAssumption DEF MapTypes, Entries
  <2>3. /\ pte' \in [Pages -> Entries] /\ pte'[job.at] = f
        /\ \A w \in Pages : w # job.at => pte'[w] = pte[w]
    BY <1>1, <1>5, <2>1, <2>2, MapEntry
  <2>4. free' \subseteq Frames /\ table' \in [{TableOf(w) : w \in Pages} -> Frames \cup {None}]
    <3>1. free \subseteq Frames /\ table \in [{TableOf(w) : w \in Pages} -> Frames \cup {None}]
      BY <1>1 DEF MapTypes
    <3>2. QED
      BY <1>5, <2>1, <3>1 DEF Map
  <2>5. MapTypes'
    <3>1. lost' \subseteq Frames
      BY <1>1, <2>1, <2>2 DEF MapTypes
    <3>2. QED
      BY <1>1, <1>2, <1>4, <2>3, <2>4, <3>1 DEF MapTypes
  <2>6. FramesAccounted'
    <3> SUFFICES ASSUME ~starved' PROVE FramesAccounted'
      BY DEF FramesAccounted
    <3>1. /\ Frames = free \cup InTables \cup Backing \cup lost
          /\ free \cap InTables = {}
          /\ (Backing \cup lost) \cap (free \cup InTables) = {}
          /\ Backing \cap lost = {}
          /\ \A v, w \in HeapPages : pte[v] = pte[w] => v = w
          /\ \A s, t \in DOMAIN table : table[s] = table[t] /\ table[s] # None => s = t
      BY <1>1 DEF FramesAccounted
    <3>2. /\ free' \cup InTables' = (free \ {f}) \cup InTables
          /\ free' \cap InTables' = {}
          /\ \A s, t \in DOMAIN table' : table'[s] = table'[t] /\ table'[s] # None => s = t
      <4>1. free \ {f} \subseteq Frames /\ (free \ {f}) \cap InTables = {}
        BY <1>1, <3>1 DEF MapTypes
      <4>2. QED
        BY <1>1, <1>5, <2>1, <3>1, <4>1, MapFrames
    <3>3. f \notin InTables /\ f \notin Backing /\ f \notin lost
      BY <3>1
    <3>4. HeapPages \subseteq Pages
      BY <1>1, RegionPages, HeapMember
    <3>5. \A v \in HeapPages : pte'[v] = pte[v]
      BY <1>5, <2>3, <3>4
    <3>6. CASE job.virt = 0
      <4>1. lost' = lost \cup {f}
        BY <2>1, <3>6
      <4>2. \A q \in owned : job.at \notin PagesOf(q)
        <5>1. job.end \in Nat /\ job.at \in Nat /\ job.at < job.end
          BY <1>1, <1>3 DEF MapJobs, JobPlaced
        <5>2. job.end <= MaxPages
          <6>1. \A r \in owned : r.start # 0
            BY <1>1, RegionPages, BoundAssumption
          <6>2. QED
            BY <1>1, <1>3, <3>6, <6>1 DEF JobPlaced
        <5>3. QED
          BY <1>1, <5>1, <5>2, RegionPages, BoundAssumption
      <4>3. HeapPages' = HeapPages
        <5>1. \A v : v \in HeapPages' <=> v \in HeapPages
          BY <1>2, <1>4, <4>2, HeapMember
        <5>2. QED
          BY <5>1
      <4>4. Backing' = Backing
        BY <3>5, <4>3 DEF Backing
      <4>5. \A v, w \in HeapPages' : pte'[v] = pte'[w] => v = w
        BY <3>1, <3>5, <4>3
      <4>6. QED
        BY <3>1, <3>2, <3>3, <4>1, <4>4, <4>5 DEF FramesAccounted
    <3>7. CASE job.virt # 0
      <4>1. lost' = lost
        BY <2>1, <3>7
      <4>2. PICK r \in owned : r.start = job.virt /\ End(r) = job.end /\ user[r.start] = "mmap"
        BY <1>1, <1>2, <1>3, <3>7 DEF JobPlaced
      <4>3. job.at \in PagesOf(r)
        BY <1>5, <4>2 DEF PagesOf
      <4>4. HeapPages' = HeapPages \cup {job.at}
        <5>1. \A v : v \in HeapPages' <=> v \in HeapPages \/ v = job.at
          BY <1>2, <1>4, <4>2, <4>3, HeapMember
        <5>2. QED
          BY <5>1
      <4>5. Backing' = Backing \cup {f}
        <5>1. \A x : x \in Backing' <=> \E v \in HeapPages' : x = pte'[v]
          BY DEF Backing
        <5>2. \A x : x \in Backing <=> \E v \in HeapPages : x = pte[v]
          BY DEF Backing
        <5>3. \A x : x \in Backing' <=> x \in Backing \/ x = f
          BY <2>3, <3>5, <4>4, <5>1, <5>2
        <5>4. QED
          BY <5>3
      <4>6. \A v, w \in HeapPages' : pte'[v] = pte'[w] => v = w
        <5>1. \A v \in HeapPages : pte[v] # f
          BY <3>3 DEF Backing
        <5>2. QED
          BY <2>3, <3>1, <3>5, <4>4, <5>1
      <4>7. QED
        BY <3>1, <3>2, <3>3, <4>1, <4>5, <4>6 DEF FramesAccounted
    <3>8. QED
      BY <3>6, <3>7
  <2>7. QED
    BY <1>4, <1>6, <2>5, <2>6 DEF MapRest
<1>8. CASE starved' = TRUE /\ UNCHANGED <<free, table, pte, lost>>
  <2>1. MapTypes'
    BY <1>1, <1>2, <1>4, <1>8 DEF MapTypes
  <2>2. FramesAccounted'
    BY <1>8 DEF FramesAccounted
  <2>3. QED
    BY <1>4, <1>6, <2>1, <2>2 DEF MapRest
<1>9. QED
  BY <1>7, <1>8 DEF MmapPage

(* acpi_os_map_memory and pci_express_read map a page of a device: at most *)
(* a frame for the table leaves the pool.                                  *)
LEMMA DevicePageRest ==
  ASSUME MapInv, ~starved, DevicePage
  PROVE  MapRest'
<1>1. /\ MapTypes /\ UsersOwn /\ JobPlaced /\ FramesAccounted
      /\ OwnedPlaced /\ owned \subseteq Node
  BY DEF MapInv, MapRest, SpaceInv, TypeOK
<1> DEFINE target == job.phys + (job.at - job.virt)
<1>2. /\ job.op \in {"acpi", "pcie"} /\ Map(job.at, target, free)
      /\ owned' = owned /\ user' = user /\ tlb' = tlb /\ lost' = lost
      /\ IF job.op = "acpi" THEN Advance ELSE job' = [job EXCEPT !.op = "read"]
  BY DEF DevicePage, space
<1>3. job \in MapJobs
  BY <1>1, <1>2, JobKinds DEF Users
<1>4. /\ JobPlaced' /\ job' \in {Idle} \cup MapJobs
      /\ job' \in MapJobs /\ job'.op # "read" =>
           job'.virt = job.virt /\ job'.end = job.end
      /\ Pending' = {} /\ Pending = {}
  <2>1. CASE job.op = "acpi"
    BY <1>2, <1>3, <2>1, AdvancePlaced
  <2>2. CASE job.op = "pcie"
    <3>1. job' = [job EXCEPT !.op = "read"]
      BY <1>2, <2>2
    <3>2. /\ job' \in MapJobs /\ job' \notin UnmapJobs
          /\ job'.op = "read" /\ job'.virt = job.virt /\ job'.at = job.at /\ job'.end = job.end
      BY <1>3, <3>1 DEF MapJobs, UnmapJobs
    <3>3. JobPlaced'
      BY <1>1, <1>2, <1>3, <2>2, <3>2 DEF JobPlaced
    <3>4. Pending' = {} /\ Pending = {}
      BY <2>2, <3>2 DEF Pending
    <3>5. QED
      BY <3>2, <3>3, <3>4
  <2>3. QED
    BY <1>2, <2>1, <2>2
<1>5. job.at \in Pages /\ job.at \notin HeapPages
  BY <1>3, JobPage
<1>6. target \in Entries
  <2>1. /\ job.phys \in Nat /\ job.at \in Nat /\ job.virt \in Nat /\ job.virt <= job.at
    BY <1>1, <1>3 DEF MapJobs, JobPlaced
  <2>2. target \in Nat
    BY <2>1
  <2>3. QED
    BY <2>2 DEF Entries
<1> HIDE DEF target
<1>7. /\ pte' \in [Pages -> Entries] /\ \A w \in Pages : w # job.at => pte'[w] = pte[w]
  BY <1>1, <1>2, <1>5, <1>6, MapEntry
<1>8. UsersOwn'
  BY <1>1, <1>2 DEF UsersOwn
<1>9. MapTypes'
  <2>1. free' \subseteq Frames /\ table' \in [{TableOf(w) : w \in Pages} -> Frames \cup {None}]
    <3>1. free \subseteq Frames /\ table \in [{TableOf(w) : w \in Pages} -> Frames \cup {None}]
      BY <1>1 DEF MapTypes
    <3>2. QED
      BY <1>2, <1>5, <3>1 DEF Map
  <2>2. QED
    BY <1>1, <1>2, <1>4, <1>7, <2>1 DEF MapTypes
<1>10. FramesAccounted'
  <2> SUFFICES ASSUME ~starved' PROVE FramesAccounted'
    BY DEF FramesAccounted
  <2>1. /\ Frames = free \cup InTables \cup Backing \cup lost
        /\ free \cap InTables = {}
        /\ (Backing \cup lost) \cap (free \cup InTables) = {}
        /\ Backing \cap lost = {}
        /\ \A v, w \in HeapPages : pte[v] = pte[w] => v = w
        /\ \A s, t \in DOMAIN table : table[s] = table[t] /\ table[s] # None => s = t
    BY <1>1 DEF FramesAccounted
  <2>2. /\ free' \cup InTables' = free \cup InTables
        /\ free' \cap InTables' = {}
        /\ \A s, t \in DOMAIN table' : table'[s] = table'[t] /\ table'[s] # None => s = t
    <3>1. free \subseteq Frames
      BY <1>1 DEF MapTypes
    <3>2. QED
      BY <1>1, <1>2, <1>5, <2>1, <3>1, MapFrames
  <2>3. HeapPages' = HeapPages
    <3>1. \A v : v \in HeapPages' <=> v \in HeapPages
      BY <1>2, <1>4, HeapMember
    <3>2. QED
      BY <3>1
  <2>4. HeapPages \subseteq Pages
    BY <1>1, RegionPages, HeapMember
  <2>5. \A v \in HeapPages : pte'[v] = pte[v]
    BY <1>5, <1>7, <2>4
  <2>6. Backing' = Backing
    BY <2>3, <2>5 DEF Backing
  <2>7. \A v, w \in HeapPages' : pte'[v] = pte'[w] => v = w
    BY <2>1, <2>3, <2>5
  <2>8. QED
    BY <1>2, <2>1, <2>2, <2>6, <2>7 DEF FramesAccounted
<1>11. QED
  BY <1>4, <1>8, <1>9, <1>10 DEF MapRest

-----------------------------------------------------------------------------
(* mm_virtual_free of a region without a mapped page of the heap. *)
LEMMA GiveBackRest ==
  ASSUME MapInv, ~starved, ~panicked, NEW region \in owned, GiveBack(region), job' = Idle,
         UNCHANGED <<free, table, starved, lost>>,
         pte' \in [Pages -> Entries],
         \A v \in Pages : v \notin PagesOf(region) => pte'[v] = pte[v],
         job \in UnmapJobs => job.region = region,
         Pending \subseteq PagesOf(region), HeapPages \cap PagesOf(region) = {}
  PROVE  MapRest'
<1>1. /\ MapTypes /\ UsersOwn /\ JobPlaced /\ FramesAccounted
      /\ OwnedPlaced /\ owned \subseteq Node
  BY DEF MapInv, MapRest, SpaceInv, TypeOK
<1>2. /\ owned' = owned \ {region}
      /\ user' = [s \in DOMAIN user \ {region.start} |-> user[s]]
      /\ tlb' = [v \in Pages |-> IF v \in PagesOf(region) THEN None ELSE tlb[v]]
  BY DEF GiveBack, Free, Invlpg
<1>3. job' \notin MapJobs /\ job' \notin UnmapJobs /\ Pending' = {}
  BY DEF Idle, MapJobs, UnmapJobs, Users, Pending
<1>4. JobPlaced'
  BY <1>3 DEF JobPlaced
<1>5. \A q \in owned : q # region => q.start # region.start
  <2> SUFFICES ASSUME NEW q \in owned, q.start = region.start PROVE q = region
    OBVIOUS
  <2>1. q.start \in PagesOf(q) /\ region.start \in PagesOf(region)
    BY <1>1, RegionPages
  <2>2. QED
    BY <1>1, <2>1, PagesApart
<1>6. /\ UsersOwn'
      /\ \A q \in owned : q # region => user'[q.start] = user[q.start]
  <2>1. user \in [{r.start : r \in owned} -> Users]
    BY <1>1 DEF UsersOwn
  <2>2. DOMAIN user \ {region.start} = {r.start : r \in owned'}
    BY <1>2, <1>5, <2>1
  <2>3. UsersOwn'
    BY <1>2, <2>1, <2>2 DEF UsersOwn
  <2>4. QED
    BY <1>2, <1>5, <2>1, <2>3
<1>7. MapTypes'
  <2>1. tlb' \in [Pages -> Entries]
    BY <1>1, <1>2 DEF MapTypes, Entries
  <2>2. QED
    BY <1>1, <2>1 DEF MapTypes
<1>8. HeapPages' = HeapPages
  <2>1. \A q \in owned : \A v \in PagesOf(q) : v \in PagesOf(region) => q = region
    BY <1>1, PagesApart
  <2>2. \A v : v \in HeapPages' <=> v \in HeapPages
    <3> TAKE v
    <3>1. v \in HeapPages => v \in HeapPages'
      BY <1>2, <1>3, <1>6, HeapMember
    <3>2. v \in HeapPages' => v \in HeapPages
      BY <1>2, <1>3, <1>6, <2>1, HeapMember
    <3>3. QED
      BY <3>1, <3>2
  <2>3. QED
    BY <2>2
<1>9. FramesAccounted'
  <2>1. HeapPages \subseteq Pages
    BY <1>1, RegionPages, HeapMember
  <2>2. \A v \in HeapPages : pte'[v] = pte[v]
    BY <2>1
  <2>3. QED
    BY <1>1, <1>8, <2>2, AccountedSame
<1>10. QED
  BY <1>4, <1>6, <1>7, <1>9 DEF MapRest

(* A region whose user is not mmap has no page of the heap. *)
LEMMA OtherUser ==
  ASSUME MapInv, NEW region \in owned, user[region.start] # "mmap"
  PROVE  HeapPages \cap PagesOf(region) = {}
<1>1. OwnedPlaced /\ owned \subseteq Node
  BY DEF MapInv, SpaceInv, TypeOK
<1>2. \A q \in owned : \A v \in PagesOf(q) : v \in PagesOf(region) => q = region
  BY <1>1, PagesApart
<1>3. QED
  BY <1>2, HeapMember

(* The end of munmap. *)
LEMMA MunmapFreeRest ==
  ASSUME MapInv, ~starved, ~panicked, MunmapFree
  PROVE  MapRest'
<1>1. /\ job.op = "munmap" /\ job.at = End(job.region) /\ GiveBack(job.region) /\ job' = Idle
      /\ UNCHANGED <<free, table, pte, starved, lost>>
  BY DEF MunmapFree
<1>2. MapTypes /\ JobPlaced
  BY DEF MapInv, MapRest
<1>3. job \in UnmapJobs /\ job.region \in owned
  BY <1>1, <1>2, JobKinds DEF JobPlaced
<1>4. Pending = PagesOf(job.region)
  BY <1>1 DEF Pending, PagesOf
<1>5. HeapPages \cap PagesOf(job.region) = {}
  BY <1>4, HeapMember
<1>6. pte' \in [Pages -> Entries]
  BY <1>1, <1>2 DEF MapTypes
<1>7. QED
  BY <1>1, <1>3, <1>4, <1>5, <1>6, GiveBackRest

(* acpi_os_unmap_memory: the entries of the region stay, the cached        *)
(* translations do not.                                                    *)
LEMMA AcpiUnmapRest ==
  ASSUME MapInv, ~starved, ~panicked, NEW region \in owned, AcpiUnmap(region)
  PROVE  MapRest'
<1>1. /\ job = Idle /\ user[region.start] = "acpi" /\ GiveBack(region) /\ job' = Idle
      /\ UNCHANGED <<free, table, pte, starved, lost>>
  BY DEF AcpiUnmap
<1>2. job \notin UnmapJobs /\ Pending = {}
  BY <1>1 DEF Pending, Idle, UnmapJobs
<1>3. HeapPages \cap PagesOf(region) = {}
  BY <1>1, OtherUser
<1>4. pte' \in [Pages -> Entries]
  BY <1>1 DEF MapInv, MapRest, MapTypes
<1>5. QED
  BY <1>1, <1>2, <1>3, <1>4, GiveBackRest

(* The end of pci_express_read, with and without address space. *)
LEMMA PcieUnmapRest ==
  ASSUME MapInv, ~starved, ~panicked, PcieUnmap
  PROVE  MapRest'
<1>1. /\ MapTypes /\ UsersOwn /\ JobPlaced /\ FramesAccounted
      /\ OwnedPlaced /\ owned \subseteq Node
  BY DEF MapInv, MapRest, SpaceInv, TypeOK
<1>2. /\ job.op = "read" /\ job' = Idle /\ pte' = [pte EXCEPT ![job.at] = None]
      /\ UNCHANGED <<free, table, starved, lost>>
  BY DEF PcieUnmap
<1>3. job \in MapJobs /\ job \notin UnmapJobs /\ Pending = {}
  <2>1. job \in MapJobs /\ job \notin UnmapJobs
    BY <1>1, <1>2, JobKinds
  <2>2. QED
    BY <1>2, <2>1 DEF Pending
<1>4. job.at \in Pages /\ job.at \notin HeapPages
  BY <1>3, JobPage
<1>5. /\ pte' \in [Pages -> Entries]
      /\ \A v \in Pages : v # job.at => pte'[v] = pte[v]
  BY <1>1, <1>2, <1>4 DEF MapTypes, Entries
<1>6. /\ job.virt \in Nat /\ job.at \in Nat /\ job.end \in Nat
      /\ job.virt <= job.at /\ job.at < job.end /\ job.end = job.virt + 1
  BY <1>1, <1>2, <1>3 DEF MapJobs, JobPlaced
<1>7. CASE job.virt = 0
  <2>1. owned' = owned /\ tlb' = tlb /\ user' = user
    BY <1>7 DEF PcieUnmap, space
  <2>2. job' \notin MapJobs /\ job' \notin UnmapJobs /\ Pending' = {}
    BY <1>2 DEF Idle, MapJobs, UnmapJobs, Users, Pending
  <2>3. HeapPages' = HeapPages
    <3>1. \A v : v \in HeapPages' <=> v \in HeapPages
      BY <1>3, <2>1, <2>2, HeapMember
    <3>2. QED
      BY <3>1
  <2>4. FramesAccounted'
    <3>1. HeapPages \subseteq Pages
      BY <1>1, RegionPages, HeapMember
    <3>2. \A v \in HeapPages : pte'[v] = pte[v]
      BY <1>4, <1>5, <3>1
    <3>3. QED
      BY <1>1, <1>2, <2>3, <3>2, AccountedSame
  <2>5. MapTypes' /\ UsersOwn' /\ JobPlaced'
    BY <1>1, <1>2, <1>5, <2>1, <2>2 DEF MapTypes, UsersOwn, JobPlaced
  <2>6. QED
    BY <2>4, <2>5 DEF MapRest
<1>8. CASE job.virt # 0
  <2>1. PICK region \in owned : region.start = job.virt /\ GiveBack(region)
    BY <1>8 DEF PcieUnmap
  <2>2. PICK r \in owned : r.start = job.virt /\ user[r.start] = "pcie"
    BY <1>1, <1>2, <1>3, <1>8 DEF JobPlaced
  <2>3. user[region.start] # "mmap"
    BY <2>1, <2>2
  <2>4. job.at \in PagesOf(region)
    <3>1. job.at = region.start
      BY <1>6, <2>1
    <3>2. QED
      BY <1>1, <3>1, RegionPages
  <2>5. HeapPages \cap PagesOf(region) = {}
    BY <2>3, OtherUser
  <2>6. \A v \in Pages : v \notin PagesOf(region) => pte'[v] = pte[v]
    BY <1>5, <2>4
  <2>7. QED
    BY <1>2, <1>3, <1>5, <2>1, <2>5, <2>6, GiveBackRest
<1>9. QED
  BY <1>7, <1>8

(* munmap starts on a region of the heap. *)
LEMMA MunmapRest ==
  ASSUME MapInv, ~starved, NEW region \in owned, Munmap(region)
  PROVE  MapRest'
<1>1. /\ MapTypes /\ UsersOwn /\ JobPlaced /\ FramesAccounted
      /\ OwnedPlaced /\ owned \subseteq Node
  BY DEF MapInv, MapRest, SpaceInv, TypeOK
<1>2. /\ job = Idle /\ user[region.start] = "mmap"
      /\ job' = [op |-> "munmap", region |-> region, at |-> region.start]
      /\ owned' = owned /\ free' = free /\ table' = table /\ pte' = pte /\ tlb' = tlb
      /\ user' = user /\ starved' = starved /\ lost' = lost
  BY DEF Munmap, space, mappings
<1>3. region \in Node /\ region.start \in Nat /\ End(region) \in Nat /\ region.start < End(region)
  BY <1>1, RegionPages
<1>4. /\ job' \in UnmapJobs /\ job' \notin MapJobs
      /\ job'.op = "munmap" /\ job'.region = region /\ job'.at = region.start
  BY <1>2, <1>3 DEF UnmapJobs, MapJobs, Users
<1>5. MapTypes'
  BY <1>1, <1>2, <1>4 DEF MapTypes
<1>6. UsersOwn' /\ JobPlaced'
  BY <1>1, <1>2, <1>3, <1>4 DEF UsersOwn, JobPlaced
<1>7. job \notin UnmapJobs /\ Pending = {} /\ Pending' = {}
  <2>1. Pending' = region.start .. region.start - 1
    BY <1>4 DEF Pending
  <2>2. QED
    BY <1>2, <1>3, <2>1 DEF Pending, Idle, UnmapJobs
<1>8. HeapPages' = HeapPages
  <2>1. \A v : v \in HeapPages' <=> v \in HeapPages
    BY <1>2, <1>7, HeapMember
  <2>2. QED
    BY <2>1
<1>9. FramesAccounted'
  BY <1>1, <1>2, <1>8, AccountedSame
<1>10. QED
  BY <1>5, <1>6, <1>9 DEF MapRest

(* One turn of munmap: the frame behind the page goes back to the pool.    *)
LEMMA MunmapPageRest ==
  ASSUME MapInv, ~starved, MunmapPage
  PROVE  MapRest'
<1>1. /\ MapTypes /\ UsersOwn /\ JobPlaced /\ FramesAccounted
      /\ OwnedPlaced /\ owned \subseteq Node
  BY DEF MapInv, MapRest, SpaceInv, TypeOK
<1> DEFINE region == job.region
           f == pte[job.at]
<1>2. /\ job.op = "munmap" /\ job.at < End(region)
      /\ pte' = [pte EXCEPT ![job.at] = None] /\ free' = free \cup {f}
      /\ job' = [job EXCEPT !.at = job.at + 1]
      /\ owned' = owned /\ table' = table /\ tlb' = tlb
      /\ user' = user /\ starved' = starved /\ lost' = lost
  BY DEF MunmapPage, space
<1>3. /\ job \in UnmapJobs /\ job \notin MapJobs
      /\ region \in owned /\ user[region.start] = "mmap"
      /\ region.start <= job.at /\ job.at \in Nat
  <2>1. job \in UnmapJobs /\ job \notin MapJobs
    BY <1>1, <1>2, JobKinds DEF Users
  <2>2. QED
    BY <1>1, <2>1 DEF JobPlaced, UnmapJobs
<1>4. /\ job' \in UnmapJobs /\ job' \notin MapJobs
      /\ job'.op = "munmap" /\ job'.region = region /\ job'.at = job.at + 1
  BY <1>2, <1>3 DEF UnmapJobs, MapJobs, Users
<1> HIDE DEF region
<1>5. region.start \in Nat /\ End(region) \in Nat
  BY <1>1, <1>3, RegionPages
<1>6. job.at \in PagesOf(region)
  BY <1>2, <1>3, <1>5 DEF PagesOf
<1>7. /\ Pending = region.start .. job.at - 1 /\ Pending' = region.start .. job.at
      /\ job.at \notin Pending /\ Pending' = Pending \cup {job.at}
  <2>1. Pending = region.start .. job.at - 1
    BY <1>2 DEF Pending, region
  <2>2. Pending' = region.start .. (job.at + 1) - 1
    BY <1>4 DEF Pending
  <2>3. QED
    BY <1>3, <1>5, <2>1, <2>2
<1>8. job.at \in HeapPages /\ HeapPages \subseteq Pages
  <2>1. job.at \in HeapPages
    BY <1>3, <1>6, <1>7, HeapMember
  <2>2. QED
    BY <1>1, <2>1, RegionPages, HeapMember
<1>9. HeapPages' = HeapPages \ {job.at}
  <2>1. \A v : v \in HeapPages' <=> v \in HeapPages /\ v # job.at
    BY <1>2, <1>7, HeapMember
  <2>2. QED
    BY <2>1
<1>10. /\ pte' \in [Pages -> Entries] /\ \A v \in Pages : v # job.at => pte'[v] = pte[v]
  BY <1>1, <1>2, <1>8 DEF MapTypes, Entries
<1>11. /\ Frames = free \cup InTables \cup Backing \cup lost
       /\ free \cap InTables = {}
       /\ (Backing \cup lost) \cap (free \cup InTables) = {}
       /\ Backing \cap lost = {}
       /\ \A v, w \in HeapPages : pte[v] = pte[w] => v = w
       /\ \A s, t \in DOMAIN table : table[s] = table[t] /\ table[s] # None => s = t
  BY <1>1 DEF FramesAccounted
<1>12. f \in Backing /\ f \in Frames
  BY <1>8, <1>11 DEF Backing
<1>13. MapTypes'
  BY <1>1, <1>2, <1>4, <1>10, <1>12 DEF MapTypes
<1>14. UsersOwn'
  BY <1>1, <1>2 DEF UsersOwn
<1>15. JobPlaced'
  BY <1>1, <1>2, <1>3, <1>4, <1>5 DEF JobPlaced
<1>16. FramesAccounted'
  <2>1. Backing' = Backing \ {f}
    <3>1. \A x : x \in Backing' <=> \E v \in HeapPages' : x = pte'[v]
      BY DEF Backing
    <3>2. \A x : x \in Backing <=> \E v \in HeapPages : x = pte[v]
      BY DEF Backing
    <3>3. \A v \in HeapPages' : pte'[v] = pte[v]
      BY <1>8, <1>9, <1>10
    <3>4. \A x : x \in Backing' <=> x \in Backing /\ x # f
      BY <1>8, <1>9, <1>11, <3>1, <3>2, <3>3
    <3>5. QED
      BY <3>4
  <2>2. InTables' = InTables
    BY <1>2 DEF InTables
  <2>3. \A v, w \in HeapPages' : pte'[v] = pte'[w] => v = w
    BY <1>8, <1>9, <1>10, <1>11
  <2>4. QED
    BY <1>2, <1>11, <1>12, <2>1, <2>2, <2>3 DEF FramesAccounted
<1>17. QED
  BY <1>13, <1>14, <1>15, <1>16 DEF MapRest

(* The processor caches an entry, or drops one. *)
LEMMA CacheRest ==
  ASSUME MapInv, ~starved, NEW v \in Pages, Fill(v) \/ Evict(v)
  PROVE  MapRest'
<1>1. /\ MapTypes /\ UsersOwn /\ JobPlaced /\ FramesAccounted
  BY DEF MapInv, MapRest
<1>2. /\ owned' = owned /\ free' = free /\ table' = table /\ pte' = pte
      /\ user' = user /\ job' = job /\ starved' = starved /\ lost' = lost
  BY DEF Fill, Evict, space
<1>3. tlb' = [tlb EXCEPT ![v] = None] \/ tlb' = [tlb EXCEPT ![v] = pte[v]]
  BY DEF Fill, Evict
<1>4. tlb' \in [Pages -> Entries]
  BY <1>1, <1>3 DEF MapTypes, Entries
<1>5. MapTypes' /\ UsersOwn' /\ JobPlaced'
  BY <1>1, <1>2, <1>4 DEF MapTypes, UsersOwn, JobPlaced
<1>6. HeapPages' = HeapPages
  BY <1>2 DEF HeapPages, Pending
<1>7. FramesAccounted'
  BY <1>1, <1>2, <1>6, AccountedSame
<1>8. QED
  BY <1>5, <1>7 DEF MapRest
-----------------------------------------------------------------------------
(* Before the first call nothing is mapped and every frame is in the pool. *)
LEMMA MapInitInv == MapInit => MapInv
<1> SUFFICES ASSUME MapInit PROVE MapInv
  OBVIOUS
<1>1. SpaceInv
  BY InitSpace DEF MapInit
<1>2. owned = {} /\ job = Idle /\ user = <<>> /\ free = Frames /\ lost = {}
  BY DEF MapInit, Init
<1>3. /\ table = [t \in {TableOf(v) : v \in Pages} |-> None]
      /\ pte = [v \in Pages |-> None] /\ tlb = [v \in Pages |-> None]
  BY DEF MapInit
<1>4. job \notin MapJobs /\ job \notin UnmapJobs
  BY <1>2 DEF Idle, MapJobs, UnmapJobs, Users
<1>5. MapTypes
  BY <1>2, <1>3 DEF MapTypes, Entries
<1>6. OwnedPlaced /\ JobPlaced
  BY <1>2, <1>4 DEF OwnedPlaced, JobPlaced
<1>7. UsersOwn
  BY <1>2 DEF UsersOwn
<1>8. FramesAccounted
  <2>1. HeapPages = {}
    BY <1>2, HeapMember
  <2>2. Backing = {}
    BY <2>1 DEF Backing
  <2>3. InTables = {}
    BY <1>3 DEF InTables
  <2>4. \A s \in DOMAIN table : table[s] = None
    BY <1>3
  <2>5. QED
    BY <1>2, <2>1, <2>2, <2>3, <2>4 DEF FramesAccounted
<1>9. QED
  BY <1>1, <1>5, <1>6, <1>7, <1>8 DEF MapInv, MapRest

(* Every step of every user of the address space keeps the invariant. *)
LEMMA MapNextInv == MapInv /\ [MapNext]_mapVars => MapInv'
<1> SUFFICES ASSUME MapInv, [MapNext]_mapVars PROVE MapInv'
  OBVIOUS
<1>1. CASE UNCHANGED mapVars
  <2>1. UNCHANGED vars /\ UNCHANGED <<mappings, user, job, starved, lost>>
    BY <1>1 DEF mapVars, space, vars
  <2>2. SpaceInv'
    BY <2>1, NextSpace DEF MapInv
  <2>3. OwnedPlaced'
    BY <2>1 DEF MapInv, OwnedPlaced, vars
  <2>4. MapRest'
    <3>1. MapTypes' /\ UsersOwn' /\ JobPlaced'
      BY <2>1 DEF MapInv, MapRest, vars, mappings, MapTypes, UsersOwn, JobPlaced
    <3>2. FramesAccounted'
      BY <2>1 DEF MapInv, MapRest, vars, mappings, FramesAccounted, HeapPages, Pending,
                  Backing, InTables
    <3>3. QED
      BY <3>1, <3>2 DEF MapRest
  <2>5. QED
    BY <2>2, <2>3, <2>4 DEF MapInv
<1>2. CASE MapNext
  <2>1. ~panicked /\ ~starved
    BY <1>2 DEF MapNext
  <2>2. [Next]_vars
    BY <1>2, SpaceStep
  <2>3. SpaceInv'
    BY <2>2, NextSpace DEF MapInv
  <2>4. OwnedPlaced'
    BY <2>2, <2>3, PlacedStep DEF MapInv
  <2>5. ASSUME BootStep PROVE MapRest'
    BY <2>1, <2>5, BootRest
  <2>6. ASSUME NEW pages \in 1 .. MaxPages, Take("mmap", pages, 0) PROVE MapRest'
    BY <2>1, <2>3, <2>4, <2>6, TakeRest DEF Users
  <2>7. ASSUME NEW pages \in 1 .. MaxPages, NEW phys \in Device, Take("acpi", pages, phys)
        PROVE  MapRest'
    BY <2>1, <2>3, <2>4, <2>7, TakeRest, MappingAssumption DEF Users
  <2>8. ASSUME NEW phys \in Device, Take("pcie", 1, phys) PROVE MapRest'
    <3>1. 1 \in 1 .. MaxPages
      BY BoundAssumption
    <3>2. QED
      BY <2>1, <2>3, <2>4, <2>8, <3>1, TakeRest, MappingAssumption DEF Users
  <2>9. ASSUME MmapPage PROVE MapRest'
    BY <2>1, <2>9, MmapPageRest
  <2>10. ASSUME DevicePage PROVE MapRest'
    BY <2>1, <2>10, DevicePageRest
  <2>11. ASSUME MunmapPage PROVE MapRest'
    BY <2>1, <2>11, MunmapPageRest
  <2>12. ASSUME MunmapFree PROVE MapRest'
    BY <2>1, <2>12, MunmapFreeRest
  <2>13. ASSUME PcieUnmap PROVE MapRest'
    BY <2>1, <2>13, PcieUnmapRest
  <2>14. ASSUME NEW region \in owned, Munmap(region) PROVE MapRest'
    BY <2>1, <2>14, MunmapRest
  <2>15. ASSUME NEW region \in owned, AcpiUnmap(region) PROVE MapRest'
    BY <2>1, <2>15, AcpiUnmapRest
  <2>16. ASSUME NEW v \in Pages, Fill(v) \/ Evict(v) PROVE MapRest'
    BY <2>1, <2>16, CacheRest
  <2>17. MapRest'
    BY <1>2, <2>5, <2>6, <2>7, <2>8, <2>9, <2>10, <2>11, <2>12, <2>13, <2>14, <2>15, <2>16
       DEF MapNext
  <2>18. QED
    BY <2>3, <2>4, <2>17 DEF MapInv
<1>3. QED
  BY <1>1, <1>2

(* The invariant the results about the mappings follow from. *)
THEOREM MapCorrect == MapSpec => []MapInv
<1>1. QED
  BY MapInitInv, MapNextInv, PTL DEF MapSpec

(* The users of the address space go through mm_virtual_init,              *)
(* mm_virtual_alloc and mm_virtual_free only: what holds of AddressSpace   *)
(* alone holds of it under every user.                                     *)
THEOREM UsersImplementSpace == MapSpec => Spec
<1>1. MapInit => Init
  BY DEF MapInit
<1>2. [MapNext]_mapVars => [Next]_vars
  <2> SUFFICES ASSUME [MapNext]_mapVars PROVE [Next]_vars
    OBVIOUS
  <2>1. CASE MapNext
    BY <2>1, SpaceStep
  <2>2. CASE UNCHANGED mapVars
    BY <2>2 DEF mapVars, space, vars
  <2>3. QED
    BY <2>1, <2>2
<1>3. QED
  BY <1>1, <1>2, PTL DEF MapSpec, Spec

(* The nodes tile the address space under every interleaving of mmap,      *)
(* munmap, acpi_os_map_memory, acpi_os_unmap_memory and pci_express_read.  *)
THEOREM UsersKeepTiling == MapSpec => []Tiling
  BY UsersImplementSpace, TilingCorrect, PTL

(* Every frame is free, a page table, behind one page of the heap or lost  *)
(* to an mmap without address space, for every sequence of mmap and munmap *)
(* of every length.                                                        *)
THEOREM FramesCorrect == MapSpec => []FramesAccounted
<1>1. MapInv => FramesAccounted
  BY DEF MapInv, MapRest
<1>2. QED
  BY <1>1, MapCorrect, PTL

-----------------------------------------------------------------------------
(***************************************************************************)
(* The TLB.  Above the pages at address 0, where the calls that got no     *)
(* address space map over each other, a page that nobody has mapped since  *)
(* it was given back still has the entry it was given back with, and no    *)
(* such entry names a frame: munmap clears its entries before it frees the *)
(* region, pci_express_read too, and those that acpi_os_unmap_memory       *)
(* leaves are a device's.  So a cached translation is the entry of now or  *)
(* the one from then, except on the pages that a running munmap has        *)
(* cleared, which it invalidates before anybody else gets them.            *)
(***************************************************************************)
Unmapped == IF job \in MapJobs /\ job.op # "read" THEN job.at .. job.end - 1 ELSE {}
Cleared == IF job \in UnmapJobs THEN job.region.start .. job.at - 1 ELSE {}

PageFresh(v) ==
  /\ remains[v] \notin Frames
  /\ v \notin HeldPages \/ v \in Unmapped => pte[v] = remains[v]
  /\ v \in Cleared => pte[v] = None
  /\ v \notin Cleared => tlb[v] \in {None, pte[v], remains[v]}
  /\ \A q \in owned : v \in PagesOf(q) /\ user[q.start] # "mmap" => pte[v] \notin Frames

TlbInv == \A v \in Pages : MaxPages <= v => PageFresh(v)

(* A step that leaves the regions, the entries and the call in progress    *)
(* alone.                                                                  *)
LEMMA SameFresh ==
  ASSUME NEW v, PageFresh(v), owned' = owned, user' = user, pte' = pte, job' = job,
         remains' = remains, tlb'[v] \in {None, pte[v], tlb[v]}
  PROVE  PageFresh(v)'
  BY DEF PageFresh, HeldPages, Unmapped, Cleared

(* mm_virtual_alloc hands out pages that nobody has mapped since they were *)
(* given back.                                                             *)
LEMMA TakeFresh ==
  ASSUME MapInv, SpaceInv', OwnedPlaced', TlbInv, NEW v \in Pages, MaxPages <= v,
         ~panicked, NEW op \in Users, NEW pages \in 1 .. MaxPages, NEW phys \in Nat,
         Take(op, pages, phys)
  PROVE  PageFresh(v)'
<1>1. /\ job = Idle /\ pte' = pte /\ tlb' = tlb /\ remains' = remains
  BY DEF Take, mappings
<1>2. PageFresh(v) /\ v \in Nat /\ pages \in Nat /\ pages <= MaxPages /\ MaxPages \in Nat
  BY BoundAssumption, MappingAssumption DEF TlbInv, Pages
<1>3. Unmapped = {} /\ Cleared = {}
  BY <1>1 DEF Unmapped, Cleared, Idle, MapJobs, UnmapJobs
<1>4. ASSUME NEW virt \in Nat, Begin(op, virt, pages, phys)
      PROVE  Unmapped' = virt .. virt + pages - 1 /\ Cleared' = {}
  <2>1. job' = [op |-> op, virt |-> virt, at |-> virt, end |-> virt + pages, phys |-> phys]
    BY <1>4 DEF Begin
  <2>2. job' \in MapJobs /\ job' \notin UnmapJobs /\ job'.op # "read"
    BY <1>2, <2>1 DEF MapJobs, UnmapJobs, Users
  <2>3. QED
    BY <2>1, <2>2 DEF Unmapped, Cleared
<1>5. CASE panicked'
  <2>1. Alloc(pages) /\ user' = user /\ job' = job
    BY <1>5 DEF Take, space
  <2>2. owned' = owned
    BY <1>5, <2>1 DEF Alloc
  <2>3. QED
    BY <1>1, <1>2, <2>1, <2>2, SameFresh
<1>6. CASE ~panicked' /\ Alloc(pages)
  <2>1. PICK region \in Node :
           /\ owned' = owned \cup {region} /\ region.start \in Nat
           /\ End(region) = region.start + pages
           /\ Begin(op, region.start, pages, phys)
           /\ \A q \in owned : \A w \in PagesOf(q) : w \notin PagesOf(region)
           /\ UsersOwn' /\ user'[region.start] = op
           /\ \A q \in owned : user'[q.start] = user[q.start]
    BY <1>6, TakeRegion
  <2>2. Unmapped' = PagesOf(region) /\ Cleared' = {}
    BY <1>4, <2>1 DEF PagesOf
  <2>3. v \in PagesOf(region) => v \notin HeldPages
    BY <2>1 DEF HeldPages
  <2>4. v \notin HeldPages' => v \notin HeldPages
    BY <2>1 DEF HeldPages
  <2>5. v \notin HeldPages' \/ v \in Unmapped' => pte[v] = remains[v]
    BY <1>2, <2>2, <2>3, <2>4 DEF PageFresh
  <2>6. \A q \in owned' : v \in PagesOf(q) /\ user'[q.start] # "mmap" => pte[v] \notin Frames
    BY <1>2, <2>1, <2>3 DEF PageFresh
  <2>7. QED
    BY <1>1, <1>2, <1>3, <2>2, <2>5, <2>6 DEF PageFresh
<1>7. CASE ~panicked' /\ ~Alloc(pages)
  <2>1. Begin(op, 0, pages, phys) /\ owned' = owned /\ user' = user
    BY <1>7 DEF Take, space
  <2>2. v \notin Unmapped' /\ Cleared' = {}
    BY <1>2, <1>4, <2>1
  <2>3. QED
    BY <1>1, <1>2, <1>3, <2>1, <2>2 DEF PageFresh, HeldPages
<1>8. QED
  BY <1>5, <1>6, <1>7

(* mm_virtual_map of the page a call is at, or the panic before it.  What  *)
(* the processor may have cached is the entry from before.                 *)
LEMMA MapFresh ==
  ASSUME MapInv, TlbInv, NEW v \in Pages, MaxPages <= v,
         job \in MapJobs, job.op # "read", owned' = owned, user' = user, tlb' = tlb,
         remains' = remains, job' \notin UnmapJobs, Unmapped' \subseteq Unmapped \ {job.at},
         \A w \in Pages : w # job.at => pte'[w] = pte[w],
         job.op # "mmap" => pte'[job.at] \notin Frames
  PROVE  PageFresh(v)'
<1>1. JobPlaced /\ OwnedPlaced /\ owned \subseteq Node
  BY DEF MapInv, MapRest, SpaceInv, TypeOK
<1>2. PageFresh(v) /\ HeldPages' = HeldPages /\ Cleared' = {} /\ Cleared = {}
  BY DEF TlbInv, HeldPages, Cleared, MapJobs, UnmapJobs, Users
<1>3. CASE v # job.at
  BY <1>2, <1>3 DEF PageFresh
<1>4. CASE v = job.at
  <2>1. /\ job.virt \in Nat /\ job.at \in Nat /\ job.end \in Nat
        /\ job.virt <= job.at /\ job.at < job.end
    BY <1>1 DEF MapJobs, JobPlaced
  <2>2. v \in Unmapped
    BY <1>4, <2>1 DEF Unmapped
  <2>3. ~(job.virt = 0 /\ job.end <= MaxPages)
    BY <1>4, <2>1, BoundAssumption
  <2>4. PICK r \in owned : r.start = job.virt /\ End(r) = job.end /\ user[r.start] = job.op
    BY <1>1, <2>3 DEF JobPlaced
  <2>5. v \in PagesOf(r)
    BY <1>4, <2>1, <2>4 DEF PagesOf
  <2>6. v \in HeldPages
    BY <2>5 DEF HeldPages
  <2>7. \A q \in owned : v \in PagesOf(q) => q = r
    BY <1>1, <2>5, PagesApart
  <2>8. \A q \in owned' : v \in PagesOf(q) /\ user'[q.start] # "mmap" => pte'[v] \notin Frames
    BY <1>4, <2>4, <2>7
  <2>9. v \notin Unmapped'
    BY <1>4
  <2>10. pte[v] = remains[v] /\ tlb[v] \in {None, remains[v]}
    BY <1>2, <2>2 DEF PageFresh
  <2>11. QED
    BY <1>2, <2>6, <2>8, <2>9, <2>10 DEF PageFresh
<1>5. QED
  BY <1>3, <1>4

(* The pages a call has still to map, when the loop goes on. *)
LEMMA AdvanceUnmapped ==
  ASSUME MapInv, job \in MapJobs, job.op \in {"mmap", "acpi"}, Advance
  PROVE  job' \notin UnmapJobs /\ Unmapped' \subseteq Unmapped \ {job.at}
<1>1. /\ job.virt \in Nat /\ job.at \in Nat /\ job.end \in Nat /\ job.at < job.end
  BY DEF MapInv, MapRest, MapJobs, JobPlaced
<1>2. Unmapped = job.at .. job.end - 1
  BY DEF Unmapped
<1>3. CASE job.at + 1 = job.end
  BY <1>3 DEF Advance, Idle, Unmapped, MapJobs, UnmapJobs, Users
<1>4. CASE job.at + 1 # job.end
  <2>1. job' = [job EXCEPT !.at = job.at + 1]
    BY <1>4 DEF Advance
  <2>2. /\ job' \in MapJobs /\ job' \notin UnmapJobs /\ job'.op # "read"
        /\ job'.at = job.at + 1 /\ job'.end = job.end
    BY <1>1, <2>1 DEF MapJobs, UnmapJobs, Users
  <2>3. Unmapped' = job.at + 1 .. job.end - 1
    BY <2>2 DEF Unmapped
  <2>4. QED
    BY <1>1, <1>2, <2>2, <2>3
<1>5. QED
  BY <1>3, <1>4

LEMMA MapPageFresh ==
  ASSUME MapInv, TlbInv, NEW v \in Pages, MaxPages <= v, MmapPage \/ DevicePage
  PROVE  PageFresh(v)'
<1>1. MapTypes /\ JobPlaced
  BY DEF MapInv, MapRest
<1>2. /\ job.op \in {"mmap", "acpi", "pcie"} /\ owned' = owned /\ user' = user
      /\ tlb' = tlb /\ remains' = remains
  BY DEF MmapPage, DevicePage, space
<1>3. job \in MapJobs
  BY <1>1, <1>2, JobKinds DEF Users
<1>4. job.at \in Pages
  BY <1>3, JobPage
<1>5. CASE MmapPage
  <2>1. Advance /\ job.op = "mmap"
    BY <1>5 DEF MmapPage
  <2>2. \A w \in Pages : w # job.at => pte'[w] = pte[w]
    <3>1. ASSUME NEW f \in free, Map(job.at, f, free \ {f})
          PROVE  \A w \in Pages : w # job.at => pte'[w] = pte[w]
      BY <1>1, <1>4, <3>1 DEF Map, MapTypes
    <3>2. QED
      BY <1>5, <3>1 DEF MmapPage
  <2>3. QED
    BY <1>2, <1>3, <2>1, <2>2, AdvanceUnmapped, MapFresh
<1>6. CASE DevicePage
  <2>1. job.op \in {"acpi", "pcie"} /\ Map(job.at, job.phys + (job.at - job.virt), free)
    BY <1>6 DEF DevicePage
  <2>2. job.phys + (job.at - job.virt) \in Nat
    BY <1>1, <1>3 DEF MapJobs, JobPlaced
  <2>3. /\ \A w \in Pages : w # job.at => pte'[w] = pte[w]
        /\ pte'[job.at] = job.phys + (job.at - job.virt)
    BY <1>1, <1>4, <2>1 DEF Map, MapTypes
  <2>4. pte'[job.at] \notin Frames
    BY <2>2, <2>3, MappingAssumption
  <2>5. job' \notin UnmapJobs /\ Unmapped' \subseteq Unmapped \ {job.at}
    <3>1. CASE job.op = "acpi"
      BY <1>3, <1>6, <3>1, AdvanceUnmapped DEF DevicePage
    <3>2. CASE job.op = "pcie"
      <4>1. job' = [job EXCEPT !.op = "read"]
        BY <1>6, <3>2 DEF DevicePage
      <4>2. job' \notin UnmapJobs /\ job'.op = "read"
        BY <1>3, <4>1 DEF MapJobs, UnmapJobs
      <4>3. QED
        BY <4>2 DEF Unmapped
    <3>3. QED
      BY <2>1, <3>1, <3>2
  <2>6. QED
    BY <1>2, <1>3, <2>1, <2>3, <2>4, <2>5, MapFresh
<1>7. QED
  BY <1>5, <1>6

(* mm_virtual_free invalidates every page of the region it gives back.     *)
LEMMA GiveBackFresh ==
  ASSUME MapInv, TlbInv, NEW v \in Pages, MaxPages <= v,
         NEW region \in owned, GiveBack(region), job' = Idle, Cleared \subseteq PagesOf(region),
         \A w \in Pages : w \notin PagesOf(region) => pte'[w] = pte[w],
         v \in PagesOf(region) => pte'[v] \notin Frames
  PROVE  PageFresh(v)'
<1>1. UsersOwn /\ OwnedPlaced /\ owned \subseteq Node
  BY DEF MapInv, MapRest, SpaceInv, TypeOK
<1>2. /\ owned' = owned \ {region}
      /\ user' = [s \in DOMAIN user \ {region.start} |-> user[s]]
      /\ tlb'[v] = IF v \in PagesOf(region) THEN None ELSE tlb[v]
      /\ remains'[v] = IF v \in PagesOf(region) THEN pte'[v] ELSE remains[v]
  BY DEF GiveBack, Free, Invlpg
<1>3. Unmapped' = {} /\ Cleared' = {}
  BY DEF Unmapped, Cleared, Idle, MapJobs, UnmapJobs
<1>4. PageFresh(v)
  BY DEF TlbInv
<1>5. CASE v \in PagesOf(region)
  <2>1. \A q \in owned : v \in PagesOf(q) => q = region
    BY <1>1, <1>5, PagesApart
  <2>2. QED
    BY <1>2, <1>3, <1>5, <2>1 DEF PageFresh
<1>6. CASE v \notin PagesOf(region)
  <2>1. v \notin HeldPages' => v \notin HeldPages
    BY <1>2, <1>6 DEF HeldPages
  <2>2. \A q \in owned' : user'[q.start] = user[q.start]
    <3> SUFFICES ASSUME NEW q \in owned, q # region PROVE user'[q.start] = user[q.start]
      BY <1>2
    <3>1. q.start \in PagesOf(q) /\ region.start \in PagesOf(region)
      BY <1>1, RegionPages
    <3>2. q.start # region.start
      BY <1>1, <3>1, PagesApart
    <3>3. q.start \in DOMAIN user
      BY <1>1 DEF UsersOwn
    <3>4. QED
      BY <1>2, <3>2, <3>3
  <2>3. pte'[v] = pte[v] /\ v \notin Cleared
    BY <1>6
  <2>4. QED
    BY <1>2, <1>3, <1>4, <1>6, <2>1, <2>2, <2>3 DEF PageFresh
<1>7. QED
  BY <1>5, <1>6

LEMMA FreeFresh ==
  ASSUME MapInv, TlbInv, NEW v \in Pages, MaxPages <= v,
         MunmapFree \/ PcieUnmap \/ \E region \in owned : AcpiUnmap(region)
  PROVE  PageFresh(v)'
<1>1. /\ MapTypes /\ JobPlaced /\ OwnedPlaced /\ owned \subseteq Node /\ PageFresh(v)
      /\ None \notin Frames
  BY MappingAssumption DEF MapInv, MapRest, SpaceInv, TypeOK, TlbInv
<1>2. CASE MunmapFree
  <2>1. /\ job.op = "munmap" /\ job.at = End(job.region) /\ GiveBack(job.region)
        /\ job' = Idle /\ pte' = pte
    BY <1>2 DEF MunmapFree
  <2>2. job \in UnmapJobs /\ job.region \in owned
    BY <1>1, <2>1, JobKinds DEF JobPlaced
  <2>3. Cleared = PagesOf(job.region)
    BY <2>1, <2>2 DEF Cleared, PagesOf
  <2>4. v \in PagesOf(job.region) => pte'[v] \notin Frames
    BY <1>1, <2>1, <2>3 DEF PageFresh
  <2>5. QED
    BY <2>1, <2>2, <2>3, <2>4, GiveBackFresh
<1>3. ASSUME NEW region \in owned, AcpiUnmap(region) PROVE PageFresh(v)'
  <2>1. /\ job = Idle /\ job' = Idle /\ user[region.start] = "acpi" /\ pte' = pte
        /\ GiveBack(region)
    BY <1>3 DEF AcpiUnmap
  <2>2. Cleared = {}
    BY <2>1 DEF Cleared, Idle, UnmapJobs
  <2>3. v \in PagesOf(region) => pte'[v] \notin Frames
    BY <1>1, <2>1 DEF PageFresh
  <2>4. QED
    BY <2>1, <2>2, <2>3, GiveBackFresh
<1>4. CASE PcieUnmap
  <2>1. /\ job.op = "read" /\ job' = Idle /\ pte' = [pte EXCEPT ![job.at] = None]
    BY <1>4 DEF PcieUnmap
  <2>2. job \in MapJobs /\ job \notin UnmapJobs /\ Cleared = {}
    BY <1>1, <2>1, JobKinds DEF Cleared
  <2>3. job.at \in Pages
    BY <2>2, JobPage
  <2>4. pte'[job.at] = None /\ \A w \in Pages : w # job.at => pte'[w] = pte[w]
    BY <1>1, <2>1, <2>3 DEF MapTypes
  <2>5. /\ job.virt \in Nat /\ job.at \in Nat /\ job.end \in Nat
        /\ job.virt <= job.at /\ job.at < job.end /\ job.end = job.virt + 1
    BY <1>1, <2>1, <2>2 DEF MapJobs, JobPlaced
  <2>6. CASE job.virt = 0
    <3>1. owned' = owned /\ tlb' = tlb /\ user' = user /\ remains' = remains
      BY <1>4, <2>6 DEF PcieUnmap, space
    <3>2. v # job.at
      BY <2>5, <2>6, BoundAssumption
    <3>3. Unmapped' = {} /\ Cleared' = {}
      BY <2>1 DEF Unmapped, Cleared, Idle, MapJobs, UnmapJobs
    <3>4. QED
      BY <1>1, <2>2, <2>4, <3>1, <3>2, <3>3 DEF PageFresh, HeldPages
  <2>7. CASE job.virt # 0
    <3>1. PICK region \in owned : region.start = job.virt /\ GiveBack(region)
      BY <1>4, <2>7 DEF PcieUnmap
    <3>2. job.at = region.start /\ job.at \in PagesOf(region)
      BY <1>1, <2>5, <3>1, RegionPages
    <3>3. PICK r \in owned : r.start = job.virt /\ user[r.start] = "pcie"
      BY <1>1, <2>1, <2>2, <2>7 DEF JobPlaced
    <3>4. v \in PagesOf(region) => pte'[v] \notin Frames
      BY <1>1, <2>4, <3>1, <3>3 DEF PageFresh
    <3>5. QED
      BY <2>1, <2>2, <2>4, <3>1, <3>2, <3>4, GiveBackFresh
  <2>8. QED
    BY <2>6, <2>7
<1>5. QED
  BY <1>2, <1>3, <1>4

(* munmap clears its pages one by one. *)
LEMMA MunmapFresh ==
  ASSUME MapInv, TlbInv, NEW v \in Pages, MaxPages <= v,
         MunmapPage \/ \E region \in owned : Munmap(region)
  PROVE  PageFresh(v)'
<1>1. MapTypes /\ JobPlaced /\ OwnedPlaced /\ owned \subseteq Node /\ PageFresh(v)
  BY DEF MapInv, MapRest, SpaceInv, TypeOK, TlbInv
<1>2. ASSUME NEW region \in owned, Munmap(region) PROVE PageFresh(v)'
  <2>1. /\ job = Idle /\ owned' = owned /\ pte' = pte /\ tlb' = tlb /\ user' = user
        /\ remains' = remains
        /\ job' = [op |-> "munmap", region |-> region, at |-> region.start]
    BY <1>2 DEF Munmap, space, mappings
  <2>2. region.start \in Nat
    BY <1>1, RegionPages
  <2>3. Unmapped' = {} /\ Cleared' = {} /\ Cleared = {}
    BY <2>1, <2>2 DEF Unmapped, Cleared, Idle, MapJobs, UnmapJobs
  <2>4. QED
    BY <1>1, <2>1, <2>3 DEF PageFresh, HeldPages
<1>3. CASE MunmapPage
  <2>1. /\ job.op = "munmap" /\ job.at < End(job.region)
        /\ pte' = [pte EXCEPT ![job.at] = None] /\ job' = [job EXCEPT !.at = job.at + 1]
        /\ owned' = owned /\ tlb' = tlb /\ user' = user /\ remains' = remains
    BY <1>3 DEF MunmapPage, space
  <2>2. /\ job \in UnmapJobs /\ job.region \in owned /\ user[job.region.start] = "mmap"
        /\ job.region.start <= job.at /\ job.at \in Nat
    BY <1>1, <2>1, JobKinds DEF JobPlaced, UnmapJobs
  <2>3. job.region.start \in Nat /\ End(job.region) \in Nat
    BY <1>1, <2>2, RegionPages
  <2>4. job.at \in PagesOf(job.region)
    BY <2>1, <2>2, <2>3 DEF PagesOf
  <2>5. job.at \in Pages /\ job.at \in HeldPages
    BY <1>1, <2>2, <2>4, RegionPages
  <2>6. pte'[job.at] = None /\ (v # job.at => pte'[v] = pte[v])
    BY <1>1, <2>1, <2>5 DEF MapTypes
  <2>7. /\ job' \in UnmapJobs /\ job' \notin MapJobs
        /\ job'.region = job.region /\ job'.at = job.at + 1
    BY <2>1, <2>2 DEF UnmapJobs, MapJobs, Users
  <2>8. Unmapped' = {} /\ Cleared = job.region.start .. job.at - 1
    BY <2>2, <2>7 DEF Unmapped, Cleared
  <2>9. Cleared' = Cleared \cup {job.at}
    <3>1. Cleared' = job.region.start .. (job.at + 1) - 1
      BY <2>7 DEF Cleared
    <3>2. QED
      BY <2>2, <2>3, <2>8, <3>1
  <2>10. HeldPages' = HeldPages
    BY <2>1 DEF HeldPages
  <2>11. \A q \in owned : job.at \in PagesOf(q) => q = job.region
    BY <1>1, <2>2, <2>4, PagesApart
  <2>12. CASE v = job.at
    BY <1>1, <2>1, <2>2, <2>5, <2>6, <2>8, <2>9, <2>10, <2>11, <2>12 DEF PageFresh
  <2>13. CASE v # job.at
    BY <1>1, <2>1, <2>6, <2>8, <2>9, <2>10, <2>13 DEF PageFresh
  <2>14. QED
    BY <2>12, <2>13
<1>4. QED
  BY <1>2, <1>3

(* Whatever the processor caches or drops, and whoever maps or unmaps. *)
LEMMA TlbNextInv == MapInv /\ MapInv' /\ TlbInv /\ [MapNext]_mapVars => TlbInv'
<1> SUFFICES ASSUME MapInv, MapInv', TlbInv, [MapNext]_mapVars, NEW v \in Pages, MaxPages <= v
             PROVE  PageFresh(v)'
  BY DEF TlbInv
<1>1. PageFresh(v) /\ MapTypes /\ SpaceInv' /\ OwnedPlaced'
  BY DEF TlbInv, MapInv, MapRest
<1>2. CASE UNCHANGED mapVars
  BY <1>1, <1>2, SameFresh DEF mapVars, space, mappings
<1>3. CASE BootStep
  <2>1. /\ owned' = owned /\ user' = user /\ pte' = pte /\ tlb' = tlb /\ job' = job
        /\ remains' = remains
    BY <1>3 DEF BootStep, Boot, RangeSet, mappings
  <2>2. QED
    BY <1>1, <2>1, SameFresh
<1>4. ASSUME ~panicked, NEW pages \in 1 .. MaxPages, Take("mmap", pages, 0)
      PROVE  PageFresh(v)'
  BY <1>1, <1>4, TakeFresh DEF Users
<1>5. ASSUME ~panicked, NEW pages \in 1 .. MaxPages, NEW phys \in Device,
             Take("acpi", pages, phys)
      PROVE  PageFresh(v)'
  BY <1>1, <1>5, TakeFresh, MappingAssumption DEF Users
<1>6. ASSUME ~panicked, NEW phys \in Device, Take("pcie", 1, phys) PROVE PageFresh(v)'
  <2>1. 1 \in 1 .. MaxPages
    BY BoundAssumption
  <2>2. QED
    BY <1>1, <1>6, <2>1, TakeFresh, MappingAssumption DEF Users
<1>7. ASSUME NEW w \in Pages, Fill(w) \/ Evict(w) PROVE PageFresh(v)'
  <2>1. /\ owned' = owned /\ user' = user /\ pte' = pte /\ job' = job /\ remains' = remains
        /\ tlb' = [tlb EXCEPT ![w] = None] \/ tlb' = [tlb EXCEPT ![w] = pte[w]]
    BY <1>7 DEF Fill, Evict, space
  <2>2. tlb'[v] \in {None, pte[v], tlb[v]}
    BY <1>1, <2>1 DEF MapTypes
  <2>3. QED
    BY <1>1, <2>1, <2>2, SameFresh
<1>8. QED
  BY <1>2, <1>3, <1>4, <1>5, <1>6, <1>7, MapPageFresh, FreeFresh, MunmapFresh DEF MapNext

(* mm_virtual_map never invalidates, and acpi_os_unmap_memory leaves its   *)
(* entries present.  The invalidation in mm_virtual_free is still enough   *)
(* for this: the only translation of an earlier time that the owner of a   *)
(* page can use is the entry the page was given back with, never one to a  *)
(* frame, so none to memory that munmap has returned to the pool.          *)
THEOREM TranslationCorrect == MapSpec => []StaleOnlyLeftPresent
<1>1. MapInit => TlbInv
  <2> SUFFICES ASSUME MapInit, NEW v \in Pages PROVE PageFresh(v)
    BY DEF TlbInv
  <2>1. /\ owned = {} /\ pte[v] = None /\ tlb[v] = None /\ remains[v] = None
        /\ None \notin Frames
    BY MappingAssumption DEF MapInit, Init
  <2>2. job \notin UnmapJobs
    BY DEF MapInit, Idle, UnmapJobs
  <2>3. QED
    BY <2>1, <2>2 DEF PageFresh, Cleared
<1>2. MapInv /\ TlbInv => StaleOnlyLeftPresent
  <2> SUFFICES ASSUME MapInv, TlbInv, job.op \in {"idle", "read"}, NEW v \in HeldPages
               PROVE  \/ tlb[v] \in {None, pte[v]}
                      \/ tlb[v] = remains[v] /\ remains[v] \notin Frames
    BY DEF StaleOnlyLeftPresent
  <2>1. MapTypes /\ OwnedPlaced /\ owned \subseteq Node
    BY DEF MapInv, MapRest, SpaceInv, TypeOK
  <2>2. v \in Pages /\ MaxPages <= v
    BY <2>1, RegionPages DEF HeldPages
  <2>3. v \notin Cleared
    BY <2>1, JobKinds DEF Cleared
  <2>4. QED
    BY <2>2, <2>3 DEF TlbInv, PageFresh
<1>3. QED
  BY <1>1, <1>2, MapCorrect, TlbNextInv, PTL DEF MapSpec
=============================================================================
