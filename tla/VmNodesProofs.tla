---------------------------- MODULE VmNodesProofs ----------------------------
(***************************************************************************)
(* Proofs about kernel/mm/slab.c and the nodes of the address space list   *)
(* it holds, for every number of objects in the slab.  First the slab by   *)
(* itself; then the pointer code of mm_virtual_insert_after,               *)
(* mm_virtual_insert_before and mm_virtual_remove (the same as that of     *)
(* kernel/util/list.c), which keeps a well-formed list, of the live        *)
(* objects of the slab.                                                    *)
(***************************************************************************)
EXTENDS VmNodes, Sequences, FiniteSetTheorems, TLAPS

(* mm_slab_alloc panics before the slab is full. *)
RoomLeft == ~panicked => inuse <= objects_per_slab - 2

IInv == TypeOK /\ FreeListExact /\ InuseCounts /\ RoomLeft

(* mm_cache_create_vm establishes the inductive invariant.                 *)
LEMMA InitIInv == Init => IInv
<1> SUFFICES ASSUME Init PROVE IInv
  OBVIOUS
<1>1. TypeOK
  <2>1. free \in [Objects -> Objects] /\ live \subseteq Objects
    BY DEF Init
  <2>2. inuse \in 0 .. objects_per_slab
    BY ObjectsAssumption DEF Init
  <2>3. list \in Lists /\ panicked \in BOOLEAN
    BY DEF Init, Lists
  <2>4. QED
    BY <2>1, <2>2, <2>3 DEF TypeOK
<1>2. FreeListExact
  BY ObjectsAssumption DEF Init, FreeListExact, FreeSlots, Objects
<1>3. InuseCounts
  BY FS_EmptySet DEF Init, InuseCounts
<1>4. RoomLeft
  BY ObjectsAssumption DEF Init, RoomLeft
<1>5. QED
  BY <1>1, <1>2, <1>3, <1>4 DEF IInv

(* The live objects are finitely many, and there are some only if inuse is *)
(* positive.                                                               *)
LEMMA LiveFinite ==
  ASSUME IInv
  PROVE  /\ IsFiniteSet(live)
         /\ Cardinality(live) \in Nat
         /\ ~panicked /\ live # {} => inuse >= 1
<1>1. IsFiniteSet(Objects)
  BY ObjectsAssumption, FS_Interval DEF Objects
<1>2. IsFiniteSet(live)
  BY <1>1, FS_Subset DEF IInv, TypeOK
<1>3. Cardinality(live) \in Nat
  BY <1>2, FS_CardinalityType
<1>4. live # {} => Cardinality(live) # 0
  BY <1>2, FS_EmptySet
<1>5. QED
  BY <1>2, <1>3, <1>4 DEF IInv, InuseCounts, TypeOK

(* mm_slab_alloc preserves it: the object it takes is the last of the      *)
(* free part of the array, and inuse stays two below the size or it panics. *)
LEMMA AllocIInv ==
  ASSUME IInv, ~panicked, Alloc
  PROVE  IInv'
<1> DEFINE o == free[Index]
<1>1. /\ inuse \in Nat /\ inuse <= objects_per_slab - 2
      /\ Index \in FreeSlots /\ Index \in Objects /\ o \in Objects
      /\ inuse' = inuse + 1
      /\ free' = [free EXCEPT ![Index] = 0]
  BY ObjectsAssumption DEF IInv, TypeOK, RoomLeft, Index, FreeSlots, Objects, Alloc
<1>2. o \in Objects \ live
  BY <1>1 DEF IInv, FreeListExact
<1>3. TypeOK'
  <2>1. free' \in [Objects -> Objects]
    <3>1. 0 \in Objects
      BY ObjectsAssumption DEF Objects
    <3>2. QED
      BY <1>1, <3>1 DEF IInv, TypeOK
  <2>2. live' \subseteq Objects /\ panicked' \in BOOLEAN
    <3>1. CASE Full(inuse + 1)
      BY <3>1 DEF IInv, TypeOK, Alloc
    <3>2. CASE ~Full(inuse + 1)
      BY <1>1, <3>2 DEF IInv, TypeOK, Alloc
    <3>3. QED
      BY <3>1, <3>2
  <2>3. inuse' \in 0 .. objects_per_slab
    BY <1>1, ObjectsAssumption
  <2>4. list' \in Lists
    BY DEF IInv, TypeOK, Alloc, Lists, queue_up
  <2>5. QED
    BY <2>1, <2>2, <2>3, <2>4 DEF TypeOK, Objects, Lists
<1>4. CASE Full(inuse + 1)
  BY <1>3, <1>4 DEF IInv, Alloc, FreeListExact, InuseCounts, RoomLeft
<1>5. CASE ~Full(inuse + 1)
  <2>1. live' = live \cup {o} /\ panicked' = panicked
    BY <1>5 DEF Alloc
  <2>2. RoomLeft'
    BY <1>1, <1>5, ObjectsAssumption DEF RoomLeft, Full
  <2>3. InuseCounts'
    <3>1. Cardinality(live \cup {o}) = Cardinality(live) + 1
      BY <1>2, LiveFinite, FS_AddElement
    <3>2. QED
      BY <1>1, <2>1, <3>1 DEF IInv, InuseCounts
  <2>4. /\ FreeSlots' = FreeSlots \ {Index}
        /\ \A i \in FreeSlots \ {Index} : free'[i] = free[i]
    BY <1>1, ObjectsAssumption DEF FreeSlots, Index, Objects, IInv, TypeOK
  <2>5. FreeListExact'
    <3>1. /\ {free[i] : i \in FreeSlots} = Objects \ live
          /\ \A i, j \in FreeSlots : free[i] = free[j] => i = j
      BY DEF IInv, FreeListExact
    <3>2. {free'[i] : i \in FreeSlots'} = Objects \ live'
      BY <1>1, <2>1, <2>4, <3>1
    <3>3. \A i, j \in FreeSlots' : free'[i] = free'[j] => i = j
      BY <2>4, <3>1
    <3>4. QED
      BY <3>2, <3>3 DEF FreeListExact, Objects
  <2>6. QED
    BY <1>3, <2>2, <2>3, <2>5 DEF IInv
<1>6. QED
  BY <1>4, <1>5

(* mm_slab_free preserves it: the slot it writes is the first behind the   *)
(* free part, and no other slot of that part holds the object.             *)
LEMMA FreeIInv ==
  ASSUME IInv, ~panicked, NEW o \in Objects, Free(o)
  PROVE  IInv'
<1> DEFINE k == objects_per_slab - inuse
<1>1. /\ inuse \in Nat /\ inuse >= 1 /\ inuse <= objects_per_slab - 2
      /\ k \in Objects /\ k \notin FreeSlots
      /\ o \in live
      /\ inuse' = inuse - 1
      /\ free' = [free EXCEPT ![k] = o]
      /\ live' = live \ {o} /\ panicked' = panicked
  BY LiveFinite, ObjectsAssumption DEF IInv, TypeOK, RoomLeft, FreeSlots, Objects, Free
<1>2. TypeOK'
  <2>1. free' \in [Objects -> Objects] /\ live' \subseteq Objects
    BY <1>1 DEF IInv, TypeOK
  <2>2. inuse' \in 0 .. objects_per_slab
    BY <1>1, ObjectsAssumption
  <2>3. list' \in Lists /\ panicked' \in BOOLEAN
    BY DEF IInv, TypeOK, Free
  <2>4. QED
    BY <2>1, <2>2, <2>3 DEF TypeOK, Objects, Lists
<1>3. RoomLeft'
  BY <1>1, ObjectsAssumption DEF RoomLeft
<1>4. InuseCounts'
  <2>1. Cardinality(live \ {o}) = Cardinality(live) - 1
    BY <1>1, LiveFinite, FS_RemoveElement
  <2>2. QED
    BY <1>1, <2>1 DEF IInv, InuseCounts
<1>5. /\ FreeSlots' = FreeSlots \cup {k}
      /\ \A i \in FreeSlots : free'[i] = free[i]
      /\ free'[k] = o
  <2>1. FreeSlots' = FreeSlots \cup {k}
    BY <1>1, ObjectsAssumption DEF FreeSlots, Objects
  <2>2. FreeSlots \subseteq Objects /\ free \in [Objects -> Objects]
    BY DEF FreeSlots, IInv, TypeOK
  <2>3. QED
    BY <1>1, <2>1, <2>2
<1>6. FreeListExact'
  <2>1. /\ {free[i] : i \in FreeSlots} = Objects \ live
        /\ \A i, j \in FreeSlots : free[i] = free[j] => i = j
    BY DEF IInv, FreeListExact
  <2>2. {free'[i] : i \in FreeSlots'} = Objects \ live'
    BY <1>1, <1>5, <2>1
  <2>3. \A i, j \in FreeSlots' : free'[i] = free'[j] => i = j
    BY <1>1, <1>5, <2>1
  <2>4. QED
    BY <2>2, <2>3 DEF FreeListExact, Objects
<1>7. QED
  BY <1>2, <1>3, <1>4, <1>6 DEF IInv

(* The inductive invariant holds in every reachable state.                 *)
LEMMA Inductive == Spec => []IInv
<1>1. IInv /\ [Next]_vars => IInv'
  <2> SUFFICES ASSUME IInv, [Next]_vars PROVE IInv'
    OBVIOUS
  <2>1. CASE UNCHANGED vars
    BY <2>1 DEF vars, IInv, TypeOK, FreeListExact, InuseCounts, RoomLeft, FreeSlots
  <2>2. CASE Next
    BY <2>2, AllocIInv, FreeIInv DEF Next
  <2>3. QED
    BY <2>1, <2>2
<1>2. QED
  BY <1>1, InitIInv, PTL DEF Spec

(* The variables of the slab keep their types. *)
THEOREM TypeCorrect == Spec => []TypeOK
<1>1. IInv => TypeOK
  BY DEF IInv
<1>2. QED
  BY <1>1, Inductive, PTL

(* mm_slab_alloc never returns an object that is in use, and an object     *)
(* that is freed can be allocated again.                                   *)
THEOREM FreeListCorrect == Spec => []FreeListExact
<1>1. IInv => FreeListExact
  BY DEF IInv
<1>2. QED
  BY <1>1, Inductive, PTL

(* Neither operation reads or writes outside slab->free. *)
THEOREM IndexCorrect == Spec => []IndexInBounds
<1>1. IInv => (~panicked => Index \in Objects)
  BY ObjectsAssumption DEF IInv, RoomLeft, TypeOK, Index, Objects
<1>2. IInv /\ ~panicked => (live # {} => objects_per_slab - inuse \in Objects)
  BY LiveFinite, ObjectsAssumption DEF IInv, RoomLeft, TypeOK, Objects
<1>3. QED
  BY <1>1, <1>2, Inductive, PTL DEF IndexInBounds

-----------------------------------------------------------------------------
Links == Objects \cup {NULL}

(* The node at a place of a list, or NULL past its ends. *)
At(s, i) == IF i \in 1 .. Len(s) THEN s[i] ELSE NULL

Distinct(s) == \A i, j \in 1 .. Len(s) : s[i] = s[j] => i = j

(* The links of the nodes of a list. *)
Chained(s, nx, pv) ==
  \A i \in 1 .. Len(s) : nx[s[i]] = At(s, i + 1) /\ pv[s[i]] = At(s, i - 1)

Elements(s) == {s[i] : i \in 1 .. Len(s)}

s_vm == contents["vm"]

ListType ==
  /\ head \in [{"vm"} -> Links] /\ tail \in [{"vm"} -> Links]
  /\ length \in [{"vm"} -> Nat]
  /\ prev \in [Objects -> Links] /\ next \in [Objects -> Links]
  /\ contents \in [{"vm"} -> Seq(Objects)]

ListShape ==
  /\ head["vm"] = At(s_vm, 1) /\ tail["vm"] = At(s_vm, Len(s_vm))
  /\ length["vm"] = Len(s_vm)
  /\ Distinct(s_vm) /\ Chained(s_vm, next, prev)

NodesInv == IInv /\ ListType /\ ListShape /\ (~panicked => Elements(s_vm) = live)
-----------------------------------------------------------------------------
(* A sequence of nodes. *)
LEMMA SeqFacts ==
  ASSUME NEW s \in Seq(Objects)
  PROVE  /\ Len(s) \in Nat /\ DOMAIN s = 1 .. Len(s)
         /\ \A i \in 1 .. Len(s) : s[i] \in Objects
         /\ \A i : At(s, i) \in Links
<1>1. Len(s) \in Nat /\ DOMAIN s = 1 .. Len(s) /\ \A i \in 1 .. Len(s) : s[i] \in Objects
  OBVIOUS
<1>2. QED
  BY <1>1 DEF At, Links

(* t is s with o at place q: what list_append and the two insertions do to *)
(* the list they stand for.                                                *)
Inserted(s, q, o, t) ==
  /\ t \in Seq(Objects) /\ Len(t) = Len(s) + 1
  /\ \A k \in 1 .. q - 1 : t[k] = s[k]
  /\ t[q] = o
  /\ \A k \in q + 1 .. Len(s) + 1 : t[k] = s[k - 1]

(* The links as they become. *)
LinkedIn(s, q, o, nx, pv, nx2, pv2) ==
  \A n \in Objects :
    /\ nx2[n] = IF n = o THEN At(s, q) ELSE IF n = At(s, q - 1) THEN o ELSE nx[n]
    /\ pv2[n] = IF n = o THEN At(s, q - 1) ELSE IF n = At(s, q) THEN o ELSE pv[n]

(* Insertion of a node that is not on the list: its neighbours, if there   *)
(* are any, point to it and it points to them.                             *)
LEMMA InsertLinks ==
  ASSUME NEW s \in Seq(Objects), NEW q \in 1 .. Len(s) + 1, NEW o \in Objects \ Elements(s),
         NEW t, Inserted(s, q, o, t),
         NEW nx, NEW pv, Distinct(s), Chained(s, nx, pv),
         NEW nx2, NEW pv2,
         LinkedIn(s, q, o, nx, pv, nx2, pv2)
  PROVE  /\ Distinct(t) /\ Chained(t, nx2, pv2)
         /\ Elements(t) = Elements(s) \cup {o}
<1>1. /\ Len(s) \in Nat /\ Len(t) = Len(s) + 1 /\ q \in Nat
      /\ \A i \in 1 .. Len(s) : s[i] \in Objects /\ s[i] # o /\ s[i] # NULL
      /\ o # NULL
  BY SeqFacts, NullAssumption DEF Inserted, Elements
<1>2. /\ \A k \in 1 .. q - 1 : t[k] = s[k] /\ k \in 1 .. Len(s)
      /\ t[q] = o
      /\ \A k \in q + 1 .. Len(s) + 1 : t[k] = s[k - 1] /\ k - 1 \in 1 .. Len(s)
      /\ \A k \in 1 .. Len(t) : k \in 1 .. q - 1 \/ k = q \/ k \in q + 1 .. Len(s) + 1
  BY <1>1 DEF Inserted
<1>3. Distinct(t)
  <2> SUFFICES ASSUME NEW i \in 1 .. Len(t), NEW j \in 1 .. Len(t), t[i] = t[j]
               PROVE  i = j
    BY DEF Distinct
  <2>1. \A a, b \in 1 .. Len(s) : s[a] = s[b] => a = b
    BY DEF Distinct
  <2>2. CASE i \in 1 .. q - 1
    BY <1>1, <1>2, <2>1, <2>2
  <2>3. CASE i = q
    <3>1. \A k \in 1 .. Len(t) : k # q => t[k] # o
      BY <1>1, <1>2
    <3>2. QED
      BY <1>2, <2>3, <3>1
  <2>4. CASE i \in q + 1 .. Len(s) + 1
    BY <1>1, <1>2, <2>1, <2>4
  <2>5. QED
    BY <1>2, <2>2, <2>3, <2>4
<1>4. Elements(t) = Elements(s) \cup {o}
  <2>1. ASSUME NEW x \in Elements(t) PROVE x \in Elements(s) \cup {o}
    BY <1>2 DEF Elements
  <2>2. ASSUME NEW i \in 1 .. Len(s) PROVE s[i] \in Elements(t)
    <3>1. CASE i < q
      <4>1. i \in 1 .. q - 1 /\ i \in 1 .. Len(t)
        BY <1>1, <3>1
      <4>2. QED
        BY <1>2, <4>1 DEF Elements
    <3>2. CASE ~(i < q)
      <4>1. i + 1 \in q + 1 .. Len(s) + 1 /\ i + 1 \in 1 .. Len(t) /\ (i + 1) - 1 = i
        BY <1>1, <3>2
      <4>2. t[i + 1] = s[i]
        BY <1>2, <4>1
      <4>3. QED
        BY <4>1, <4>2 DEF Elements
    <3>3. QED
      BY <3>1, <3>2
  <2>3. o \in Elements(t)
    <3>1. q \in 1 .. Len(t)
      BY <1>1
    <3>2. QED
      BY <1>2, <3>1 DEF Elements
  <2>4. QED
    BY <2>1, <2>2, <2>3 DEF Elements
<1>5. \A i \in 1 .. Len(s) :
        /\ s[i] = At(s, q) <=> i = q
        /\ s[i] = At(s, q - 1) <=> i = q - 1
  BY <1>1 DEF At, Distinct
<1>6. \A i \in 1 .. Len(s) : nx[s[i]] = At(s, i + 1) /\ pv[s[i]] = At(s, i - 1)
  BY DEF Chained
<1>7. ASSUME NEW i \in 1 .. Len(s)
      PROVE  /\ nx2[s[i]] = IF i = q - 1 THEN o ELSE At(s, i + 1)
             /\ pv2[s[i]] = IF i = q THEN o ELSE At(s, i - 1)
  BY <1>1, <1>5, <1>6 DEF LinkedIn
<1>8. nx2[o] = At(s, q) /\ pv2[o] = At(s, q - 1)
  BY DEF LinkedIn
<1>9. ASSUME NEW k \in 1 .. Len(t)
      PROVE  nx2[t[k]] = At(t, k + 1) /\ pv2[t[k]] = At(t, k - 1)
  <2>1. CASE k \in 1 .. q - 1
    <3>1. k \in 1 .. Len(s) /\ t[k] = s[k] /\ k # q
      BY <1>1, <1>2, <2>1
    <3>2. nx2[t[k]] = At(t, k + 1)
      BY <1>1, <1>2, <1>7, <2>1, <3>1 DEF At
    <3>3. pv2[t[k]] = At(t, k - 1)
      BY <1>1, <1>2, <1>7, <2>1, <3>1 DEF At
    <3>4. QED
      BY <3>2, <3>3
  <2>2. CASE k = q
    <3>1. At(s, q) = At(t, q + 1)
      BY <1>1, <1>2 DEF At
    <3>2. At(s, q - 1) = At(t, q - 1)
      BY <1>1, <1>2 DEF At
    <3>3. QED
      BY <1>2, <1>8, <2>2, <3>1, <3>2
  <2>3. CASE k \in q + 1 .. Len(s) + 1
    <3>1. k - 1 \in 1 .. Len(s) /\ t[k] = s[k - 1] /\ k - 1 # q - 1
      BY <1>1, <1>2, <2>3
    <3>2. nx2[t[k]] = At(s, k)
      BY <1>1, <1>7, <3>1
    <3>3. pv2[t[k]] = IF k - 1 = q THEN o ELSE At(s, k - 2)
      BY <1>1, <1>7, <3>1
    <3>4. At(s, k) = At(t, k + 1)
      BY <1>1, <1>2, <2>3 DEF At
    <3>5. At(t, k - 1) = IF k - 1 = q THEN o ELSE At(s, k - 2)
      BY <1>1, <1>2, <2>3 DEF At
    <3>6. QED
      BY <3>2, <3>3, <3>4, <3>5
  <2>4. QED
    BY <1>2, <2>1, <2>2, <2>3
<1>10. QED
  BY <1>3, <1>4, <1>9 DEF Chained

(* t is s without its element at place q. *)
Removed(s, q, t) ==
  /\ t \in Seq(Objects) /\ Len(t) = Len(s) - 1
  /\ \A k \in 1 .. q - 1 : t[k] = s[k]
  /\ \A k \in q .. Len(s) - 1 : t[k] = s[k + 1]

Unlinked(s, q, nx, pv, nx2, pv2) ==
  \A n \in Objects :
    /\ nx2[n] = IF n = At(s, q - 1) THEN At(s, q + 1) ELSE nx[n]
    /\ pv2[n] = IF n = At(s, q + 1) THEN At(s, q - 1) ELSE pv[n]

(* The node at place q of a list is unlinked: its neighbours, if there are *)
(* any, point to each other; its own links stay.                           *)
LEMMA RemoveLinks ==
  ASSUME NEW s \in Seq(Objects), NEW q \in 1 .. Len(s), NEW t, Removed(s, q, t),
         NEW nx, NEW pv, Distinct(s), Chained(s, nx, pv),
         NEW nx2, NEW pv2,
         Unlinked(s, q, nx, pv, nx2, pv2)
  PROVE  /\ Distinct(t) /\ Chained(t, nx2, pv2)
         /\ Elements(t) = Elements(s) \ {s[q]}
<1>1. /\ Len(s) \in Nat /\ Len(t) = Len(s) - 1 /\ q \in Nat
      /\ \A i \in 1 .. Len(s) : s[i] \in Objects /\ s[i] # NULL
  BY SeqFacts, NullAssumption DEF Removed
<1>2. /\ \A k \in 1 .. q - 1 : t[k] = s[k] /\ k \in 1 .. Len(s)
      /\ \A k \in q .. Len(s) - 1 : t[k] = s[k + 1] /\ k + 1 \in 1 .. Len(s)
      /\ \A k \in 1 .. Len(t) : k \in 1 .. q - 1 \/ k \in q .. Len(s) - 1
  BY <1>1 DEF Removed
<1>3. \A a, b \in 1 .. Len(s) : s[a] = s[b] => a = b
  BY DEF Distinct
<1>4. Distinct(t)
  <2> SUFFICES ASSUME NEW i \in 1 .. Len(t), NEW j \in 1 .. Len(t), t[i] = t[j]
               PROVE  i = j
    BY DEF Distinct
  <2>1. CASE i \in 1 .. q - 1
    BY <1>1, <1>2, <1>3, <2>1
  <2>2. CASE i \in q .. Len(s) - 1
    BY <1>1, <1>2, <1>3, <2>2
  <2>3. QED
    BY <1>2, <2>1, <2>2
<1>5. Elements(t) = Elements(s) \ {s[q]}
  <2>1. ASSUME NEW k \in 1 .. Len(t) PROVE t[k] \in Elements(s) \ {s[q]}
    <3>1. CASE k \in 1 .. q - 1
      <4>1. k \in 1 .. Len(s) /\ k # q /\ t[k] = s[k]
        BY <1>1, <1>2, <3>1
      <4>2. QED
        BY <1>3, <4>1 DEF Elements
    <3>2. CASE k \in q .. Len(s) - 1
      <4>1. k + 1 \in 1 .. Len(s) /\ k + 1 # q /\ t[k] = s[k + 1]
        BY <1>1, <1>2, <3>2
      <4>2. QED
        BY <1>3, <4>1 DEF Elements
    <3>3. QED
      BY <1>2, <3>1, <3>2
  <2>2. ASSUME NEW i \in 1 .. Len(s), i # q PROVE s[i] \in Elements(t)
    <3>1. CASE i < q
      <4>1. i \in 1 .. q - 1 /\ i \in 1 .. Len(t)
        BY <1>1, <3>1
      <4>2. QED
        BY <1>2, <4>1 DEF Elements
    <3>2. CASE ~(i < q)
      <4>1. i - 1 \in q .. Len(s) - 1 /\ i - 1 \in 1 .. Len(t) /\ (i - 1) + 1 = i
        BY <1>1, <2>2, <3>2
      <4>2. t[i - 1] = s[i]
        BY <1>2, <4>1
      <4>3. QED
        BY <4>1, <4>2 DEF Elements
    <3>3. QED
      BY <3>1, <3>2
  <2>3. QED
    BY <2>1, <2>2 DEF Elements
<1>6. \A i \in 1 .. Len(s) :
        /\ s[i] = At(s, q + 1) <=> i = q + 1
        /\ s[i] = At(s, q - 1) <=> i = q - 1
  BY <1>1, <1>3 DEF At
<1>7. \A i \in 1 .. Len(s) : nx[s[i]] = At(s, i + 1) /\ pv[s[i]] = At(s, i - 1)
  BY DEF Chained
<1>8. ASSUME NEW i \in 1 .. Len(s)
      PROVE  /\ nx2[s[i]] = IF i = q - 1 THEN At(s, q + 1) ELSE At(s, i + 1)
             /\ pv2[s[i]] = IF i = q + 1 THEN At(s, q - 1) ELSE At(s, i - 1)
  BY <1>1, <1>6, <1>7 DEF Unlinked
<1>9. ASSUME NEW k \in 1 .. Len(t)
      PROVE  nx2[t[k]] = At(t, k + 1) /\ pv2[t[k]] = At(t, k - 1)
  <2>1. CASE k \in 1 .. q - 1
    <3>1. k \in 1 .. Len(s) /\ t[k] = s[k] /\ k # q + 1
      BY <1>1, <1>2, <2>1
    <3>2. /\ nx2[t[k]] = IF k = q - 1 THEN At(s, q + 1) ELSE At(s, k + 1)
          /\ pv2[t[k]] = At(s, k - 1)
      BY <1>8, <3>1
    <3>3. At(t, k + 1) = IF k = q - 1 THEN At(s, q + 1) ELSE At(s, k + 1)
      BY <1>1, <1>2, <2>1 DEF At
    <3>4. At(t, k - 1) = At(s, k - 1)
      BY <1>1, <1>2, <2>1 DEF At
    <3>5. QED
      BY <3>2, <3>3, <3>4
  <2>2. CASE k \in q .. Len(s) - 1
    <3>1. k + 1 \in 1 .. Len(s) /\ t[k] = s[k + 1] /\ k + 1 # q - 1 /\ k \in Int
      BY <1>1, <1>2, <2>2
    <3>2. /\ nx2[t[k]] = At(s, k + 2)
          /\ pv2[t[k]] = IF k = q THEN At(s, q - 1) ELSE At(s, k)
      BY <1>1, <1>8, <3>1
    <3>3. At(t, k + 1) = At(s, k + 2)
      BY <1>1, <1>2, <2>2 DEF At
    <3>4. At(t, k - 1) = IF k = q THEN At(s, q - 1) ELSE At(s, k)
      BY <1>1, <1>2, <2>2 DEF At
    <3>5. QED
      BY <3>2, <3>3, <3>4
  <2>3. QED
    BY <1>2, <2>1, <2>2
<1>10. QED
  BY <1>4, <1>5, <1>9 DEF Chained

(* Two sequences one behind the other. *)
LEMMA ConcatFacts ==
  ASSUME NEW a \in Seq(Objects), NEW b \in Seq(Objects)
  PROVE  /\ a \o b \in Seq(Objects) /\ Len(a \o b) = Len(a) + Len(b)
         /\ \A k \in 1 .. Len(a) : (a \o b)[k] = a[k]
         /\ \A k \in Len(a) + 1 .. Len(a) + Len(b) : (a \o b)[k] = b[k - Len(a)]
OBVIOUS

(* InsertAt, of the list the insertions of virtual.c stand for. *)
LEMMA InsertAtFacts ==
  ASSUME NEW s \in Seq(Objects), NEW q \in 1 .. Len(s) + 1, NEW o \in Objects
  PROVE  Inserted(s, q, o, L!InsertAt(s, q, o))
<1> DEFINE a == SubSeq(s, 1, q - 1)
           b == SubSeq(s, q, Len(s))
           c == a \o <<o>>
           t == c \o b
<1>1. Len(s) \in Nat /\ q \in Nat
  OBVIOUS
<1>2. a \in Seq(Objects) /\ Len(a) = q - 1 /\ \A k \in 1 .. q - 1 : a[k] = s[k]
  BY <1>1
<1>3. b \in Seq(Objects) /\ Len(b) = Len(s) - q + 1 /\ \A k \in 1 .. Len(s) - q + 1 : b[k] = s[k + q - 1]
  BY <1>1
<1>4. c \in Seq(Objects) /\ Len(c) = q /\ c[q] = o /\ \A k \in 1 .. q - 1 : c[k] = a[k]
  <2>1. <<o>> \in Seq(Objects) /\ Len(<<o>>) = 1 /\ <<o>>[1] = o
    OBVIOUS
  <2> HIDE DEF a
  <2>2. QED
    BY <1>1, <1>2, <2>1, ConcatFacts
<1> HIDE DEF a, b, c
<1>5. /\ t \in Seq(Objects) /\ Len(t) = Len(s) + 1
      /\ \A k \in 1 .. q : t[k] = c[k]
      /\ \A k \in q + 1 .. Len(s) + 1 : t[k] = b[k - q]
  <2>1. Len(c) + Len(b) = Len(s) + 1
    BY <1>1, <1>3, <1>4
  <2>2. QED
    BY <1>3, <1>4, <2>1, ConcatFacts
<1>6. \A k \in q + 1 .. Len(s) + 1 : k - q \in 1 .. Len(s) - q + 1 /\ (k - q) + q - 1 = k - 1
  BY <1>1
<1>7. \A k \in q + 1 .. Len(s) + 1 : t[k] = s[k - 1]
  BY <1>3, <1>5, <1>6
<1>8. t = L!InsertAt(s, q, o)
  BY DEF a, b, c, L!InsertAt
<1> HIDE DEF t
<1>9. \A k \in 1 .. q - 1 : t[k] = s[k]
  BY <1>1, <1>2, <1>4, <1>5
<1>10. QED
  BY <1>1, <1>4, <1>5, <1>7, <1>8, <1>9 DEF Inserted

(* Append, of the list list_append stands for. *)
LEMMA AppendFacts ==
  ASSUME NEW s \in Seq(Objects), NEW o \in Objects
  PROVE  Inserted(s, Len(s) + 1, o, Append(s, o))
<1>1. /\ Append(s, o) \in Seq(Objects) /\ Len(Append(s, o)) = Len(s) + 1 /\ Len(s) \in Nat
      /\ Append(s, o)[Len(s) + 1] = o
      /\ \A k \in 1 .. Len(s) : Append(s, o)[k] = s[k]
  OBVIOUS
<1>2. QED
  BY <1>1 DEF Inserted

(* RemoveAt, of the list mm_virtual_remove stands for. *)
LEMMA RemoveAtFacts ==
  ASSUME NEW s \in Seq(Objects), NEW q \in 1 .. Len(s)
  PROVE  Removed(s, q, L!RemoveAt(s, q))
<1> DEFINE a == SubSeq(s, 1, q - 1)
           b == SubSeq(s, q + 1, Len(s))
           t == a \o b
<1>1. Len(s) \in Nat /\ q \in Nat
  OBVIOUS
<1>2. a \in Seq(Objects) /\ Len(a) = q - 1 /\ \A k \in 1 .. q - 1 : a[k] = s[k]
  BY <1>1
<1>3. b \in Seq(Objects) /\ Len(b) = Len(s) - q /\ \A k \in 1 .. Len(s) - q : b[k] = s[k + q]
  BY <1>1
<1> HIDE DEF a, b
<1>4. /\ t \in Seq(Objects) /\ Len(t) = Len(s) - 1
      /\ \A k \in 1 .. q - 1 : t[k] = a[k]
      /\ \A k \in q .. Len(s) - 1 : t[k] = b[k - (q - 1)]
  <2>1. Len(a) + Len(b) = Len(s) - 1 /\ Len(a) + 1 = q
    BY <1>1, <1>2, <1>3
  <2>2. /\ t \in Seq(Objects) /\ Len(t) = Len(a) + Len(b)
        /\ \A k \in 1 .. Len(a) : t[k] = a[k]
        /\ \A k \in Len(a) + 1 .. Len(a) + Len(b) : t[k] = b[k - Len(a)]
    BY <1>2, <1>3, ConcatFacts
  <2>3. QED
    BY <1>2, <2>1, <2>2
<1>5. \A k \in q .. Len(s) - 1 : k - (q - 1) \in 1 .. Len(s) - q /\ (k - (q - 1)) + q = k + 1
  BY <1>1
<1>6. \A k \in q .. Len(s) - 1 : t[k] = s[k + 1]
  BY <1>3, <1>4, <1>5
<1>7. t = L!RemoveAt(s, q)
  BY DEF a, b, L!RemoveAt
<1> HIDE DEF t
<1>8. QED
  BY <1>2, <1>4, <1>6, <1>7 DEF Removed

(* mm_slab_alloc returns an object that is not live, or panics. *)
LEMMA TopFree ==
  ASSUME IInv, ~panicked, Alloc, ~panicked'
  PROVE  Top \in Objects \ live /\ live' = live \cup {Top}
<1>1. Index \in FreeSlots
  BY ObjectsAssumption DEF IInv, TypeOK, RoomLeft, Index, FreeSlots, Objects
<1>2. {free[i] : i \in FreeSlots} = Objects \ live
  BY DEF IInv, FreeListExact
<1>3. QED
  BY <1>1, <1>2 DEF Top, Alloc

(* The list in a state of the invariant. *)
LEMMA ListFacts ==
  ASSUME NodesInv
  PROVE  /\ s_vm \in Seq(Objects) /\ Len(s_vm) \in Nat /\ L!Linked = Elements(s_vm)
         /\ head["vm"] = At(s_vm, 1) /\ tail["vm"] = At(s_vm, Len(s_vm))
         /\ \A i \in 1 .. Len(s_vm) :
              /\ s_vm[i] \in Objects /\ s_vm[i] # NULL
              /\ next[s_vm[i]] = At(s_vm, i + 1) /\ prev[s_vm[i]] = At(s_vm, i - 1)
<1>1. s_vm \in Seq(Objects)
  BY DEF NodesInv, ListType, s_vm
<1>2. Len(s_vm) \in Nat /\ DOMAIN s_vm = 1 .. Len(s_vm)
  BY <1>1, SeqFacts
<1>3. L!ToSet(contents["vm"]) = Elements(s_vm)
  BY <1>2 DEF L!ToSet, Elements, s_vm
<1>4. L!Linked = L!ToSet(contents["vm"])
  BY DEF L!Linked
<1>5. \A i \in 1 .. Len(s_vm) : s_vm[i] \in Objects /\ s_vm[i] # NULL
  BY <1>1, SeqFacts, NullAssumption
<1>6. QED
  BY <1>1, <1>2, <1>3, <1>4, <1>5 DEF NodesInv, ListShape, Chained

(* The place of a node on the list. *)
LEMMA PositionFacts ==
  ASSUME NodesInv, NEW n \in L!Linked
  PROVE  L!Position("vm", n) \in 1 .. Len(s_vm) /\ s_vm[L!Position("vm", n)] = n
<1>1. \E i \in 1 .. Len(s_vm) : s_vm[i] = n
  BY ListFacts DEF Elements
<1>2. DOMAIN contents["vm"] = 1 .. Len(s_vm)
  BY ListFacts, SeqFacts DEF s_vm
<1>3. QED
  BY <1>1, <1>2 DEF L!Position, s_vm

(* A new object is linked in at place q. *)
LEMMA InsertInv ==
  ASSUME NodesInv, ~panicked, Alloc, ~panicked',
         NEW q \in 1 .. Len(s_vm) + 1, NEW t, Inserted(s_vm, q, Top, t),
         contents' = [contents EXCEPT !["vm"] = t],
         next' = [n \in Objects |-> IF n = Top THEN At(s_vm, q)
                                    ELSE IF n = At(s_vm, q - 1) THEN Top ELSE next[n]],
         prev' = [n \in Objects |-> IF n = Top THEN At(s_vm, q - 1)
                                    ELSE IF n = At(s_vm, q) THEN Top ELSE prev[n]],
         head' = IF q = 1 THEN [head EXCEPT !["vm"] = Top] ELSE head,
         tail' = IF q = Len(s_vm) + 1 THEN [tail EXCEPT !["vm"] = Top] ELSE tail,
         length' = [length EXCEPT !["vm"] = @ + 1]
  PROVE  NodesInv'
<1>1. IInv'
  BY AllocIInv DEF NodesInv
<1>2. /\ Top \in Objects \ Elements(s_vm)
      /\ Elements(s_vm) = live /\ live' = live \cup {Top}
  BY TopFree DEF NodesInv
<1>3. /\ s_vm \in Seq(Objects) /\ Distinct(s_vm) /\ Chained(s_vm, next, prev)
      /\ Len(s_vm) \in Nat
  BY ListFacts DEF NodesInv, ListShape
<1>4. s_vm' = t /\ t \in Seq(Objects) /\ Len(t) = Len(s_vm) + 1
  BY DEF NodesInv, ListType, s_vm, Inserted
<1>5. Distinct(t) /\ Chained(t, next', prev') /\ Elements(t) = Elements(s_vm) \cup {Top}
  <2>1. LinkedIn(s_vm, q, Top, next, prev, next', prev')
    BY DEF LinkedIn
  <2>2. QED
    BY <1>2, <1>3, <2>1, InsertLinks
<1>6. head'["vm"] = At(t, 1) /\ tail'["vm"] = At(t, Len(t))
  <2>1. head["vm"] = At(s_vm, 1) /\ tail["vm"] = At(s_vm, Len(s_vm))
    BY ListFacts
  <2>2. \A k \in 1 .. q - 1 : t[k] = s_vm[k]
    BY DEF Inserted
  <2>3. t[q] = Top /\ \A k \in q + 1 .. Len(s_vm) + 1 : t[k] = s_vm[k - 1]
    BY DEF Inserted
  <2>4. head'["vm"] = IF q = 1 THEN Top ELSE head["vm"]
    BY DEF NodesInv, ListType
  <2>5. tail'["vm"] = IF q = Len(s_vm) + 1 THEN Top ELSE tail["vm"]
    BY DEF NodesInv, ListType
  <2>6. head'["vm"] = At(t, 1)
    BY <1>3, <1>4, <2>1, <2>2, <2>3, <2>4 DEF At
  <2>7. tail'["vm"] = At(t, Len(t))
    BY <1>3, <1>4, <2>1, <2>2, <2>3, <2>5 DEF At
  <2>8. QED
    BY <2>6, <2>7
<1>7. length'["vm"] = Len(t) /\ length' \in [{"vm"} -> Nat]
  BY <1>3, <1>4 DEF NodesInv, ListType, ListShape
<1>8. ListType'
  <2>1. \A k : At(s_vm, k) \in Links
    BY <1>3, SeqFacts
  <2>2. next' \in [Objects -> Links]
    BY <1>2, <2>1 DEF NodesInv, ListType, Links
  <2>3. prev' \in [Objects -> Links]
    BY <1>2, <2>1 DEF NodesInv, ListType, Links
  <2>4. head' \in [{"vm"} -> Links] /\ tail' \in [{"vm"} -> Links]
    BY <1>2 DEF NodesInv, ListType, Links
  <2>5. contents' \in [{"vm"} -> Seq(Objects)]
    BY <1>4 DEF NodesInv, ListType
  <2>6. QED
    BY <1>7, <2>2, <2>3, <2>4, <2>5 DEF ListType, Links, Objects
<1>9. ListShape'
  BY <1>4, <1>5, <1>6, <1>7 DEF ListShape, Distinct, Chained, At
<1>10. Elements(s_vm)' = live'
  BY <1>2, <1>4, <1>5 DEF Elements
<1>11. QED
  BY <1>1, <1>8, <1>9, <1>10 DEF NodesInv

(* The first node of the list. *)
LEMMA FirstNodeInv ==
  ASSUME NodesInv, ~panicked, head["vm"] = NULL, FirstNode, ~panicked'
  PROVE  NodesInv'
<1> DEFINE q == Len(s_vm) + 1
<1>1. Alloc /\ L!ListAppend("vm", Top)
  BY DEF FirstNode
<1>2. Top \in Objects
  BY <1>1, TopFree DEF NodesInv
<1>3. /\ s_vm \in Seq(Objects) /\ Len(s_vm) \in Nat
      /\ head["vm"] = At(s_vm, 1) /\ tail["vm"] = At(s_vm, Len(s_vm))
      /\ \A i \in 1 .. Len(s_vm) : s_vm[i] # NULL
  BY ListFacts
<1>4. Len(s_vm) = 0
  BY <1>3 DEF At
<1>5. q = 1 /\ q \in 1 .. Len(s_vm) + 1 /\ At(s_vm, q) = NULL /\ At(s_vm, q - 1) = tail["vm"]
  BY <1>3, <1>4 DEF At
<1>6. Inserted(s_vm, q, Top, Append(s_vm, Top))
  BY <1>2, <1>3, AppendFacts
<1>7. contents' = [contents EXCEPT !["vm"] = Append(s_vm, Top)]
  BY <1>1 DEF L!ListAppend, s_vm
<1>8. /\ head' = [head EXCEPT !["vm"] = Top] /\ tail' = [tail EXCEPT !["vm"] = Top]
      /\ length' = [length EXCEPT !["vm"] = @ + 1]
  BY <1>1 DEF L!ListAppend
<1>9. next' = [n \in Objects |-> IF n = Top THEN At(s_vm, q)
                                 ELSE IF n = At(s_vm, q - 1) THEN Top ELSE next[n]]
  BY <1>1, <1>5 DEF L!ListAppend
<1>10. prev' = [n \in Objects |-> IF n = Top THEN At(s_vm, q - 1)
                                  ELSE IF n = At(s_vm, q) THEN Top ELSE prev[n]]
  <2>1. prev' = [prev EXCEPT ![Top] = tail["vm"]] /\ prev \in [Objects -> Links]
    BY <1>1 DEF L!ListAppend, NodesInv, ListType
  <2>2. \A n \in Objects : n # NULL
    BY NullAssumption
  <2>3. QED
    BY <1>5, <2>1, <2>2
<1> HIDE DEF q
<1>11. QED
  BY <1>1, <1>5, <1>6, <1>7, <1>8, <1>9, <1>10, InsertInv DEF q

(* mm_virtual_insert_after *)
LEMMA SplitAfterInv ==
  ASSUME NodesInv, ~panicked, NEW after \in L!Linked, SplitAfter(after), ~panicked'
  PROVE  NodesInv'
<1> DEFINE p == L!Position("vm", after)
           q == p + 1
<1>1. Alloc /\ L!ListInsertAfter("vm", after, Top)
  BY DEF SplitAfter
<1>2. p \in 1 .. Len(s_vm) /\ s_vm[p] = after
  BY PositionFacts
<1>3. contents' = [contents EXCEPT !["vm"] = L!InsertAt(s_vm, q, Top)]
  BY <1>1 DEF L!ListInsertAfter, s_vm
<1> HIDE DEF p
<1>4. Top \in Objects \ Elements(s_vm)
  BY <1>1, TopFree DEF NodesInv
<1>5. /\ s_vm \in Seq(Objects) /\ Len(s_vm) \in Nat
      /\ \A i \in 1 .. Len(s_vm) : s_vm[i] \in Objects /\ s_vm[i] # NULL
      /\ next[after] = At(s_vm, q)
  BY <1>2, ListFacts
<1>6. /\ q \in 1 .. Len(s_vm) + 1 /\ q # 1 /\ At(s_vm, q - 1) = after
      /\ next[after] = NULL <=> q = Len(s_vm) + 1
  BY <1>2, <1>5 DEF At
<1>7. Inserted(s_vm, q, Top, L!InsertAt(s_vm, q, Top))
  BY <1>4, <1>5, <1>6, InsertAtFacts
<1>8. /\ head' = head
      /\ tail' = IF q = Len(s_vm) + 1 THEN [tail EXCEPT !["vm"] = Top] ELSE tail
      /\ length' = [length EXCEPT !["vm"] = @ + 1]
  BY <1>1, <1>6 DEF L!ListInsertAfter
<1>9. next' = [n \in Objects |-> IF n = Top THEN At(s_vm, q)
                                 ELSE IF n = At(s_vm, q - 1) THEN Top ELSE next[n]]
  <2>1. /\ next' = [next EXCEPT ![Top] = next[after], ![after] = Top]
        /\ next \in [Objects -> Links] /\ after # Top /\ after \in Objects
    BY <1>1, <1>2, <1>4, <1>5 DEF L!ListInsertAfter, NodesInv, ListType, Elements
  <2>2. QED
    BY <1>5, <1>6, <2>1
<1>10. prev' = [n \in Objects |-> IF n = Top THEN At(s_vm, q - 1)
                                  ELSE IF n = At(s_vm, q) THEN Top ELSE prev[n]]
  BY <1>1, <1>5, <1>6 DEF L!ListInsertAfter
<1> HIDE DEF q
<1>11. QED
  BY <1>1, <1>3, <1>6, <1>7, <1>8, <1>9, <1>10, InsertInv

(* mm_virtual_insert_before *)
LEMMA SplitBeforeInv ==
  ASSUME NodesInv, ~panicked, NEW before \in L!Linked, SplitBefore(before), ~panicked'
  PROVE  NodesInv'
<1> DEFINE q == L!Position("vm", before)
<1>1. Alloc /\ L!ListInsertBefore("vm", before, Top)
  BY DEF SplitBefore
<1>2. q \in 1 .. Len(s_vm) /\ s_vm[q] = before
  BY PositionFacts
<1>3. contents' = [contents EXCEPT !["vm"] = L!InsertAt(s_vm, q, Top)]
  BY <1>1 DEF L!ListInsertBefore, s_vm
<1> HIDE DEF q
<1>4. Top \in Objects \ Elements(s_vm)
  BY <1>1, TopFree DEF NodesInv
<1>5. /\ s_vm \in Seq(Objects) /\ Len(s_vm) \in Nat
      /\ \A i \in 1 .. Len(s_vm) : s_vm[i] \in Objects /\ s_vm[i] # NULL
      /\ prev[before] = At(s_vm, q - 1)
  BY <1>2, ListFacts
<1>6. /\ q \in 1 .. Len(s_vm) + 1 /\ q # Len(s_vm) + 1 /\ At(s_vm, q) = before
      /\ prev[before] = NULL <=> q = 1
  BY <1>2, <1>5 DEF At
<1>7. Inserted(s_vm, q, Top, L!InsertAt(s_vm, q, Top))
  BY <1>4, <1>5, <1>6, InsertAtFacts
<1>8. /\ head' = IF q = 1 THEN [head EXCEPT !["vm"] = Top] ELSE head
      /\ tail' = tail
      /\ length' = [length EXCEPT !["vm"] = @ + 1]
  BY <1>1, <1>6 DEF L!ListInsertBefore
<1>9. next' = [n \in Objects |-> IF n = Top THEN At(s_vm, q)
                                 ELSE IF n = At(s_vm, q - 1) THEN Top ELSE next[n]]
  BY <1>1, <1>5, <1>6 DEF L!ListInsertBefore
<1>10. prev' = [n \in Objects |-> IF n = Top THEN At(s_vm, q - 1)
                                  ELSE IF n = At(s_vm, q) THEN Top ELSE prev[n]]
  <2>1. /\ prev' = [prev EXCEPT ![Top] = prev[before], ![before] = Top]
        /\ prev \in [Objects -> Links] /\ before # Top /\ before \in Objects
    BY <1>1, <1>2, <1>4, <1>5 DEF L!ListInsertBefore, NodesInv, ListType, Elements
  <2>2. QED
    BY <1>5, <1>6, <2>1
<1>11. QED
  BY <1>1, <1>3, <1>6, <1>7, <1>8, <1>9, <1>10, InsertInv

(* mm_virtual_remove, and mm_slab_free of the node. *)
LEMMA MergeInv ==
  ASSUME NodesInv, ~panicked, NEW node \in L!Linked, Merge(node)
  PROVE  NodesInv'
<1> DEFINE q == L!Position("vm", node)
           t == L!RemoveAt(s_vm, q)
<1>1. L!ListRemove("vm", node) /\ Free(node)
  BY DEF Merge
<1>2. q \in 1 .. Len(s_vm) /\ s_vm[q] = node
  BY PositionFacts
<1>3. contents' = [contents EXCEPT !["vm"] = t]
  BY <1>1 DEF L!ListRemove, s_vm
<1> HIDE DEF q
<1>4. /\ s_vm \in Seq(Objects) /\ Len(s_vm) \in Nat /\ Elements(s_vm) = live
      /\ head["vm"] = At(s_vm, 1) /\ tail["vm"] = At(s_vm, Len(s_vm))
      /\ \A i \in 1 .. Len(s_vm) : s_vm[i] \in Objects /\ s_vm[i] # NULL
      /\ next[node] = At(s_vm, q + 1) /\ prev[node] = At(s_vm, q - 1)
  BY <1>2, ListFacts DEF NodesInv
<1>5. Removed(s_vm, q, t)
  BY <1>2, <1>4, RemoveAtFacts
<1> HIDE DEF t
<1>6. IInv' /\ panicked' = panicked /\ live' = live \ {node}
  <2>1. node \in Objects
    BY <1>2, <1>4
  <2>2. IInv'
    BY <1>1, <2>1, FreeIInv DEF NodesInv
  <2>3. QED
    BY <1>1, <2>2 DEF Free
<1>7. s_vm' = t /\ t \in Seq(Objects) /\ Len(t) = Len(s_vm) - 1
  BY <1>3, <1>5 DEF NodesInv, ListType, s_vm, Removed
<1>8. /\ next' = [n \in Objects |-> IF n = At(s_vm, q - 1) THEN At(s_vm, q + 1) ELSE next[n]]
      /\ prev' = [n \in Objects |-> IF n = At(s_vm, q + 1) THEN At(s_vm, q - 1) ELSE prev[n]]
  BY <1>1, <1>4 DEF L!ListRemove
<1>9. Distinct(t) /\ Chained(t, next', prev') /\ Elements(t) = Elements(s_vm) \ {node}
  <2>1. Unlinked(s_vm, q, next, prev, next', prev')
    BY <1>8 DEF Unlinked
  <2>2. Distinct(s_vm) /\ Chained(s_vm, next, prev)
    BY DEF NodesInv, ListShape
  <2>3. Elements(t) = Elements(s_vm) \ {s_vm[q]} /\ Distinct(t) /\ Chained(t, next', prev')
    BY <1>2, <1>4, <1>5, <2>1, <2>2, RemoveLinks
  <2>4. QED
    BY <1>2, <2>3
<1>10. head'["vm"] = At(t, 1) /\ tail'["vm"] = At(t, Len(t))
  <2>1. prev[node] = NULL <=> q = 1
    BY <1>2, <1>4 DEF At
  <2>2. next[node] = NULL <=> q = Len(s_vm)
    BY <1>2, <1>4 DEF At
  <2>3. /\ \A k \in 1 .. q - 1 : t[k] = s_vm[k]
        /\ \A k \in q .. Len(s_vm) - 1 : t[k] = s_vm[k + 1]
    BY <1>5 DEF Removed
  <2>4. head'["vm"] = IF q = 1 THEN At(s_vm, q + 1) ELSE At(s_vm, 1)
    BY <1>1, <1>4, <2>1 DEF L!ListRemove, NodesInv, ListType
  <2>5. tail'["vm"] = IF q = Len(s_vm) THEN At(s_vm, q - 1) ELSE At(s_vm, Len(s_vm))
    BY <1>1, <1>4, <2>2 DEF L!ListRemove, NodesInv, ListType
  <2>6. head'["vm"] = At(t, 1)
    BY <1>2, <1>4, <1>7, <2>3, <2>4 DEF At
  <2>7. tail'["vm"] = At(t, Len(t))
    BY <1>2, <1>4, <1>7, <2>3, <2>5 DEF At
  <2>8. QED
    BY <2>6, <2>7
<1>11. length'["vm"] = Len(t) /\ length' \in [{"vm"} -> Nat]
  <2>1. length' = [length EXCEPT !["vm"] = @ - 1]
    BY <1>1 DEF L!ListRemove
  <2>2. QED
    BY <1>2, <1>4, <1>7, <2>1 DEF NodesInv, ListType, ListShape
<1>12. ListType'
  <2>1. \A k : At(s_vm, k) \in Links
    BY <1>4, SeqFacts
  <2>2. next' \in [Objects -> Links]
    BY <1>8, <2>1 DEF NodesInv, ListType
  <2>3. prev' \in [Objects -> Links]
    BY <1>8, <2>1 DEF NodesInv, ListType
  <2>4. head' \in [{"vm"} -> Links] /\ tail' \in [{"vm"} -> Links]
    BY <1>1, <1>4, <2>1 DEF L!ListRemove, NodesInv, ListType
  <2>5. contents' \in [{"vm"} -> Seq(Objects)]
    BY <1>3, <1>7 DEF NodesInv, ListType
  <2>6. QED
    BY <1>11, <2>2, <2>3, <2>4, <2>5 DEF ListType, Links, Objects
<1>13. ListShape'
  BY <1>7, <1>9, <1>10, <1>11 DEF ListShape, Distinct, Chained, At
<1>14. Elements(s_vm)' = live'
  BY <1>4, <1>6, <1>7, <1>9 DEF Elements
<1>15. QED
  BY <1>6, <1>12, <1>13, <1>14 DEF NodesInv

(* A call of mm_slab_alloc that panics leaves the list alone. *)
LEMMA PanicInv ==
  ASSUME NodesInv, ~panicked, Alloc, panicked', UNCHANGED links
  PROVE  NodesInv'
<1>1. IInv'
  BY AllocIInv DEF NodesInv
<1>2. ListType' /\ ListShape'
  BY DEF links, NodesInv, ListType, ListShape, Distinct, Chained, At, s_vm, Links, Objects
<1>3. QED
  BY <1>1, <1>2 DEF NodesInv

(* An empty list, and a slab with every object free. *)
LEMMA InitNodes == NodesInit => NodesInv
<1> SUFFICES ASSUME NodesInit PROVE NodesInv
  OBVIOUS
<1>1. IInv /\ live = {}
  BY InitIInv DEF NodesInit, Init
<1>2. /\ head = [l \in {"vm"} |-> NULL] /\ tail = [l \in {"vm"} |-> NULL]
      /\ length = [l \in {"vm"} |-> 0] /\ contents = [l \in {"vm"} |-> <<>>]
      /\ prev = [n \in Objects |-> NULL] /\ next = [n \in Objects |-> NULL]
  BY DEF NodesInit, L!Init
<1>3. ListType
  BY <1>2 DEF ListType, Links
<1>4. s_vm = <<>> /\ Len(s_vm) = 0 /\ 1 .. Len(s_vm) = {}
  BY <1>2 DEF s_vm
<1>5. ListShape
  BY <1>2, <1>4 DEF ListShape, Distinct, Chained, At
<1>6. Elements(s_vm) = {}
  BY <1>4 DEF Elements
<1>7. QED
  BY <1>1, <1>3, <1>5, <1>6 DEF NodesInv

(* Every operation on the list keeps the invariant. *)
LEMMA NextNodes == NodesInv /\ [NodesNext]_nodes => NodesInv'
<1> SUFFICES ASSUME NodesInv, [NodesNext]_nodes PROVE NodesInv'
  OBVIOUS
<1>1. CASE ~panicked /\ head["vm"] = NULL /\ FirstNode
  <2>1. CASE panicked'
    BY <1>1, <2>1, PanicInv DEF FirstNode
  <2>2. CASE ~panicked'
    BY <1>1, <2>2, FirstNodeInv
  <2>3. QED
    BY <2>1, <2>2
<1>2. ASSUME ~panicked, NEW n \in L!Linked, SplitAfter(n) PROVE NodesInv'
  <2>1. CASE panicked'
    BY <1>2, <2>1, PanicInv DEF SplitAfter
  <2>2. CASE ~panicked'
    BY <1>2, <2>2, SplitAfterInv
  <2>3. QED
    BY <2>1, <2>2
<1>3. ASSUME ~panicked, NEW n \in L!Linked, SplitBefore(n) PROVE NodesInv'
  <2>1. CASE panicked'
    BY <1>3, <2>1, PanicInv DEF SplitBefore
  <2>2. CASE ~panicked'
    BY <1>3, <2>2, SplitBeforeInv
  <2>3. QED
    BY <2>1, <2>2
<1>4. ASSUME ~panicked, NEW n \in L!Linked, Merge(n) PROVE NodesInv'
  BY <1>4, MergeInv
<1>5. CASE UNCHANGED nodes
  <2>1. UNCHANGED <<free, inuse, list, live, panicked>> /\ UNCHANGED links
    BY <1>5 DEF nodes, slab
  <2>2. IInv'
    BY <2>1 DEF NodesInv, IInv, TypeOK, FreeListExact, InuseCounts, RoomLeft, FreeSlots
  <2>3. ListType' /\ ListShape' /\ (~panicked => Elements(s_vm) = live)'
    BY <2>1 DEF links, NodesInv, ListType, ListShape, Distinct, Chained, At, s_vm, Links,
                Objects, Elements
  <2>4. QED
    BY <2>2, <2>3 DEF NodesInv
<1>6. QED
  BY <1>1, <1>2, <1>3, <1>4, <1>5 DEF NodesNext

(* The inductive invariant of the nodes. *)
THEOREM NodesCorrect == NodesSpec => []NodesInv
<1>1. QED
  BY InitNodes, NextNodes, PTL DEF NodesSpec

(* Whatever stale links the object that mm_slab_alloc returns holds, the   *)
(* pointers make up the list the operations stand for, in both directions. *)
THEOREM NodesWellFormedCorrect == NodesSpec => []NodesWellFormed
<1>1. NodesInv => NodesWellFormed
  <2> SUFFICES ASSUME NodesInv PROVE L!Represents("vm")
    BY DEF NodesWellFormed, L!ListsWellFormed
  <2>1. DOMAIN contents["vm"] = 1 .. Len(contents["vm"])
    BY ListFacts, SeqFacts DEF s_vm
  <2>2. QED
    BY <2>1 DEF NodesInv, ListShape, Chained, At, s_vm, L!Represents
<1>2. QED
  BY <1>1, NodesCorrect, PTL

(* The slab never hands out a node that is on the list, and a node that    *)
(* has left the list is free again.                                        *)
THEOREM LinkedCorrect == NodesSpec => []LinkedAreLive
<1>1. NodesInv => LinkedAreLive
  BY ListFacts DEF NodesInv, LinkedAreLive
<1>2. QED
  BY <1>1, NodesCorrect, PTL

(* The functions of virtual.c use the slab as mm_slab_alloc and            *)
(* mm_slab_free are meant to be used: what is proved about Slab's          *)
(* specification holds of it here.                                         *)
THEOREM NodesImplementSlab == NodesSpec => Spec
<1>1. NodesInit => Init
  BY DEF NodesInit
<1>2. NodesInv /\ [NodesNext]_nodes => [Next]_vars
  <2> SUFFICES ASSUME NodesInv, [NodesNext]_nodes PROVE [Next]_vars
    OBVIOUS
  <2>1. CASE ~panicked /\ FirstNode
    BY <2>1 DEF FirstNode, Next
  <2>2. ASSUME ~panicked, NEW n \in L!Linked, SplitAfter(n) \/ SplitBefore(n) PROVE Next
    BY <2>2 DEF SplitAfter, SplitBefore, Next
  <2>3. ASSUME ~panicked, NEW n \in L!Linked, Merge(n) PROVE Next
    <3>1. n \in Objects
      BY ListFacts DEF Elements
    <3>2. QED
      BY <2>3, <3>1 DEF Merge, Next
  <2>4. CASE UNCHANGED nodes
    BY <2>4 DEF nodes, slab, vars
  <2>5. QED
    BY <2>1, <2>2, <2>3, <2>4 DEF NodesNext
<1>3. QED
  BY <1>1, <1>2, NodesCorrect, PTL DEF NodesSpec, Spec

(* mm_slab_alloc never returns a node in use to its user. *)
THEOREM NodesKeepFreeList == NodesSpec => []FreeListExact
<1>1. QED
  BY NodesImplementSlab, FreeListCorrect, PTL
=============================================================================
