------------------------------ MODULE TreeBins ------------------------------
(***************************************************************************)
(* The tree bins of dlmalloc.c: insert_large_chunk, unlink_large_chunk and *)
(* the searches of tmalloc_large and tmalloc_small.                        *)
(*                                                                         *)
(* A bin is a bitwise trie over the sizes it may hold; chunks of equal     *)
(* size hang on a ring at the one that is in the trie.  Sizes count units  *)
(* of the alignment (16 bytes), size_t has SIZE_T_BITSIZE bits and the     *)
(* number of bins and the size of the smallest are scaled down.            *)
(***************************************************************************)
EXTENDS Integers, Sequences, FiniteSets, FiniteSetsExt

CONSTANTS
  Chunk, Size, Wanted, NULL,   \* as in FreeBins
  NTREEBINS,
  TREEBIN_SHIFT,
  SIZE_T_BITSIZE,
  UINT_BITSIZE                 \* width of unsigned int

MIN_LARGE_SIZE == 2 ^ TREEBIN_SHIFT
MAX_INDEXED == 2 ^ (NTREEBINS \div 2) - 1   \* 0xFFFF

ASSUME TreeBinsAssumption ==
  /\ NTREEBINS % 2 = 0 /\ TREEBIN_SHIFT >= 2
  /\ \A s \in Size : MIN_LARGE_SIZE <= s /\ s < 2 ^ (TREEBIN_SHIFT + UINT_BITSIZE)
  /\ \A s \in Size \cup Wanted : s \in 1 .. 2 ^ SIZE_T_BITSIZE - 1

VARIABLES
  node,      \* the free chunks: struct malloc_tree_chunk
  treebins,  \* root of each bin
  treemap,   \* bins that are marked as not empty
  taken      \* the last request and what it got, as in FreeBins

vars == <<node, treebins, treemap, taken>>

Nothing == [wanted |-> 0, got |-> NULL]

Init ==
  /\ node = <<>>
  /\ treebins = [i \in 0 .. NTREEBINS - 1 |-> NULL]
  /\ treemap = {}
  /\ taken = Nothing

size_t(n) == n % 2 ^ SIZE_T_BITSIZE
ShiftLeft(n, k) == size_t(n * 2 ^ k)
Bit(n, k) == (n \div 2 ^ k) % 2
SignBit(n) == Bit(n, SIZE_T_BITSIZE - 1)

HighestBit(x) == Max({k \in 0 .. UINT_BITSIZE - 1 : Bit(x, k) = 1})

(* X is an unsigned int: the upper bits of a huge size are lost. *)
compute_tree_index(s) ==
  LET x == (s \div 2 ^ TREEBIN_SHIFT) % 2 ^ UINT_BITSIZE
      k == HighestBit(x)
  IN IF x = 0 THEN 0
     ELSE IF x > MAX_INDEXED THEN NTREEBINS - 1
     ELSE 2 * k + Bit(s, k + TREEBIN_SHIFT - 1)

leftshift_for_tree_index(i) ==
  IF i = NTREEBINS - 1 THEN 0
  ELSE SIZE_T_BITSIZE - 1 - ((i \div 2) + TREEBIN_SHIFT - 2)

minsize_for_tree_index(i) ==
  2 ^ ((i \div 2) + TREEBIN_SHIFT) + (i % 2) * 2 ^ ((i \div 2) + TREEBIN_SHIFT - 1)
-----------------------------------------------------------------------------
(* The parent of a root is its bin. *)
Bin(i) == <<"treebin", i>>
NoChildren == [b \in {0, 1} |-> NULL]
Fresh(s, parent, fd, bk) ==
  [size |-> s, index |-> compute_tree_index(s), child |-> NoChildren,
   parent |-> parent, fd |-> fd, bk |-> bk]
With(x, n, nodes) == [y \in DOMAIN nodes \cup {x} |-> IF y = x THEN n ELSE nodes[y]]

(* Where the walk from t with the bits k ends: at the node of size s, or   *)
(* at the node whose child on the next bit is missing.                     *)
RECURSIVE Descend(_, _, _)
Descend(t, s, k) ==
  LET c == node[t].child[SignBit(k)]
  IN IF node[t].size = s \/ c = NULL THEN [t |-> t, bit |-> SignBit(k)]
     ELSE Descend(c, s, ShiftLeft(k, 1))

(* X joins the ring of t, right behind it. *)
InsertInRing(x, s, t) ==
  LET f == node[t].fd
      linked == [node EXCEPT ![f].bk = x]
  IN node' = With(x, Fresh(s, NULL, f, t), [linked EXCEPT ![t].fd = x])

InsertBelow(x, s, t, bit) ==
  node' = With(x, Fresh(s, t, x, x), [node EXCEPT ![t].child[bit] = x])

(* insert_large_chunk *)
Insert(x, s) ==
  LET i == compute_tree_index(s)
      d == Descend(treebins[i], s, ShiftLeft(s, leftshift_for_tree_index(i)))
  IN /\ x \notin DOMAIN node
     /\ taken' = Nothing
     /\ IF i \notin treemap
          THEN /\ treemap' = treemap \cup {i}
               /\ treebins' = [treebins EXCEPT ![i] = x]
               /\ node' = With(x, Fresh(s, Bin(i), x, x), node)
          ELSE /\ IF node[d.t].size = s THEN InsertInRing(x, s, d.t)
                                        ELSE InsertBelow(x, s, d.t, d.bit)
               /\ UNCHANGED <<treebins, treemap>>
-----------------------------------------------------------------------------
(* The slot of the leaf that is found going right wherever possible. *)
RECURSIVE LeafSlot(_, _)
LeafSlot(q, b) ==
  LET r == node[q].child[b]
  IN IF node[r].child[1] # NULL THEN LeafSlot(r, 1)
     ELSE IF node[r].child[0] # NULL THEN LeafSlot(r, 0)
     ELSE [q |-> q, b |-> b]

(* Mutant: the child of x itself replaces x, with what hangs below it. *)
FindChild(x) ==
  IF node[x].child[1] # NULL THEN [q |-> x, b |-> 1] ELSE [q |-> x, b |-> 0]

FindLeaf(x) ==
  IF node[x].child[1] # NULL THEN LeafSlot(x, 1) ELSE LeafSlot(x, 0)

(* r, taken out of where it was in `nodes', gets the place of x. *)
Replace(x, r, nodes) ==
  LET xp == nodes[x].parent
      i == nodes[x].index
      under == IF treebins[i] = x THEN nodes
               ELSE [nodes EXCEPT ![xp].child[IF nodes[xp].child[0] = x THEN 0 ELSE 1] = r]
      kids == {b \in {0, 1} : nodes[x].child[b] # NULL}
      Adopt(n, y) == IF \E b \in kids : nodes[x].child[b] = y THEN [n EXCEPT !.parent = r] ELSE n
      placed == [under EXCEPT ![r].parent = xp,
                              ![r].child = [b \in {0, 1} |->
                                              IF b \in kids THEN nodes[x].child[b] ELSE @[b]]]
      adopted == IF r = NULL THEN under ELSE [y \in DOMAIN placed |-> Adopt(placed[y], y)]
  IN /\ node' = [y \in DOMAIN nodes \ {x} |-> IF xp = NULL THEN nodes[y] ELSE adopted[y]]
     /\ treebins' = IF treebins[i] = x THEN [treebins EXCEPT ![i] = r] ELSE treebins
     /\ treemap' = IF treebins'[i] = NULL THEN treemap \ {i} ELSE treemap

(* unlink_large_chunk: x is replaced by its predecessor on the ring, else  *)
(* by a leaf below it, else by nothing.                                    *)
unlink_large_chunk(x) ==
  LET n == node[x]
      slot == FindLeaf(x)
      ring == [node EXCEPT ![n.fd].bk = n.bk]
  IN IF n.bk # x THEN Replace(x, n.bk, [ring EXCEPT ![n.bk].fd = n.fd])
     ELSE IF n.child = NoChildren THEN Replace(x, NULL, node)
     ELSE Replace(x, node[slot.q].child[slot.b], [node EXCEPT ![slot.q].child[slot.b] = NULL])

Unlink(x) ==
  /\ x \in DOMAIN node
  /\ unlink_large_chunk(x)
  /\ taken' = Nothing
-----------------------------------------------------------------------------
(* Searches.  best is the chunk chosen so far and what it leaves over.     *)

Closer(best, t, nb) ==
  LET trem == size_t(node[t].size - nb)
  IN IF trem < best.rsize THEN [v |-> t, rsize |-> trem] ELSE best

leftmost_child(t) == IF node[t].child[0] # NULL THEN node[t].child[0] ELSE node[t].child[1]

(* "find smallest of tree or subtree" *)
RECURSIVE Smallest(_, _, _)
Smallest(t, best, nb) ==
  IF t = NULL THEN best ELSE Smallest(leftmost_child(t), Closer(best, t, nb), nb)

(* The walk towards nb remembers the deepest right subtree it did not take. *)
RECURSIVE Walk(_, _, _, _, _)
Walk(t, best, rst, k, nb) ==
  LET closer == Closer(best, t, nb)
      rt == node[t].child[1]
      c == node[t].child[SignBit(k)]
      right == IF rt # NULL /\ rt # c THEN rt ELSE rst
  IN IF closer.rsize = 0 /\ closer.v = t THEN [t |-> NULL, best |-> closer]
     ELSE IF c = NULL THEN [t |-> right, best |-> closer]
     ELSE Walk(c, closer, right, ShiftLeft(k, 1), nb)

(* Mutant: only the bin of the size itself is searched. *)
NextRootNone(i) == NULL

(* "set t to root of next non-empty treebin" *)
NextRoot(i) ==
  LET left == {j \in treemap : j > i}
  IN IF left = {} THEN NULL ELSE treebins[Min(left)]

(* tmalloc_large up to the chunk v. *)
SearchLarge(nb) ==
  LET none == [v |-> NULL, rsize |-> size_t(0 - nb)]
      i == compute_tree_index(nb)
      w == IF treebins[i] = NULL THEN [t |-> NULL, best |-> none]
           ELSE Walk(treebins[i], none, NULL, ShiftLeft(nb, leftshift_for_tree_index(i)), nb)
      t == IF w.t = NULL /\ w.best.v = NULL THEN NextRoot(i) ELSE w.t
  IN Smallest(t, w.best, nb).v

(* tmalloc_small up to v. *)
SearchSmall(nb) ==
  LET t == treebins[Min(treemap)]
  IN Smallest(leftmost_child(t), [v |-> t, rsize |-> size_t(node[t].size - nb)], nb).v

Search(nb) ==
  IF treemap = {} THEN NULL
  ELSE IF nb < MIN_LARGE_SIZE THEN SearchSmall(nb) ELSE SearchLarge(nb)

TakeChunk(nb, x) ==
  /\ taken' = [wanted |-> nb, got |-> x]
  /\ IF x = NULL THEN UNCHANGED <<node, treebins, treemap>> ELSE unlink_large_chunk(x)

Take(nb) == TakeChunk(nb, Search(nb))

Next ==
  \/ \E x \in Chunk : Unlink(x) \/ \E s \in Size : Insert(x, s)
  \/ \E nb \in Wanted : Take(nb)

Spec == Init /\ [][Next]_vars
-----------------------------------------------------------------------------
InTrie == {x \in DOMAIN node : node[x].parent # NULL}

(* What do_check_tree asserts of every chunk: it is in the bin of its      *)
(* size, links lead back, exactly one chunk of a ring is in the trie and   *)
(* has children, and the left subtree has the smaller sizes; a bin is      *)
(* marked exactly when it has a root.                                      *)
TrieOK ==
  /\ treemap = {i \in DOMAIN treebins : treebins[i] # NULL}
  /\ \A x \in DOMAIN node :
       LET n == node[x]
       IN /\ n.index = compute_tree_index(n.size)
          /\ n.size >= minsize_for_tree_index(n.index)
          /\ n.index = NTREEBINS - 1 \/ n.size < minsize_for_tree_index(n.index + 1)
          /\ node[n.fd].bk = x /\ node[n.bk].fd = x
          /\ node[n.fd].size = n.size /\ node[n.fd].index = n.index
          /\ n.parent = NULL => n.child = NoChildren
          /\ n.parent # NULL =>
               IF treebins[n.index] = x THEN n.parent = Bin(n.index)
               ELSE \E b \in {0, 1} : node[n.parent].child[b] = x
          /\ \A b \in {0, 1} : n.child[b] # NULL => node[n.child[b]].parent = x
          /\ NULL \notin {n.child[0], n.child[1]} => node[n.child[0]].size < node[n.child[1]].size
  /\ \A x, y \in InTrie : x # y => node[x].size # node[y].size

(* The queue of a size: the chunk in the trie and the others of its ring   *)
(* by their age, bk leading from the first to the next.                    *)
RECURSIVE Ring(_, _)
Ring(x, y) == IF node[y].bk = x THEN <<y>> ELSE <<y>> \o Ring(x, node[y].bk)

Queues ==
  [s \in {node[x].size : x \in InTrie} |->
     LET x == CHOOSE y \in InTrie : node[y].size = s IN Ring(x, x)]

(* The tries behave as the queues the heap works with: no chunk is lost    *)
(* and a request gets the oldest chunk of the smallest size that fits.     *)
Abstract == INSTANCE FreeBins WITH bins <- Queues
ImplementsFreeBins == Abstract!Spec
=============================================================================
