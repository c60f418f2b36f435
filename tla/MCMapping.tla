------------------------------ MODULE MCMapping ------------------------------
(***************************************************************************)
(* The five calls of mm_virtual_init, scaled: the whole space, the slab,   *)
(* the page stacks and, right behind them, the page tables, the kernel.    *)
(* A kernel of two pages would reach the end of the space.                 *)
(***************************************************************************)
EXTENDS Mapping, TLC

InUse(start, len) == [start |-> start, len |-> len, flags |-> {VM_USED}]

MCBootRanges ==
  << {[start |-> 3, len |-> 11, flags |-> {VM_FREE}]},
     {InUse(7, 1)}, {InUse(9, 1)}, {InUse(10, 1)},
     {InUse(12, 1), InUse(12, 2)} >>

Symmetry == Permutations(Frames)
=============================================================================
