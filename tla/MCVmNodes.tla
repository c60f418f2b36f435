------------------------------ MODULE MCVmNodes ------------------------------
(* Six objects, of which the slab hands out four before it panics.         *)
EXTENDS VmNodes
=============================================================================
