-------------------------------- MODULE MCEc --------------------------------
EXTENDS Ec

(* An EC with a general purpose event and a third port after its two. *)
MCResources ==
  << [type |-> "IRQ", minimum |-> 9], [type |-> "IO", minimum |-> 98],
     [type |-> "IO", minimum |-> 102], [type |-> "IO", minimum |-> 104] >>
=============================================================================
