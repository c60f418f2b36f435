----------------------------- MODULE MCPciWalk -----------------------------
(***************************************************************************)
(* Topologies of three buses with two devices of two functions each.       *)
(* Function 0 exists if another function does; bus numbers grow away from  *)
(* the host, and every bus lies behind at most one bridge.                 *)
(***************************************************************************)
EXTENDS PciWalk

CONSTANT ManyHosts   \* device 0 of bus 0 is a multi-function host controller

Slots == (0 .. 2) \X (0 .. 1)

(* A device is absent, has a single function, or is multi-function. *)
Shapes == {s \in [Slots -> {"absent", "single", "multi0", "multi01"}] :
             /\ s[<<0, 0>>] \in IF ManyHosts THEN {"multi0", "multi01"} ELSE {"single"}
             /\ s[<<2, 1>>] = "absent" /\ s[<<2, 0>>] # "multi0"}

Present(s) ==
  {<<d[1], d[2], 0>> : d \in {e \in Slots : s[e] # "absent"}} \cup
  {<<d[1], d[2], 1>> : d \in {e \in Slots : s[e] = "multi01"}}

(* Up to two bridges: bus 1 behind bus 0, bus 2 behind bus 0 or 1. *)
Bridges ==
  { [f \in {a, b} |-> IF f = b THEN 2 ELSE 1] :
      a \in {<<0, 1, 0>>, <<0, 1, 1>>},
      b \in {<<0, 1, 1>>, <<1, 0, 0>>, <<1, 1, 0>>, <<1, 1, 1>>} } \cup
  { [f \in {<<0, 1, 0>>} |-> 0] }

MCTopologies ==
  {[present |-> Present(s), multi |-> {d \in Slots : s[d] \in {"multi0", "multi01"}},
    secondary |-> b] : s \in Shapes, b \in Bridges}
=============================================================================
