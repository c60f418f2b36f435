------------------------------ MODULE PciWalk ------------------------------
(***************************************************************************)
(* The walk over the PCI functions, kernel/pci/walk.c, with the callback   *)
(* of kernel/boot/kernel.c.  The recursion of pci_walk_bus and             *)
(* pci_walk_device is a stack of calls, each with its loop counter.        *)
(*                                                                         *)
(* The configuration space is a topology that firmware has set up: which   *)
(* functions exist, which devices say they are multi-function, and the     *)
(* secondary bus of each bridge.  32 devices and 8 functions are scaled    *)
(* down.                                                                   *)
(***************************************************************************)
EXTENDS Integers, SequencesExt

CONSTANTS
  Topologies,               \* records of the fields present, multi, secondary
  LastDevice, LastFunction  \* 31 and 7

ASSUME WalkAssumption == LastDevice \in Nat /\ LastFunction \in Nat

(* What PCI and the firmware see to: a multi-function device has function  *)
(* 0, a bridge that is not function 0 is in a multi-function device, and a *)
(* bus lies behind at most one bridge.                                     *)
ASSUME TopologyAssumption ==
  \A t \in Topologies :
    LET bridges == t.present \cap DOMAIN t.secondary
    IN /\ t.present \subseteq Nat \X (0 .. LastDevice) \X (0 .. LastFunction)
       /\ t.secondary \in [DOMAIN t.secondary -> Nat]
       /\ \A f \in t.present :
            <<f[1], f[2]>> \in t.multi => <<f[1], f[2], 0>> \in t.present
       /\ \A f \in bridges : f[3] = 0 \/ <<f[1], f[2]>> \in t.multi
       /\ \A f, g \in bridges :
            t.secondary[f] = t.secondary[g] /\ t.secondary[f] # 0 => f = g

VARIABLES
  pci,       \* the topology
  roots,     \* buses pci_walk_devices has still to walk
  calls,     \* stack of calls, the running one last
  handled    \* history: the functions the callback was called for, in order

vars == <<pci, roots, calls, handled>>

Functions == 0 .. LastFunction

(* pci_config_vendor, pci_config_header_type, and pci_config_class with    *)
(* pci_config_secondary_bus (0 if the function is no bridge).              *)
Vendor(bus, device, function) == <<bus, device, function>> \in pci.present
MultiFunction(bus, device) == <<bus, device>> \in pci.multi
Secondary(bus, device, function) ==
  IF <<bus, device, function>> \in DOMAIN pci.secondary
    THEN pci.secondary[<<bus, device, function>>] ELSE 0

(* The test of pci_walk_devices: a host controller that answers is skipped. *)
WalksHost(function) == ~Vendor(0, 0, function)

Roots ==
  IF MultiFunction(0, 0)
    THEN SelectSeq([i \in 1 .. LastFunction + 1 |-> i - 1], WalksHost)
    ELSE <<0>>

WalkBus(bus) == [walk |-> "bus", bus |-> bus, device |-> 0, function |-> 0]
WalkDevice(bus, device) == [walk |-> "device", bus |-> bus, device |-> device, function |-> 0]

Init ==
  /\ pci \in Topologies
  /\ roots = Roots
  /\ calls = <<>>
  /\ handled = <<>>

-----------------------------------------------------------------------------
(* pci_walk_devices walks its next bus. *)
NextRoot ==
  /\ calls = <<>> /\ roots # <<>>
  /\ calls' = <<WalkBus(Head(roots))>>
  /\ roots' = Tail(roots)
  /\ UNCHANGED <<pci, handled>>

call == Last(calls)

(* A call with its loop counter advanced. *)
Step(c) ==
  IF c.walk = "bus" THEN [c EXCEPT !.device = @ + 1] ELSE [c EXCEPT !.function = @ + 1]

Advanced == [calls EXCEPT ![Len(calls)] = Step(@)]

Finished ==
  IF call.walk = "bus" THEN call.device > LastDevice ELSE call.function > LastFunction

Running == calls # <<>> /\ ~Finished

Return ==
  /\ calls # <<>> /\ Finished
  /\ calls' = Front(calls)
  /\ UNCHANGED <<pci, roots, handled>>

(* Mutant: the loop counter is not advanced. *)
SkipInPlace ==
  /\ Running
  /\ ~Vendor(call.bus, call.device, call.function)
  /\ UNCHANGED vars

(* No vendor id: go on with the next device, or the next function. *)
Skip ==
  /\ Running
  /\ ~Vendor(call.bus, call.device, call.function)
  /\ calls' = Advanced
  /\ UNCHANGED <<pci, roots, handled>>

EnterDevice ==
  /\ Running
  /\ call.walk = "bus" /\ Vendor(call.bus, call.device, 0)
  /\ MultiFunction(call.bus, call.device)
  /\ calls' = Append(Advanced, WalkDevice(call.bus, call.device))
  /\ UNCHANGED <<pci, roots, handled>>

(* Mutant: the bus behind a bridge is walked for multi-function devices only. *)
HandleFunctionFlat ==
  /\ Running
  /\ Vendor(call.bus, call.device, call.function)
  /\ call.walk = "device" \/ ~MultiFunction(call.bus, call.device)
  /\ handled' = Append(handled, <<call.bus, call.device, call.function>>)
  /\ LET secondary == Secondary(call.bus, call.device, call.function)
     IN calls' = IF secondary # 0 /\ call.walk = "device"
                   THEN Append(Advanced, WalkBus(secondary)) ELSE Advanced
  /\ UNCHANGED <<pci, roots>>

(* The handler is called, and the bus behind a bridge is walked; the       *)
(* callback of the kernel never asks for the walk to stop.                 *)
HandleFunction ==
  /\ Running
  /\ Vendor(call.bus, call.device, call.function)
  /\ call.walk = "device" \/ ~MultiFunction(call.bus, call.device)
  /\ handled' = Append(handled, <<call.bus, call.device, call.function>>)
  /\ LET secondary == Secondary(call.bus, call.device, call.function)
     IN calls' = IF secondary # 0 THEN Append(Advanced, WalkBus(secondary)) ELSE Advanced
  /\ UNCHANGED <<pci, roots>>

Next == NextRoot \/ Return \/ Skip \/ EnterDevice \/ HandleFunction

Spec == Init /\ [][Next]_vars /\ WF_vars(Next)
-----------------------------------------------------------------------------
Done == roots = <<>> /\ calls = <<>>

Buses == {f[1] : f \in pci.present}

(* Buses behind present bridges, starting from a set of buses: a bus is    *)
(* reachable if every set closed under bridges that holds the start holds  *)
(* it.                                                                     *)
Closed(s) ==
  \A f \in DOMAIN pci.secondary :
    f \in pci.present /\ f[1] \in s /\ pci.secondary[f] # 0 => pci.secondary[f] \in s
AllBuses == Buses \cup {pci.secondary[f] : f \in DOMAIN pci.secondary}
Reachable(start) ==
  {b \in start \cup AllBuses :
     \A s \in SUBSET (start \cup AllBuses) : start \subseteq s /\ Closed(s) => b \in s}

(* The functions that exist on a set of buses; function 0 stands for a     *)
(* device that is not multi-function.                                      *)
On(buses) ==
  {f \in pci.present : f[1] \in buses /\ (f[3] = 0 \/ MultiFunction(f[1], f[2]))}

(* The walk calls the handler for every function behind the host bridge,   *)
(* for each once and for nothing else.                                     *)
WalkComplete ==
  Done /\ ~MultiFunction(0, 0) =>
    /\ ToSet(handled) = On(Reachable({0}))
    /\ IsInjective(handled)

(* The walk ends. *)
WalkEnds == <>Done

(* "multiple PCI host controllers": each function of device 0 on bus 0 is  *)
(* the controller of the bus of its number, which the walk visits.         *)
HostsWalked ==
  Done /\ MultiFunction(0, 0) =>
    \A f \in Functions : Vendor(0, 0, f) => On({f}) \subseteq ToSet(handled)
=============================================================================
