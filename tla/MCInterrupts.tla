---------------------------- MODULE MCInterrupts ----------------------------
(***************************************************************************)
(* A MADT as firmware writes it: the PIT's IRQ 0 comes in on pin 2, the    *)
(* SCI on pin 9.                                                           *)
(***************************************************************************)
EXTENDS Interrupts, TLC

CONSTANT SciTrigger   \* trigger mode the override of the SCI gives

MCMadt ==
  << [type |-> "LAPIC", enabled |-> TRUE, apic_id |-> 0],
     [type |-> "LAPIC", enabled |-> TRUE, apic_id |-> 1],
     [type |-> "INTR", irq |-> 0, gsi |-> 2, polarity |-> "conforms", trigger |-> "conforms"],
     [type |-> "INTR", irq |-> 9, gsi |-> 9, polarity |-> "high", trigger |-> SciTrigger],
     [type |-> "IOAPIC", base |-> 0, irqs |-> 24],
     [type |-> "LNMI", id |-> 255, lint |-> 1] >>

(* The firmware has masked every pin, or left the PIT or the SCI as it     *)
(* used them.                                                              *)
Edge(v) == [vector |-> v, active_high |-> TRUE, level |-> FALSE]
Level(v) == [vector |-> v, active_high |-> FALSE, level |-> TRUE]

AllMasked == [p \in Pins |-> Masked]
MCTables == {AllMasked, PitPin :> Edge(34) @@ AllMasked, SCI :> Level(112) @@ AllMasked}
=============================================================================
