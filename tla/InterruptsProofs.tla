-------------------------- MODULE InterruptsProofs --------------------------
(***************************************************************************)
(* isr_dispatch finds a handler for every interrupt it gets but the stray  *)
(* ones, for every MADT that routes the SCI and leaves the pin of the PIT  *)
(* alone, and for every table the firmware may have left in the IOAPIC.    *)
(*                                                                         *)
(* The argument has two halves.  Beside the stray vectors only that of the *)
(* SCI is ever sent, whatever the step of the boot, because of what the    *)
(* second pass over the MADT writes.  And between idt_init and sti         *)
(* interrupts are off, so that an SCI that comes before                    *)
(* acpi_os_install_interrupt_handler waits.                                *)
(***************************************************************************)
EXTENDS Interrupts, TLAPS

(* The steps of the boot before the handler of the SCI is installed, and   *)
(* those from there to sti.                                                *)
Before == {"madt_first", "madt_second", "initialize_tables", "enable_subsystem"}
After == {"global_event_handler", "apic_enable", "enable_event", "sti"}

(* The boot is at one of its steps, with an entry of the MADT to look at.  *)
Stepping ==
  /\ pc \in {"idt_init", "main"} \cup Before \cup After
  /\ entry \in 1 .. Len(Madt)

(* Nothing is dispatched between idt_init and sti. *)
Quiet ==
  /\ pc \in Before \cup After => interrupts = FALSE
  /\ pc # "main" => isr = 0

Installed == pc \in After \cup {"main"} => Vector(SCI) \in handlers

(* The line of the SCI leads to its vector, or where the firmware had it;  *)
(* the line of the PIT stays as the firmware had it.                       *)
Routed ==
  /\ DOMAIN redtbl = Pins
  /\ redtbl[SCI] # Masked => redtbl[SCI].vector \in {Vector(SCI)} \cup Leftover
  /\ redtbl[PitPin] # Masked => redtbl[PitPin].vector \in Leftover

OnlySci == irr \subseteq {Vector(SCI)} \cup Stray

IntInv == Stepping /\ Quiet /\ Installed /\ Routed /\ OnlySci /\ DevicesHandled
-----------------------------------------------------------------------------
(* The vector in the redirection entry of an override for the SCI's pin    *)
(* fits into the eight bits it has: it is the one the handler is           *)
(* registered for.                                                         *)
LEMMA SciVector ==
  ASSUME NEW i \in 1 .. Len(Madt), Madt[i].type = "INTR", Madt[i].irq = SCI
  PROVE  Redirection(Madt[i]).vector = Vector(SCI)
<1>1. Madt[i].gsi = SCI /\ SCI \in Nat /\ SCI < 24
  BY SciAssumption, MadtAssumption
<1>2. Vector(SCI) % 256 = Vector(SCI)
  BY <1>1 DEF Vector
<1> QED
  BY <1>1, <1>2 DEF Redirection

(* A step of the loop over the MADT ends at an entry of the table again.   *)
LEMMA EntryStays ==
  ASSUME entry \in 1 .. Len(Madt),
         NEW q,
         IF entry < Len(Madt) THEN entry' = entry + 1 /\ UNCHANGED pc
                              ELSE entry' = 1 /\ pc' = q
  PROVE  entry' \in 1 .. Len(Madt) /\ pc' \in {pc, q}
BY MadtAssumption

(* The second pass writes the vector of the SCI into the entry of its pin, *)
(* and leaves the pin of the PIT alone.                                    *)
LEMMA SecondPassRoutes ==
  ASSUME Stepping, Routed, SecondPass
  PROVE  Routed'
<1> DEFINE e == Madt[entry]
<1>0. entry \in 1 .. Len(Madt) /\ SCI \in Pins /\ PitPin \in Pins
  BY SciAssumption DEF Stepping
<1>1. CASE redtbl' = redtbl
  BY <1>1 DEF Routed
<1>2. CASE e.type = "INTR" /\ redtbl' = [redtbl EXCEPT ![e.irq] = Redirection(e)]
  <2>1. e.irq # PitPin
    BY <1>0, <1>2, MadtAssumption
  <2>2. DOMAIN redtbl' = Pins /\ redtbl'[PitPin] = redtbl[PitPin]
    BY <1>0, <1>2, <2>1 DEF Routed
  <2>3. CASE e.irq = SCI
    <3>1. redtbl'[SCI] = Redirection(e)
      BY <1>0, <1>2, <2>3 DEF Routed
    <3>2. Redirection(e).vector = Vector(SCI)
      BY <1>0, <1>2, <2>3, SciVector
    <3> QED
      BY <2>2, <3>1, <3>2 DEF Routed, Vector
  <2>4. CASE e.irq # SCI
    <3>1. redtbl'[SCI] = redtbl[SCI]
      BY <1>0, <1>2, <2>4 DEF Routed
    <3> QED
      BY <2>2, <3>1 DEF Routed, Vector
  <2> QED
    BY <2>3, <2>4
<1> QED
  BY <1>1, <1>2 DEF SecondPass

LEMMA InitInv == Init => IntInv
<1> SUFFICES ASSUME Init PROVE IntInv
  OBVIOUS
<1>1. Stepping
  BY MadtAssumption DEF Init, Stepping
<1>2. Quiet /\ Installed /\ OnlySci /\ DevicesHandled
  BY DEF Init, Quiet, Installed, OnlySci, Stray, DevicesHandled, Before, After
<1>3. Routed
  BY SciAssumption, FirmwareAssumption DEF Init, Routed
<1> QED
  BY <1>1, <1>2, <1>3 DEF IntInv

(* Each step of the boot keeps the invariant. *)
LEMMA BootInv ==
  ASSUME IntInv, Boot, mode = "running"
  PROVE  IntInv'
<1> USE DEF IntInv
<1>1. CASE IdtInit
  BY <1>1 DEF IdtInit, Stepping, Quiet, Installed, Routed, OnlySci, DevicesHandled,
              Before, After, Vector
<1>2. CASE FirstPass
  <2>1. entry' \in 1 .. Len(Madt) /\ pc' \in {"madt_first", "madt_second"}
    <3>1. pc = "madt_first" /\ entry \in 1 .. Len(Madt)
      BY <1>2 DEF FirstPass, Stepping
    <3> QED
      BY <1>2, <3>1, EntryStays DEF FirstPass
  <2>2. pc = "madt_first"
        /\ UNCHANGED <<mode, redtbl, handlers, interrupts, irr, isr, unhandled>>
    BY <1>2 DEF FirstPass
  <2> QED
    BY <2>1, <2>2 DEF Stepping, Quiet, Installed, Routed, OnlySci, DevicesHandled,
                      Before, After, Vector
<1>3. CASE SecondPass
  <2>1. entry' \in 1 .. Len(Madt) /\ pc' \in {"madt_second", "initialize_tables"}
    <3>1. pc = "madt_second" /\ entry \in 1 .. Len(Madt)
      BY <1>3 DEF SecondPass, Stepping
    <3> QED
      BY <1>3, <3>1, EntryStays DEF SecondPass
  <2>2. /\ pc = "madt_second" /\ mode' \in {mode, "panicked"}
        /\ UNCHANGED <<handlers, interrupts, irr, isr, unhandled>>
    BY <1>3 DEF SecondPass
  <2>3. Routed'
    BY <1>3, SecondPassRoutes
  <2> QED
    BY <2>1, <2>2, <2>3 DEF Stepping, Quiet, Installed, OnlySci, DevicesHandled,
                            Before, After, Vector
<1>4. CASE InitializeTables
  BY <1>4 DEF InitializeTables, Stepping, Quiet, Installed, Routed, OnlySci,
              DevicesHandled, Before, After, Vector
<1>5. CASE EnableSubsystem
  BY <1>5 DEF EnableSubsystem, Stepping, Quiet, Installed, Routed, OnlySci,
              DevicesHandled, Before, After, Vector
<1>6. CASE GlobalEventHandler
  BY <1>6 DEF GlobalEventHandler, Stepping, Quiet, Installed, Routed, OnlySci,
              DevicesHandled, Before, After, Vector
<1>7. CASE ApicEnable
  BY <1>7 DEF ApicEnable, Stepping, Quiet, Installed, Routed, OnlySci,
              DevicesHandled, Before, After, Vector
<1>8. CASE EnableEvent
  BY <1>8 DEF EnableEvent, Stepping, Quiet, Installed, Routed, OnlySci,
              DevicesHandled, Before, After, Vector
<1>9. CASE Sti
  BY <1>9 DEF Sti, Stepping, Quiet, Installed, Routed, OnlySci,
              DevicesHandled, Before, After, Vector
<1>10. CASE BootFails
  BY <1>10 DEF BootFails, boot, Stepping, Quiet, Installed, Routed, OnlySci,
               DevicesHandled, Before, After, Vector
<1> QED
  BY <1>1, <1>2, <1>3, <1>4, <1>5, <1>6, <1>7, <1>8, <1>9, <1>10 DEF Boot

(* An interrupt is taken only after sti, when the handler is there; one    *)
(* that has none is stray.                                                 *)
LEMMA TakeInv ==
  ASSUME IntInv, mode = "running", NEW v \in {Vector(SCI)} \cup Stray, Take(v),
         irr' \subseteq irr
  PROVE  IntInv'
<1> USE DEF IntInv
<1>1. pc = "main"
  BY DEF Take, Stepping, Quiet
<1>2. pc' = pc /\ UNCHANGED <<entry, redtbl, handlers>>
  BY DEF Take, boot
<1>3. DevicesHandled'
  <2>1. CASE v \in handlers
    BY <2>1 DEF Take, DevicesHandled
  <2>2. CASE v \notin handlers
    <3>1. v \in Stray \ {Vector(SCI)}
      BY <1>1, <2>2 DEF Installed
    <3> QED
      BY <1>1, <1>2, <2>2, <3>1 DEF Take, DevicesHandled, Stray, Vector
  <2> QED
    BY <2>1, <2>2
<1> QED
  BY <1>1, <1>2, <1>3 DEF Stepping, Quiet, Installed, Routed, OnlySci, Before, After, Vector

LEMMA IsrInv ==
  ASSUME IntInv, Isr, mode = "running"
  PROVE  IntInv'
<1> USE DEF IntInv
<1>1. ASSUME NEW v \in irr, Dispatch(v)
      PROVE  IntInv'
  <2>1. v \in {Vector(SCI)} \cup Stray
    BY DEF OnlySci
  <2> QED
    BY <1>1, <2>1, TakeInv DEF Dispatch
<1>2. ASSUME NEW event \in Events, Serve(event)
      PROVE  IntInv'
  <2>1. mode' \in {mode, "off", "panicked"} /\ UNCHANGED <<boot, interrupts, irr, isr, unhandled>>
    BY <1>2 DEF Serve
  <2> QED
    BY <2>1 DEF boot, Stepping, Quiet, Installed, Routed, OnlySci, DevicesHandled,
                Before, After, Vector
<1>3. CASE Ack
  <2>1. pc = "main"
    BY <1>3 DEF Ack, Quiet
  <2> QED
    BY <1>3, <2>1 DEF Ack, boot, Stepping, Quiet, Installed, Routed, OnlySci,
                      DevicesHandled, Before, After, Vector
<1> QED
  BY <1>1, <1>2, <1>3 DEF Isr, Handle

(* The hardware sends the vector of the SCI and stray ones. *)
LEMMA HardwareInv ==
  ASSUME IntInv, Hardware, mode = "running"
  PROVE  IntInv'
<1> USE DEF IntInv
<1>1. CASE Spurious
  BY <1>1, TakeInv DEF Spurious, Stray
<1>2. CASE ~Spurious
  <2>1. UNCHANGED <<boot, mode, interrupts, isr, unhandled>>
    BY <1>2 DEF Hardware, SendLevel, Signal, PitFires, ApicError
  <2>2. irr' \subseteq {Vector(SCI)} \cup Stray
    <3>1. CASE SendLevel
      BY <3>1 DEF SendLevel, Routed, OnlySci, Stray
    <3>2. ASSUME NEW event \in Events, Signal(event)
          PROVE  irr' \subseteq {Vector(SCI)} \cup Stray
      BY <3>2 DEF Signal, Routed, OnlySci, Stray
    <3>3. CASE PitFires
      BY <3>3 DEF PitFires, Routed, OnlySci, Stray
    <3>4. CASE ApicError
      BY <3>4 DEF ApicError, OnlySci, Stray
    <3> QED
      BY <1>2, <3>1, <3>2, <3>3, <3>4 DEF Hardware
  <2> QED
    BY <2>1, <2>2 DEF boot, Stepping, Quiet, Installed, Routed, OnlySci,
                      DevicesHandled, Before, After, Vector
<1> QED
  BY <1>1, <1>2

-----------------------------------------------------------------------------
(* IntInv holds from the first instruction of the boot on: the table of    *)
(* the IOAPIC and the interrupt flag keep every vector that is dispatched  *)
(* to the one acpi_os_install_interrupt_handler has registered, or it is   *)
(* stray.                                                                  *)
THEOREM InterruptsCorrect == Spec => []IntInv
<1>1. IntInv /\ [Next]_vars => IntInv'
  <2> SUFFICES ASSUME IntInv, [Next]_vars PROVE IntInv'
    OBVIOUS
  <2>1. CASE Next
    BY <2>1, BootInv, IsrInv, HardwareInv DEF Next
  <2>2. CASE UNCHANGED vars
    BY <2>2 DEF vars, boot, IntInv, Stepping, Quiet, Installed, Routed, OnlySci,
                DevicesHandled, Before, After, Vector
  <2> QED
    BY <2>1, <2>2
<1> QED
  BY <1>1, InitInv, PTL DEF Spec

(* isr_dispatch loops for want of a handler only when an interrupt of the  *)
(* local APIC itself or one left by the firmware comes, and only after the *)
(* boot: never for the SCI, however early it comes.                        *)
THEOREM DispatchCorrect == Spec => []DevicesHandled
<1>1. IntInv => DevicesHandled
  BY DEF IntInv
<1> QED
  BY <1>1, InterruptsCorrect, PTL

=============================================================================
