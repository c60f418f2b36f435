----------------------------- MODULE Interrupts -----------------------------
(***************************************************************************)
(* Interrupts from boot to the power button: acpi_init with the MADT pass  *)
(* of acpi_tables_init (kernel/driver/acpi), the IOAPIC, the local APIC    *)
(* and isr_dispatch (kernel/int), and the shutdown the ACPI handler makes. *)
(*                                                                         *)
(* External: ACPICA, which clears an ACPI event and calls the global event *)
(* handler, and the hardware that raises the SCI and delivers interrupts,  *)
(* spurious ones and those for errors of the local APIC among them.  The   *)
(* IOAPIC here does not look at the polarity of a line.  Left out:         *)
(* exceptions, the destination of an interrupt (there is one processor),   *)
(* the legacy PIC, which pic_init masks, and the APIC timer, unused.       *)
(***************************************************************************)
EXTENDS Integers, Sequences

CONSTANTS
  Madt,     \* the entries of the MADT, records with a type
  Pins,     \* pins of the first IOAPIC
  SCI,      \* FADT.sci_interrupt
  PitPin,   \* pin the PIT's output is wired to
  Tables,   \* redirection tables the firmware may leave behind
  Leftover  \* vectors that may be pending, or sent, from the firmware's time

Masked == [vector |-> 0, active_high |-> FALSE, level |-> FALSE]

ASSUME SciAssumption == Pins \subseteq Nat /\ SCI \in Pins \ {0} /\ PitPin \in Pins

ASSUME FirmwareAssumption ==
  \A table \in Tables :
    /\ DOMAIN table = Pins
    /\ \A p \in Pins : table[p] # Masked => table[p].vector \in Leftover

(* What firmware writes: a table that is not empty; overrides that leave   *)
(* the SCI on its own interrupt, one that has a gate in the IDT; and none  *)
(* for the pin of the PIT, which is no ISA interrupt's own (on a PC the    *)
(* interrupt is 0, the pin 2).                                             *)
ASSUME MadtAssumption ==
  /\ Len(Madt) \in Nat \ {0}
  /\ SCI < 24
  /\ \A i \in 1 .. Len(Madt) : Madt[i].type = "INTR" =>
       /\ Madt[i].gsi \in Nat
       /\ Madt[i].irq = SCI => Madt[i].gsi = SCI
       /\ Madt[i].irq # PitPin

VARIABLES
  pc,          \* step of the boot that comes next
  mode,        \* "running", "panicked", "hung" or "off"
  entry,       \* entry of the MADT that comes next
  fadt,        \* ACPICA has read the FADT: acpi_gbl_FADT is filled in
  cpu,         \* cpu_t: apic_id (-1 while unset) and the NMI inputs
  ioapics,     \* ioapic_list
  redtbl,      \* redirection table of the first IOAPIC
  handlers,    \* vectors with a handler (isr_register)
  interrupts,  \* the interrupt flag of the processor
  lapic,       \* the local APIC is enabled
  irr, isr,    \* its pending vectors and the one in service, 0 for none
  sts, en,     \* ACPI events that are signalled and enabled
  seen,        \* events the running SCI handler has found and not served
  unhandled    \* vector isr_dispatch loops for, 0 while it does not

boot == <<pc, entry, fadt, cpu, ioapics, redtbl, handlers>>
vars == <<boot, mode, interrupts, lapic, irr, isr, sts, en, seen, unhandled>>

Events == {"global_lock", "power_button"}

(* The vectors the local APIC is given for interrupts of its own. *)
LVT_ERROR_INT == 254
SPURIOUS == 255

Init ==
  /\ pc = "idt_init" /\ mode = "running" /\ entry = 1 /\ fadt = FALSE
  /\ cpu = [apic_id |-> -1, nmi0 |-> FALSE, nmi1 |-> FALSE]
  /\ ioapics = <<>>
  /\ redtbl \in Tables
  /\ handlers = {}
  /\ interrupts \in BOOLEAN /\ lapic \in BOOLEAN
  /\ irr \in SUBSET Leftover /\ isr = 0
  /\ sts = {} /\ en = {} /\ seen = {} /\ unhandled = 0

-----------------------------------------------------------------------------
(* idt_init: from here on an interrupt reaches isr_dispatch. *)
IdtInit ==
  /\ pc = "idt_init"
  /\ pc' = "madt_first"
  /\ interrupts' = FALSE
  /\ UNCHANGED <<mode, entry, fadt, cpu, ioapics, redtbl, handlers, lapic, irr,
                 isr, sts, en, seen, unhandled>>

(* One entry of the first pass of acpi_parse_madt. *)
FirstPass ==
  /\ pc = "madt_first"
  /\ LET e == Madt[entry]
     IN /\ cpu' = CASE e.type = "LAPIC" /\ e.enabled /\ cpu.apic_id = -1 ->
                         [cpu EXCEPT !.apic_id = e.apic_id]
                    [] e.type = "LNMI" /\ e.id \in {0, 255} ->
                         IF e.lint = 0 THEN [cpu EXCEPT !.nmi0 = TRUE]
                                       ELSE [cpu EXCEPT !.nmi1 = TRUE]
                    [] OTHER -> cpu
        /\ ioapics' = IF e.type = "IOAPIC" THEN Append(ioapics, e) ELSE ioapics
  /\ IF entry < Len(Madt) THEN entry' = entry + 1 /\ UNCHANGED pc
                          ELSE entry' = 1 /\ pc' = "madt_second"
  /\ UNCHANGED <<mode, fadt, redtbl, handlers, interrupts, lapic, irr, isr, sts, en, seen, unhandled>>

(* acpi_gbl_FADT.sci_interrupt, 0 until ACPICA has read the table. *)
sci_interrupt == IF fadt THEN SCI ELSE 0

Vector(gsi) == gsi + 32

(* The redirection entry for an Interrupt Source Override. *)
Redirection(e) ==
  [vector |-> Vector(e.gsi) % 256,
   active_high |-> e.polarity \in {"high", "conforms"} /\ e.gsi # sci_interrupt,
   level |-> e.trigger = "level" \/ e.gsi = sci_interrupt]

(* The assertion of ioapic_route, which knows the first IOAPIC only. *)
Routable(irq) ==
  ioapics # <<>> /\ ioapics[1].base <= irq /\ irq < ioapics[1].base + ioapics[1].irqs

(* One entry of the second pass; pin irq is routed to the vector of gsi. *)
SecondPass ==
  /\ pc = "madt_second"
  /\ LET e == Madt[entry]
     IN IF e.type # "INTR" THEN UNCHANGED <<redtbl, mode>>
        ELSE IF Routable(e.irq)
          THEN redtbl' = [redtbl EXCEPT ![e.irq] = Redirection(e)] /\ UNCHANGED mode
          ELSE mode' = "panicked" /\ UNCHANGED redtbl
  /\ IF entry < Len(Madt) THEN entry' = entry + 1 /\ UNCHANGED pc
                          ELSE entry' = 1 /\ pc' = "initialize_tables"
  /\ UNCHANGED <<fadt, cpu, ioapics, handlers, interrupts, lapic, irr, isr, sts, en, seen, unhandled>>

(* acpi_initialize_subsystem, acpi_initialize_tables and acpi_load_tables, *)
(* then the cli of apic_init.                                              *)
InitializeTables ==
  /\ pc = "initialize_tables"
  /\ pc' = "enable_subsystem"
  /\ fadt' = TRUE
  /\ interrupts' = FALSE
  /\ UNCHANGED <<mode, entry, cpu, ioapics, redtbl, handlers, lapic, irr, isr, sts, en, seen, unhandled>>

(* Mutant: the handler is registered for the wrong vector. *)
EnableSubsystemWrongVector ==
  /\ pc = "enable_subsystem"
  /\ pc' = "global_event_handler"
  /\ handlers' = handlers \cup {Vector(SCI) + 1}
  /\ en' = en \cup {"global_lock"}
  /\ UNCHANGED <<mode, entry, fadt, cpu, ioapics, redtbl, interrupts, lapic, irr, isr, sts, seen, unhandled>>

(* acpi_enable_subsystem has acpi_os_install_interrupt_handler called for  *)
(* the SCI, and enables the global lock event; acpi_ec_init follows.       *)
EnableSubsystem ==
  /\ pc = "enable_subsystem"
  /\ pc' = "global_event_handler"
  /\ handlers' = handlers \cup {Vector(SCI)}
  /\ en' = en \cup {"global_lock"}
  /\ UNCHANGED <<mode, entry, fadt, cpu, ioapics, redtbl, interrupts, lapic, irr, isr, sts, seen, unhandled>>

(* acpi_install_global_event_handler, acpi_initialize_objects and _PIC. *)
GlobalEventHandler ==
  /\ pc = "global_event_handler"
  /\ pc' = "apic_enable"
  /\ UNCHANGED <<mode, entry, fadt, cpu, ioapics, redtbl, handlers, interrupts, lapic,
                 irr, isr, sts, en, seen, unhandled>>

(* apic_enable gives the local APIC its vectors for spurious interrupts    *)
(* and for errors.  What is pending stays so; apic_ack ends what is in     *)
(* service.                                                                *)
ApicEnable ==
  /\ pc = "apic_enable"
  /\ pc' = "enable_event"
  /\ lapic' = TRUE
  /\ isr' = 0
  /\ UNCHANGED <<mode, entry, fadt, cpu, ioapics, redtbl, handlers, interrupts, irr, sts, en, seen, unhandled>>

ApicEnabled == pc \in {"enable_event", "sti", "main"}

EnableEvent ==
  /\ pc = "enable_event"
  /\ pc' = "sti"
  /\ en' = en \cup {"power_button"}
  /\ UNCHANGED <<mode, entry, fadt, cpu, ioapics, redtbl, handlers, interrupts, lapic,
                 irr, isr, sts, seen, unhandled>>

Sti ==
  /\ pc = "sti"
  /\ pc' = "main"
  /\ interrupts' = TRUE
  /\ UNCHANGED <<mode, entry, fadt, cpu, ioapics, redtbl, handlers, lapic, irr, isr, sts, en, seen, unhandled>>

(* Any of the calls of ACPICA may fail. *)
BootFails ==
  /\ pc \in {"initialize_tables", "enable_subsystem", "global_event_handler", "enable_event"}
  /\ mode' = "panicked"
  /\ UNCHANGED <<boot, interrupts, lapic, irr, isr, sts, en, seen, unhandled>>

Boot ==
  \/ IdtInit \/ FirstPass \/ SecondPass \/ InitializeTables \/ EnableSubsystem
  \/ GlobalEventHandler \/ ApicEnable \/ EnableEvent \/ Sti \/ BootFails

-----------------------------------------------------------------------------
(* An interrupt is taken through an interrupt gate; isr_dispatch calls its *)
(* handler, or stays in a loop if there is none (for a vector that has no  *)
(* gate either, the loop is that of the general protection fault).         *)
Take(v) ==
  /\ pc # "idt_init" /\ interrupts /\ lapic /\ isr = 0
  /\ interrupts' = FALSE
  /\ IF v \in handlers
       THEN seen' = sts \cap en /\ UNCHANGED <<mode, unhandled>>
       ELSE mode' = "hung" /\ unhandled' = v /\ UNCHANGED seen
  /\ UNCHANGED <<boot, lapic, sts, en>>

Dispatch(v) ==
  /\ v \in irr
  /\ irr' = irr \ {v} /\ isr' = v
  /\ Take(v)

(* ACPICA clears an event it has found; the global event handler calls     *)
(* acpi_shutdown for the power button, which may fail.                     *)
Serve(event) ==
  /\ isr # 0 /\ event \in seen
  /\ seen' = seen \ {event}
  /\ sts' = sts \ {event}
  /\ mode' \in IF event = "power_button" THEN {"off", "panicked"} ELSE {mode}
  /\ UNCHANGED <<boot, interrupts, lapic, irr, isr, en, unhandled>>

(* Mutant: the interrupt is not acknowledged. *)
AckMissing ==
  /\ isr # 0 /\ seen = {}
  /\ interrupts' = TRUE
  /\ UNCHANGED <<boot, mode, lapic, irr, isr, sts, en, seen, unhandled>>

(* The handler is done: apic_ack and the return from the interrupt. *)
Ack ==
  /\ isr # 0 /\ seen = {}
  /\ isr' = 0
  /\ interrupts' = TRUE
  /\ UNCHANGED <<boot, mode, lapic, irr, sts, en, seen, unhandled>>

Handle == \E v \in irr : Dispatch(v)
Isr == Handle \/ (\E event \in Events : Serve(event)) \/ Ack

-----------------------------------------------------------------------------
(* The hardware.  A level-triggered line is sent until it is served, an    *)
(* edge-triggered one when it rises, if the local APIC is there to take it. *)
Line(s, e) == s \cap e # {}

SendLevel ==
  /\ redtbl[SCI] # Masked /\ redtbl[SCI].level /\ lapic
  /\ Line(sts, en)
  /\ isr # redtbl[SCI].vector /\ redtbl[SCI].vector \notin irr
  /\ irr' = irr \cup {redtbl[SCI].vector}
  /\ UNCHANGED <<boot, mode, interrupts, lapic, isr, sts, en, seen, unhandled>>

Signal(event) ==
  /\ event \notin sts
  /\ sts' = sts \cup {event}
  /\ irr' = IF /\ ~Line(sts, en) /\ Line(sts', en)
               /\ redtbl[SCI] # Masked /\ ~redtbl[SCI].level /\ lapic
              THEN irr \cup {redtbl[SCI].vector} ELSE irr
  /\ UNCHANGED <<boot, mode, interrupts, lapic, isr, en, seen, unhandled>>

(* pit_wait counts channel 0 down, and its output rises. *)
PitFires ==
  /\ irr' = IF redtbl[PitPin] # Masked /\ lapic
              THEN irr \cup {redtbl[PitPin].vector} ELSE irr
  /\ UNCHANGED <<boot, mode, interrupts, lapic, isr, sts, en, seen, unhandled>>

(* The local APIC finds an error, in a message it sends or receives. *)
ApicError ==
  /\ ApicEnabled
  /\ irr' = irr \cup {LVT_ERROR_INT}
  /\ UNCHANGED <<boot, mode, interrupts, lapic, isr, sts, en, seen, unhandled>>

(* The interrupt is gone when the processor asks for its vector: it gets   *)
(* the spurious one, which is never pending and never in service.          *)
Spurious ==
  /\ ApicEnabled
  /\ Take(SPURIOUS)
  /\ UNCHANGED <<irr, isr>>

Hardware ==
  \/ SendLevel \/ (\E event \in Events : Signal(event)) \/ PitFires
  \/ ApicError \/ Spurious

Next ==
  /\ mode = "running"
  /\ \/ isr = 0 /\ Boot
     \/ Isr
     \/ Hardware

(* The processor does not stop, and the IOAPIC sends what it must.  A      *)
(* pending interrupt is taken although the boot goes on (it ends).         *)
Spec == Init /\ [][Next]_vars
        /\ WF_vars(mode = "running" /\ isr = 0 /\ Boot)
        /\ WF_vars(mode = "running" /\ Isr)
        /\ WF_vars(mode = "running" /\ SendLevel)
-----------------------------------------------------------------------------
(* The vectors nobody registers a handler for: those of the local APIC's   *)
(* own interrupts, and what the firmware has left.                         *)
Stray == {LVT_ERROR_INT, SPURIOUS} \cup Leftover

(* No interrupt of a line the kernel routes is dispatched before it has a  *)
(* handler, or on a vector that never gets one (pit_wait raises a line     *)
(* that is not routed): isr_dispatch loops for a stray vector only, and    *)
(* not before sti.                                                         *)
DevicesHandled ==
  mode = "hung" => unhandled \in Stray \ {Vector(SCI)} /\ pc = "main"

(* isr_dispatch never loops: too strong, see DevicesHandled. *)
NoUnhandledInterrupt == mode # "hung"

(* Whenever the power button is pressed, during the boot or after it, the  *)
(* machine is shut down (or panics trying), also if other events arrive at *)
(* the same time, unless a stray interrupt stops it.                       *)
PowerButtonHandled ==
  "power_button" \in sts ~> mode \in {"off", "panicked"} \/ unhandled \in Stray

(* The comment in acpi_parse_madt: the SCI interrupt "is always active     *)
(* low, level triggered".                                                  *)
SciAsDocumented ==
  redtbl[SCI] # Masked => ~redtbl[SCI].active_high /\ redtbl[SCI].level
=============================================================================
