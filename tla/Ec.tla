---------------------------------- MODULE Ec ----------------------------------
(***************************************************************************)
(* The driver of the ACPI embedded controller, kernel/driver/acpi/ec.c,    *)
(* against a controller that takes its time.                               *)
(*                                                                         *)
(* A request is a sequence of calls and each of them straight-line code    *)
(* over port accesses and polls, so the driver is at an access of a call,  *)
(* and a step of it makes that access.  A poll that finds its event        *)
(* missing changes nothing and is not a step.  EC space is scaled:         *)
(* LastRegister stands for 0xFF.                                           *)
(***************************************************************************)
EXTENDS Integers, Sequences

CONSTANTS
  LastRegister,   \* 0xFF
  Bytes,          \* values of a register
  Bits,           \* widths ACPICA asks for
  Resources,      \* what _CRS lists: records of a type and a minimum
  DataPort, CommandPort   \* the ports the controller really has

Registers == 0 .. LastRegister
None == -1
Empty == [port |-> 0, byte |-> None]

ASSUME EcAssumption ==
  /\ LastRegister \in Nat /\ Bits \subseteq Nat
  /\ Bytes \subseteq Nat /\ Bytes # {}
  /\ {DataPort, CommandPort} \subseteq Nat \ {0} /\ DataPort # CommandPort

(* The firmware lists the data port first and the command port next, which *)
(* acpi_ec_io_ports relies on; whatever else it lists is not a port or     *)
(* comes behind them.                                                      *)
ASSUME ResourcesAssumption ==
  /\ Resources \in Seq([type : STRING, minimum : Nat])
  /\ \E d, c \in DOMAIN Resources :
       /\ d < c
       /\ Resources[d] = [type |-> "IO", minimum |-> DataPort]
       /\ Resources[c] = [type |-> "IO", minimum |-> CommandPort]
       /\ \A k \in 1 .. c - 1 : k # d => Resources[k].type # "IO"

VARIABLES
  data_io, command_io,  \* the ports the driver uses, 0 while unknown
  walked,               \* resources acpi_walk_resources has presented
  request,              \* the request being served
  call, access,         \* the call of it being made, 0 for none, and how far it is
  buf,                  \* bytes read so far
  status,               \* result of the last request
  input,                \* byte in the input buffer and its port, or Empty
  output,               \* byte in the output buffer, or None
  expects,              \* the controller: what it takes the next byte for
  burst,                \* the controller: burst mode
  ram                   \* the controller: its registers

driver == <<data_io, command_io, walked, request, call, access, buf, status>>
controller == <<input, output, expects, burst, ram>>
vars == <<driver, controller>>

NoRequest == [function |-> "none", address |-> 0, data |-> <<>>, before |-> <<>>]

Init ==
  /\ data_io = 0 /\ command_io = 0 /\ walked = 0
  /\ request = NoRequest /\ call = 0 /\ access = 1 /\ buf = <<>> /\ status = "AE_OK"
  /\ input = Empty /\ output = None
  /\ expects = [what |-> "command"]
  /\ burst = FALSE
  /\ ram \in [Registers -> {CHOOSE b \in Bytes : TRUE}]

-----------------------------------------------------------------------------
EC_COMMAND_READ == 128
EC_COMMAND_WRITE == 129
EC_BURST_ENABLE == 130
EC_BURST_DISABLE == 131

(* acpi_ec_poll_event, and the raw accesses. *)
PollEmpty == [op |-> "poll_empty"]
PollFull == [op |-> "poll_full"]
ReadData(use) == [op |-> "read", use |-> use]
WriteData(byte) == [op |-> "data", byte |-> byte]
WriteCommand(byte) == [op |-> "command", byte |-> byte]

(* Mutant: every command is taken to be answered with a byte. *)
EventFull(command) == PollFull

(* The event acpi_ec_command waits for after the command. *)
Event(command) == IF command = EC_BURST_ENABLE THEN PollFull ELSE PollEmpty

Command(command) == <<PollEmpty, WriteCommand(command), Event(command)>>

BurstEnable == Command(EC_BURST_ENABLE) \o <<ReadData("burst")>>
BurstDisable == Command(EC_BURST_DISABLE)

Read1(addr) == Command(EC_COMMAND_READ) \o <<WriteData(addr), PollFull, ReadData("buf")>>

Write1(addr, val) ==
  Command(EC_COMMAND_WRITE) \o <<WriteData(addr), PollEmpty, WriteData(val), PollEmpty>>

(* (addr + reg) & 0xFF *)
Wrapped(addr) == addr % (LastRegister + 1)

Read(addr, len) ==
  <<BurstEnable>> \o [i \in 1 .. len |-> Read1(Wrapped(addr + i - 1))] \o <<BurstDisable>>

(* Mutant: burst mode is left on. *)
WriteKeepsBurst(addr, data) ==
  <<BurstEnable>> \o [i \in 1 .. Len(data) |-> Write1(Wrapped(addr + i - 1), data[i])]

Write(addr, data) ==
  <<BurstEnable>> \o [i \in 1 .. Len(data) |-> Write1(Wrapped(addr + i - 1), data[i])]
                  \o <<BurstDisable>>

(* The calls a request leads to, and the access that is next. *)
Calls ==
  IF request.function = "ACPI_READ" THEN Read(request.address, Len(request.data))
                                    ELSE Write(request.address, request.data)
This == Calls[call][access]

(* The next access of the call, the next call, or the return of the        *)
(* handler.                                                                *)
GoOn ==
  IF access < Len(Calls[call]) THEN access' = access + 1 /\ UNCHANGED call
  ELSE access' = 1 /\ call' = IF call < Len(Calls) THEN call + 1 ELSE 0

(* acpi_ec_io_ports, called for each resource until it stops the walk. *)
IoPorts ==
  /\ walked < Len(Resources)
  /\ LET r == Resources[walked + 1]
         full == r.type = "IO" /\ data_io # 0 /\ command_io # 0
     IN /\ data_io' = IF r.type = "IO" /\ data_io = 0 THEN r.minimum ELSE data_io
        /\ command_io' = IF r.type = "IO" /\ data_io # 0 /\ command_io = 0
                           THEN r.minimum ELSE command_io
        /\ walked' = IF full THEN Len(Resources) ELSE walked + 1
  /\ UNCHANGED <<request, call, access, buf, status, controller>>

Installed == walked = Len(Resources)
Idle == call = 0

(* Mutant: only the first register is checked. *)
BadAddressFirst(address, bits) == address > LastRegister

(* address + (bits >> 3) > 0xFF *)
BadAddress(address, bits) == address + bits \div 8 > LastRegister

(* acpi_ec_handler up to the first port access. *)
Handler(function, address, bits) ==
  /\ Installed /\ Idle /\ status # "panic"
  /\ buf' = <<>>
  /\ IF function \notin {"ACPI_READ", "ACPI_WRITE"}
       THEN status' = "AE_BAD_PARAMETER" /\ UNCHANGED <<request, call>>
     ELSE IF BadAddress(address, bits)
       THEN status' = "AE_BAD_ADDRESS" /\ UNCHANGED <<request, call>>
     ELSE IF bits % 8 # 0
       THEN status' = "AE_BAD_PARAMETER" /\ UNCHANGED <<request, call>>
     ELSE \E data \in [1 .. bits \div 8 -> Bytes] :
            /\ status' = "AE_OK"
            /\ request' = [function |-> function, address |-> address,
                           data |-> data, before |-> ram]
            /\ call' = 1
  /\ UNCHANGED <<data_io, command_io, walked, access, controller>>

(* A poll reads the status register and goes on if it shows the event. *)
Poll ==
  /\ ~Idle
  /\ \/ This.op = "poll_empty" /\ input = Empty
     \/ This.op = "poll_full" /\ output # None
  /\ GoOn
  /\ UNCHANGED <<data_io, command_io, walked, request, buf, status, controller>>

(* outb: the byte replaces whatever the input buffer holds. *)
Out ==
  /\ ~Idle
  /\ This.op \in {"data", "command"}
  /\ input' = [port |-> IF This.op = "data" THEN data_io ELSE command_io,
               byte |-> This.byte]
  /\ GoOn
  /\ UNCHANGED <<data_io, command_io, walked, request, buf, status,
                 output, expects, burst, ram>>

(* inb of the data register; acpi_ec_burst_enable tests bit 4 of its byte. *)
In ==
  /\ ~Idle
  /\ This.op = "read"
  /\ \/ /\ This.use = "buf"
        /\ buf' = Append(buf, output)
        /\ GoOn /\ UNCHANGED status
     \/ /\ This.use = "burst" /\ (output \div 16) % 2 = 1
        /\ GoOn /\ UNCHANGED <<buf, status>>
     \/ /\ This.use = "burst" /\ (output \div 16) % 2 # 1
        /\ call' = 0 /\ access' = 1 /\ status' = "panic" /\ UNCHANGED buf
  /\ output' = None
  /\ UNCHANGED <<data_io, command_io, walked, request, input, expects, burst, ram>>

Driver == Poll \/ Out \/ In

-----------------------------------------------------------------------------
(* The controller, external.  It takes a byte from its input buffer and    *)
(* acts on it; it may refuse burst mode, and leave it when it likes.       *)
BurstAck == 144
TakeCommand ==
  /\ input # Empty /\ input.port = CommandPort
  /\ \/ /\ input.byte \in {EC_COMMAND_READ, EC_COMMAND_WRITE}
        /\ expects' = [what |-> IF input.byte = EC_COMMAND_READ THEN "read_address"
                                                                ELSE "write_address"]
        /\ UNCHANGED <<output, burst>>
     \/ /\ input.byte = EC_BURST_ENABLE
        /\ burst' \in BOOLEAN
        /\ output' = IF burst' THEN BurstAck ELSE 0
        /\ UNCHANGED expects
     \/ /\ input.byte = EC_BURST_DISABLE
        /\ burst' = FALSE
        /\ UNCHANGED <<expects, output>>
  /\ input' = Empty
  /\ UNCHANGED <<driver, ram>>

TakeData ==
  /\ input # Empty /\ input.port = DataPort
  /\ \/ /\ expects.what = "read_address"
        /\ output' = ram[input.byte] /\ expects' = [what |-> "command"]
        /\ UNCHANGED ram
     \/ /\ expects.what = "write_address"
        /\ expects' = [what |-> "value", address |-> input.byte]
        /\ UNCHANGED <<output, ram>>
     \/ /\ expects.what = "value"
        /\ ram' = [ram EXCEPT ![expects.address] = input.byte]
        /\ expects' = [what |-> "command"]
        /\ UNCHANGED output
  /\ input' = Empty
  /\ UNCHANGED <<driver, burst>>

LeaveBurst ==
  /\ burst
  /\ burst' = FALSE
  /\ UNCHANGED <<driver, input, output, expects, ram>>

Take == TakeCommand \/ TakeData

Functions == {"ACPI_READ", "ACPI_WRITE", "other"}

Next ==
  \/ IoPorts
  \/ \E f \in Functions, a \in Registers, b \in Bits : Handler(f, a, b)
  \/ Driver
  \/ Take
  \/ LeaveBurst

(* The driver polls for ever, and the controller answers. *)
Spec == Init /\ [][Next]_vars /\ WF_vars(Driver) /\ WF_vars(Take)
-----------------------------------------------------------------------------
(* A request that ends well has done what was asked: a read returns the    *)
(* bytes of consecutive registers from the address on and changes none, a  *)
(* write changes exactly those.  Neither wraps around the end of EC space. *)
RequestExact ==
  Idle /\ status = "AE_OK" /\ request.function # "none" =>
    LET Addressed(r) == r - request.address + 1 \in DOMAIN request.data
    IN /\ request.function = "ACPI_READ" =>
            /\ \A i \in DOMAIN request.data :
                 request.address + i - 1 \in Registers /\ buf[i] = ram[request.address + i - 1]
            /\ ram = request.before
       /\ request.function = "ACPI_WRITE" =>
            \A r \in Registers :
              ram[r] = IF Addressed(r) THEN request.data[r - request.address + 1]
                                       ELSE request.before[r]

(* Between requests the controller is left as it was found: no byte in     *)
(* either buffer, no half-given command, burst mode off.                   *)
QuietWhenIdle ==
  Idle /\ status # "panic" =>
    input = Empty /\ output = None /\ expects.what = "command" /\ ~burst

(* Every request comes to an end. *)
RequestEnds == ~Idle ~> Idle
=============================================================================
