------------------------------ MODULE EcProofs ------------------------------
(***************************************************************************)
(* Proofs about the driver of the embedded controller, for every size of   *)
(* EC space, every width of a request, every content and whatever else the *)
(* firmware lists: what a request does, and how it leaves the controller.  *)
(***************************************************************************)
EXTENDS Ec, SequenceTheorems, TLAPS

Reading == request.function = "ACPI_READ"
Count == Len(request.data)

(* The register call c of a request is about, and the registers done when  *)
(* call c begins.                                                          *)
Reg(c) == request.address + c - 2
Done(c) == IF c <= 2 THEN 0 ELSE c - 2

Sent(port, byte) == [port |-> port, byte |-> byte]
ForCommand == [what |-> "command"]
Quiet == input = Empty /\ output = None /\ expects = ForCommand

(* EC space with the first k bytes of a write in it. *)
Stored(k) ==
  [r \in Registers |-> IF r - request.address + 1 \in 1 .. k
                         THEN request.data[r - request.address + 1]
                         ELSE request.before[r]]
-----------------------------------------------------------------------------
(* The inductive invariant: where the walk over the resources has got to,  *)
(* and for each access of each call what the controller may be doing.      *)

(* Before resource k the walk has found as many ports as there are. *)
PortsFound ==
  /\ walked \in 0 .. Len(Resources)
  /\ \E d, c \in DOMAIN Resources :
       /\ d < c
       /\ Resources[d] = [type |-> "IO", minimum |-> DataPort]
       /\ Resources[c] = [type |-> "IO", minimum |-> CommandPort]
       /\ \A k \in 1 .. c - 1 : k # d => Resources[k].type # "IO"
       /\ data_io = IF walked < d THEN 0 ELSE DataPort
       /\ command_io = IF walked < c THEN 0 ELSE CommandPort

AcceptedRequests ==
  {r \in [function : {"ACPI_READ", "ACPI_WRITE"}, address : Registers,
          data : Seq(Bytes), before : [Registers -> Bytes]] :
     r.address + Len(r.data) <= LastRegister}

EcTypes ==
  /\ request \in {NoRequest} \cup AcceptedRequests
  /\ call \in Nat /\ access \in Nat
  /\ buf \in Seq(Int) /\ output \in Int
  /\ burst \in BOOLEAN
  /\ ram \in [Registers -> Bytes]

(* acpi_ec_burst_enable *)
Enabling ==
  /\ access \in 1 .. 4 /\ expects = ForCommand
  /\ access <= 2 => Quiet
  /\ access = 3 => \/ input = Sent(CommandPort, EC_BURST_ENABLE) /\ output = None
                   \/ input = Empty /\ output \in {BurstAck, 0}
  /\ access = 4 => input = Empty /\ output \in {BurstAck, 0}

(* acpi_ec_read_1 of register r *)
Reading1(r) ==
  /\ access \in 1 .. 6
  /\ access <= 2 => Quiet
  /\ access = 3 => /\ output = None
                   /\ \/ input = Sent(CommandPort, EC_COMMAND_READ) /\ expects = ForCommand
                      \/ input = Empty /\ expects = [what |-> "read_address"]
  /\ access = 4 => input = Empty /\ output = None /\ expects = [what |-> "read_address"]
  /\ access = 5 => \/ /\ input = Sent(DataPort, r) /\ output = None
                      /\ expects = [what |-> "read_address"]
                   \/ input = Empty /\ output = ram[r] /\ expects = ForCommand
  /\ access = 6 => input = Empty /\ output = ram[r] /\ expects = ForCommand

(* acpi_ec_write_1 of v to register r *)
Writing1(r, v) ==
  /\ access \in 1 .. 7 /\ output = None
  /\ access <= 2 => Quiet
  /\ access = 3 => \/ input = Sent(CommandPort, EC_COMMAND_WRITE) /\ expects = ForCommand
                   \/ input = Empty /\ expects = [what |-> "write_address"]
  /\ access = 4 => input = Empty /\ expects = [what |-> "write_address"]
  /\ access = 5 => \/ input = Sent(DataPort, r) /\ expects = [what |-> "write_address"]
                   \/ input = Empty /\ expects = [what |-> "value", address |-> r]
  /\ access = 6 => input = Empty /\ expects = [what |-> "value", address |-> r]
  /\ access = 7 => \/ input = Sent(DataPort, v) /\ expects = [what |-> "value", address |-> r]
                   \/ input = Empty /\ expects = ForCommand

(* acpi_ec_burst_disable *)
Disabling ==
  /\ access \in 1 .. 3 /\ output = None /\ expects = ForCommand
  /\ access <= 2 => Quiet
  /\ access = 3 => \/ input = Sent(CommandPort, EC_BURST_DISABLE)
                   \/ input = Empty /\ ~burst

(* Where the controller is in the conversation. *)
InStep ==
  /\ call = 1 => Enabling
  /\ call \in 2 .. Count + 1 =>
       IF Reading THEN Reading1(Reg(call)) ELSE Writing1(Reg(call), request.data[call - 1])
  /\ call = Count + 2 => Disabling

(* What has been read or written so far. *)
ReadSoFar ==
  /\ ram = request.before
  /\ Len(buf) = Done(call)
  /\ \A i \in 1 .. Done(call) : buf[i] = ram[request.address + i - 1]

Landed == call \in 2 .. Count + 1 /\ access = 7 /\ input = Empty
WrittenSoFar == ram = Stored(IF Landed THEN Done(call) + 1 ELSE Done(call))

Serving ==
  /\ Installed /\ status = "AE_OK"
  /\ request \in AcceptedRequests /\ call \in 1 .. Count + 2
  /\ InStep
  /\ IF Reading THEN ReadSoFar ELSE WrittenSoFar

Resting == access = 1 /\ input = Empty /\ (status # "panic" => Quiet /\ ~burst)

EcInv ==
  /\ EcTypes /\ PortsFound
  /\ Idle => Resting /\ RequestExact
  /\ ~Idle => Serving
-----------------------------------------------------------------------------
(* A concatenation, element by element. *)
LEMMA ConcatFacts ==
  ASSUME NEW S, NEW s \in Seq(S), NEW t \in Seq(S)
  PROVE  /\ s \o t \in Seq(S) /\ Len(s \o t) = Len(s) + Len(t)
         /\ \A i \in 1 .. Len(s) + Len(t) :
              (s \o t)[i] = IF i <= Len(s) THEN s[i] ELSE t[i - Len(s)]
  OBVIOUS

(* The accesses of acpi_ec_burst_enable. *)
LEMMA EnableShape ==
  /\ Len(BurstEnable) = 4
  /\ BurstEnable[1] = PollEmpty
  /\ BurstEnable[2] = WriteCommand(EC_BURST_ENABLE)
  /\ BurstEnable[3] = PollFull
  /\ BurstEnable[4] = ReadData("burst")
<1>1. Event(EC_BURST_ENABLE) = PollFull
  BY DEF Event
<1>2. QED
  BY <1>1 DEF BurstEnable, Command

(* The accesses of acpi_ec_burst_disable. *)
LEMMA DisableShape ==
  /\ Len(BurstDisable) = 3
  /\ BurstDisable[1] = PollEmpty
  /\ BurstDisable[2] = WriteCommand(EC_BURST_DISABLE)
  /\ BurstDisable[3] = PollEmpty
<1>1. Event(EC_BURST_DISABLE) = PollEmpty
  BY DEF Event, EC_BURST_ENABLE, EC_BURST_DISABLE
<1>2. QED
  BY <1>1 DEF BurstDisable, Command

(* The accesses of acpi_ec_read_1. *)
LEMMA ReadShape ==
  ASSUME NEW r
  PROVE  /\ Len(Read1(r)) = 6
         /\ Read1(r)[1] = PollEmpty
         /\ Read1(r)[2] = WriteCommand(EC_COMMAND_READ)
         /\ Read1(r)[3] = PollEmpty
         /\ Read1(r)[4] = WriteData(r)
         /\ Read1(r)[5] = PollFull
         /\ Read1(r)[6] = ReadData("buf")
<1>1. Event(EC_COMMAND_READ) = PollEmpty
  BY DEF Event, EC_BURST_ENABLE, EC_COMMAND_READ
<1>2. QED
  BY <1>1 DEF Read1, Command

(* The accesses of acpi_ec_write_1. *)
LEMMA WriteShape ==
  ASSUME NEW r, NEW v
  PROVE  /\ Len(Write1(r, v)) = 7
         /\ Write1(r, v)[1] = PollEmpty
         /\ Write1(r, v)[2] = WriteCommand(EC_COMMAND_WRITE)
         /\ Write1(r, v)[3] = PollEmpty
         /\ Write1(r, v)[4] = WriteData(r)
         /\ Write1(r, v)[5] = PollEmpty
         /\ Write1(r, v)[6] = WriteData(v)
         /\ Write1(r, v)[7] = PollEmpty
<1>1. Event(EC_COMMAND_WRITE) = PollEmpty
  BY DEF Event, EC_BURST_ENABLE, EC_COMMAND_WRITE
<1>2. QED
  BY <1>1 DEF Write1, Command

(* A value is its own remainder by anything larger. *)
LEMMA WrapFacts ==
  ASSUME NEW r \in Registers
  PROVE  Wrapped(r) = r
  BY EcAssumption DEF Wrapped, Registers

(* What a list of calls between two others is made of. *)
LEMMA BetweenFacts ==
  ASSUME NEW a, NEW b, NEW n \in Nat, NEW f, f = [i \in 1 .. n |-> f[i]]
  PROVE  LET s == <<a>> \o f \o <<b>>
         IN /\ Len(s) = n + 2 /\ s[1] = a /\ s[n + 2] = b
            /\ \A i \in 1 .. n : s[i + 1] = f[i]
<1> DEFINE S == {a, b} \cup {f[i] : i \in 1 .. n}
<1>1. f \in [1 .. n -> S]
  OBVIOUS
<1>2. <<a>> \in Seq(S) /\ <<b>> \in Seq(S) /\ f \in Seq(S) /\ Len(f) = n
  BY <1>1
<1> HIDE DEF S
<1>3. /\ <<a>> \o f \in Seq(S) /\ Len(<<a>> \o f) = n + 1
      /\ \A i \in 1 .. n + 1 : (<<a>> \o f)[i] = IF i <= 1 THEN a ELSE f[i - 1]
  BY <1>2
<1> DEFINE g == <<a>> \o f
<1> HIDE DEF g
<1>4. /\ Len(g \o <<b>>) = n + 2
      /\ \A i \in 1 .. n + 2 : (g \o <<b>>)[i] = IF i <= n + 1 THEN g[i] ELSE b
  BY <1>2, <1>3, ConcatFacts DEF g
<1>5. g[1] = a /\ \A i \in 1 .. n : g[i + 1] = f[i]
  BY <1>3 DEF g
<1>6. /\ (g \o <<b>>)[1] = g[1] /\ (g \o <<b>>)[n + 2] = b
      /\ \A i \in 1 .. n : (g \o <<b>>)[i + 1] = g[i + 1]
  BY <1>4
<1>7. QED
  BY <1>4, <1>5, <1>6 DEF g

(* The calls of acpi_ec_read and acpi_ec_write. *)
LEMMA CallFacts ==
  ASSUME request \in AcceptedRequests
  PROVE  /\ Count \in Nat /\ Len(Calls) = Count + 2
         /\ Calls[1] = BurstEnable /\ Calls[Count + 2] = BurstDisable
         /\ \A c \in 2 .. Count + 1 :
              /\ Reg(c) \in Registers
              /\ Calls[c] = IF Reading THEN Read1(Reg(c)) ELSE Write1(Reg(c), request.data[c - 1])
<1>1. /\ Count \in Nat /\ request.address \in Nat /\ request.data \in Seq(Bytes)
      /\ request.address + Count <= LastRegister /\ LastRegister \in Nat
  BY EcAssumption DEF AcceptedRequests, Registers, Count
<1>2. \A c \in 2 .. Count + 1 :
        /\ Reg(c) \in Registers
        /\ request.address + (c - 1) - 1 = Reg(c)
        /\ Wrapped(request.address + (c - 1) - 1) = Reg(c)
  <2> TAKE c \in 2 .. Count + 1
  <2>1. Reg(c) \in Registers /\ request.address + (c - 1) - 1 = Reg(c)
    BY <1>1 DEF Reg, Registers
  <2>2. QED
    BY <2>1, WrapFacts
<1>3. CASE Reading
  <2> DEFINE f == [i \in 1 .. Count |-> Read1(Wrapped(request.address + i - 1))]
  <2>1. Calls = <<BurstEnable>> \o f \o <<BurstDisable>>
    BY <1>3 DEF Calls, Reading, Read, Count
  <2>2. f = [i \in 1 .. Count |-> f[i]]
    OBVIOUS
  <2>3. \A c \in 2 .. Count + 1 : c - 1 \in 1 .. Count /\ (c - 1) + 1 = c /\ f[c - 1] = Read1(Reg(c))
    BY <1>1, <1>2
  <2> HIDE DEF f
  <2>4. /\ Len(Calls) = Count + 2 /\ Calls[1] = BurstEnable /\ Calls[Count + 2] = BurstDisable
        /\ \A i \in 1 .. Count : Calls[i + 1] = f[i]
    BY <1>1, <2>1, <2>2, BetweenFacts
  <2>5. \A c \in 2 .. Count + 1 : Calls[c] = Read1(Reg(c))
    BY <2>3, <2>4
  <2>6. QED
    BY <1>1, <1>2, <1>3, <2>4, <2>5
<1>4. CASE ~Reading
  <2> DEFINE f == [i \in 1 .. Count |->
                     Write1(Wrapped(request.address + i - 1), request.data[i])]
  <2>1. Calls = <<BurstEnable>> \o f \o <<BurstDisable>>
    BY <1>4 DEF Calls, Reading, Write, Count
  <2>2. f = [i \in 1 .. Count |-> f[i]]
    OBVIOUS
  <2>3. \A c \in 2 .. Count + 1 : /\ c - 1 \in 1 .. Count /\ (c - 1) + 1 = c
                                  /\ f[c - 1] = Write1(Reg(c), request.data[c - 1])
    BY <1>1, <1>2
  <2> HIDE DEF f
  <2>4. /\ Len(Calls) = Count + 2 /\ Calls[1] = BurstEnable /\ Calls[Count + 2] = BurstDisable
        /\ \A i \in 1 .. Count : Calls[i + 1] = f[i]
    BY <1>1, <2>1, <2>2, BetweenFacts
  <2>5. \A c \in 2 .. Count + 1 : Calls[c] = Write1(Reg(c), request.data[c - 1])
    BY <2>3, <2>4
  <2>6. QED
    BY <1>1, <1>2, <1>4, <2>4, <2>5
<1>5. QED
  BY <1>3, <1>4
-----------------------------------------------------------------------------
(* With the handler installed the driver knows both ports. *)
LEMMA PortsKnown ==
  ASSUME PortsFound, Installed
  PROVE  data_io = DataPort /\ command_io = CommandPort
  BY ResourcesAssumption DEF PortsFound, Installed

Kept == <<data_io, command_io, walked, request, status>>

(* What a step of the driver does, by the access it makes: a poll that     *)
(* ends,                                                                   *)
LEMMA AtPollEmpty ==
  ASSUME Driver, This = PollEmpty
  PROVE  input = Empty /\ GoOn /\ UNCHANGED <<Kept, buf, controller>>
  BY DEF Driver, Poll, Out, In, PollEmpty, Kept

LEMMA AtPollFull ==
  ASSUME Driver, This = PollFull
  PROVE  output # None /\ GoOn /\ UNCHANGED <<Kept, buf, controller>>
  BY DEF Driver, Poll, Out, In, PollFull, Kept

(* a command,                                                              *)
LEMMA AtCommand ==
  ASSUME Driver, NEW b, This = WriteCommand(b)
  PROVE  /\ input' = Sent(command_io, b) /\ GoOn
         /\ UNCHANGED <<Kept, buf, output, expects, burst, ram>>
  BY DEF Driver, Poll, Out, In, WriteCommand, Kept, Sent

(* a byte of data,                                                         *)
LEMMA AtData ==
  ASSUME Driver, NEW b, This = WriteData(b)
  PROVE  /\ input' = Sent(data_io, b) /\ GoOn
         /\ UNCHANGED <<Kept, buf, output, expects, burst, ram>>
  BY DEF Driver, Poll, Out, In, WriteData, Kept, Sent

(* a byte read for the caller,                                             *)
LEMMA AtReadBuf ==
  ASSUME Driver, This = ReadData("buf")
  PROVE  /\ buf' = Append(buf, output) /\ output' = None /\ GoOn
         /\ UNCHANGED <<Kept, input, expects, burst, ram>>
  BY DEF Driver, Poll, Out, In, ReadData, Kept

(* or the answer to burst enable.                                          *)
LEMMA AtReadBurst ==
  ASSUME Driver, This = ReadData("burst")
  PROVE  /\ output' = None
         /\ UNCHANGED <<data_io, command_io, walked, request, buf, input, expects, burst, ram>>
         /\ \/ (output \div 16) % 2 = 1 /\ GoOn /\ UNCHANGED status
            \/ (output \div 16) % 2 # 1 /\ call' = 0 /\ access' = 1 /\ status' = "panic"
  BY DEF Driver, Poll, Out, In, ReadData

(* A buffer with a byte in it is not empty. *)
LEMMA SentFacts ==
  ASSUME NEW b
  PROVE  Sent(CommandPort, b) # Empty /\ Sent(DataPort, b) # Empty
  BY EcAssumption DEF Sent, Empty

(* The registers done, call by call. *)
LEMMA DoneFacts ==
  ASSUME request \in AcceptedRequests, NEW c \in 2 .. Count + 1
  PROVE  /\ Done(c) = c - 2 /\ Done(c + 1) = Done(c) + 1 /\ Done(c) \in 0 .. Count - 1
         /\ Reg(c) = request.address + Done(c) /\ c - 1 = Done(c) + 1
         /\ request.address \in Nat /\ Count \in Nat
<1>1. request.address \in Nat /\ Count \in Nat
  BY CallFacts, EcAssumption DEF AcceptedRequests, Registers
<1>2. c \in Nat /\ c >= 2 /\ c <= Count + 1
  BY <1>1
<1>3. QED
  BY <1>1, <1>2 DEF Done, Reg

(* A driver in the middle of a request, after a step that keeps to it. *)
LEMMA StillServing ==
  ASSUME EcInv, ~Idle, UNCHANGED Kept, EcTypes', call' \in 1 .. Count + 2,
         InStep', IF Reading THEN ReadSoFar' ELSE WrittenSoFar'
  PROVE  EcInv'
<1>1. PortsFound'
  BY DEF EcInv, PortsFound, Kept
<1>2. /\ Installed' /\ status' = "AE_OK" /\ request' \in AcceptedRequests
      /\ request' = request
  BY DEF EcInv, Serving, Installed, Kept
<1>3. call' \in 1 .. Count' + 2 /\ (IF Reading' THEN ReadSoFar' ELSE WrittenSoFar')
  BY <1>2 DEF Count, Reading
<1>4. Serving'
  BY <1>2, <1>3 DEF Serving
<1>5. ~Idle'
  BY <1>2, CallFacts DEF Idle, EcInv, Serving
<1>6. QED
  BY <1>1, <1>4, <1>5 DEF EcInv

(* The next call finds the controller quiet. *)
LEMMA NextCall ==
  ASSUME request \in AcceptedRequests, request' = request, Quiet', access' = 1,
         call' \in 2 .. Count + 2
  PROVE  InStep'
  BY CallFacts DEF InStep, Enabling, Reading1, Writing1, Disabling, Quiet, Count

(* What is known while a request is served. *)
LEMMA ServingFacts ==
  ASSUME EcInv, ~Idle
  PROVE  /\ request \in AcceptedRequests /\ Count \in Nat /\ call \in 1 .. Count + 2
         /\ InStep /\ (IF Reading THEN ReadSoFar ELSE WrittenSoFar) /\ EcTypes
         /\ data_io = DataPort /\ command_io = CommandPort
         /\ DataPort # 0 /\ CommandPort # 0 /\ DataPort # CommandPort
         /\ This = Calls[call][access] /\ Len(Calls) = Count + 2
  BY CallFacts, PortsKnown, EcAssumption DEF EcInv, Serving, This

(* A step inside acpi_ec_burst_enable. *)
LEMMA DriverEnable ==
  ASSUME EcInv, call = 1, Driver
  PROVE  EcInv'
<1>1. ~Idle
  BY DEF Idle
<1>2. Calls[call] = BurstEnable /\ Len(Calls[call]) = 4 /\ Enabling
  BY <1>1, ServingFacts, CallFacts, EnableShape DEF InStep
<1>3. CASE access \in 1 .. 3
  <2>1. /\ access' = access + 1 /\ call' = call /\ UNCHANGED <<Kept, buf, ram, burst, expects>>
        /\ output' = output
        /\ access = 1 => input = Empty /\ input' = input
        /\ access = 2 => input' = Sent(CommandPort, EC_BURST_ENABLE)
        /\ access = 3 => output # None /\ input' = input
    <3>1. CASE access = 1
      <4>1. This = PollEmpty
        BY <1>1, <1>2, <3>1, ServingFacts, EnableShape
      <4>2. QED
        BY <1>2, <3>1, <4>1, AtPollEmpty DEF GoOn, controller
    <3>2. CASE access = 2
      <4>1. This = WriteCommand(EC_BURST_ENABLE)
        BY <1>1, <1>2, <3>2, ServingFacts, EnableShape
      <4>2. QED
        BY <1>1, <1>2, <3>2, <4>1, AtCommand, ServingFacts DEF GoOn
    <3>3. CASE access = 3
      <4>1. This = PollFull
        BY <1>1, <1>2, <3>3, ServingFacts, EnableShape
      <4>2. QED
        BY <1>2, <3>3, <4>1, AtPollFull DEF GoOn, controller
    <3>4. QED
      BY <1>3, <3>1, <3>2, <3>3
  <2>2. InStep'
    <3>1. Enabling'
      BY <1>2, <1>3, <2>1 DEF Enabling, Quiet
    <3>2. QED
      BY <1>1, <2>1, <3>1, ServingFacts DEF InStep, Count, Kept
  <2>3. EcTypes'
    BY <1>1, <2>1, ServingFacts DEF EcTypes, Kept
  <2>4. IF Reading THEN ReadSoFar' ELSE WrittenSoFar'
    BY <1>1, <2>1, ServingFacts DEF ReadSoFar, WrittenSoFar, Landed, Stored, Kept
  <2>5. QED
    BY <1>1, <2>1, <2>2, <2>3, <2>4, ServingFacts, StillServing
<1>4. CASE access = 4
  <2>1. This = ReadData("burst")
    BY <1>1, <1>2, <1>4, ServingFacts, EnableShape
  <2>2. output = BurstAck \/ output = 0
    BY <1>2, <1>4 DEF Enabling
  <2>3. CASE output = BurstAck
    <3>1. (output \div 16) % 2 = 1
      BY <2>3 DEF BurstAck
    <3>2. /\ output' = None /\ GoOn
          /\ UNCHANGED <<Kept, buf, input, expects, burst, ram>>
      BY <2>1, <3>1, AtReadBurst DEF Kept
    <3>3. access' = 1 /\ call' = 2
      BY <1>1, <1>2, <1>4, <3>2, ServingFacts DEF GoOn
    <3>4. Quiet'
      BY <1>2, <1>4, <3>2 DEF Enabling, Quiet
    <3>5. InStep'
      BY <1>1, <3>2, <3>3, <3>4, ServingFacts, NextCall DEF Kept
    <3>6. EcTypes'
      BY <1>1, <3>2, <3>3, ServingFacts DEF EcTypes, Kept, None
    <3>7. IF Reading THEN ReadSoFar' ELSE WrittenSoFar'
      BY <1>1, <3>2, <3>3, ServingFacts DEF ReadSoFar, WrittenSoFar, Landed, Stored, Kept, Done
    <3>8. QED
      BY <1>1, <3>2, <3>3, <3>5, <3>6, <3>7, ServingFacts, StillServing
  <2>4. CASE output = 0
    <3>1. (output \div 16) % 2 # 1
      BY <2>4
    <3>2. /\ output' = None /\ call' = 0 /\ access' = 1 /\ status' = "panic"
          /\ UNCHANGED <<data_io, command_io, walked, request, buf, input, expects, burst, ram>>
      BY <2>1, <3>1, AtReadBurst
    <3>3. EcTypes' /\ PortsFound'
      <4>1. EcTypes'
        BY <1>1, <3>2, ServingFacts DEF EcTypes, None
      <4>2. PortsFound'
        BY <3>2 DEF EcInv, PortsFound
      <4>3. QED
        BY <4>1, <4>2
    <3>4. Idle' /\ Resting' /\ RequestExact'
      BY <1>2, <1>4, <3>2 DEF Idle, Resting, RequestExact, Enabling
    <3>5. QED
      BY <3>3, <3>4 DEF EcInv
  <2>5. QED
    BY <2>2, <2>3, <2>4
<1>5. QED
  BY <1>2, <1>3, <1>4 DEF Enabling

(* A step inside acpi_ec_read_1. *)
LEMMA DriverRead ==
  ASSUME EcInv, Reading, call \in 2 .. Count + 1, Driver
  PROVE  EcInv'
<1>1. ~Idle
  BY DEF Idle
<1>2. PICK r \in Registers :
        r = Reg(call) /\ Calls[call] = Read1(r) /\ Len(Calls[call]) = 6 /\ Reading1(r)
  BY <1>1, ServingFacts, CallFacts, ReadShape DEF InStep
<1>3. ReadSoFar
  BY <1>1, ServingFacts
<1>4. CASE access \in 1 .. 5
  <2>1. /\ access' = access + 1 /\ call' = call
        /\ UNCHANGED <<Kept, buf, ram, burst, expects, output>>
        /\ access \in {1, 3} => input = Empty /\ input' = input
        /\ access = 2 => input' = Sent(CommandPort, EC_COMMAND_READ)
        /\ access = 4 => input' = Sent(DataPort, r)
        /\ access = 5 => output # None /\ input' = input
    <3>1. CASE access \in {1, 3}
      <4>1. This = PollEmpty
        BY <1>1, <1>2, <3>1, ServingFacts, ReadShape
      <4>2. QED
        BY <1>2, <3>1, <4>1, AtPollEmpty DEF GoOn, controller
    <3>2. CASE access = 2
      <4>1. This = WriteCommand(EC_COMMAND_READ)
        BY <1>1, <1>2, <3>2, ServingFacts, ReadShape
      <4>2. QED
        BY <1>1, <1>2, <3>2, <4>1, AtCommand, ServingFacts DEF GoOn
    <3>3. CASE access = 4
      <4>1. This = WriteData(r)
        BY <1>1, <1>2, <3>3, ServingFacts, ReadShape
      <4>2. QED
        BY <1>1, <1>2, <3>3, <4>1, AtData, ServingFacts DEF GoOn
    <3>4. CASE access = 5
      <4>1. This = PollFull
        BY <1>1, <1>2, <3>4, ServingFacts, ReadShape
      <4>2. QED
        BY <1>2, <3>4, <4>1, AtPollFull DEF GoOn, controller
    <3>5. QED
      BY <1>4, <3>1, <3>2, <3>3, <3>4
  <2>2. r = Reg(call)' /\ request' = request
    BY <1>2, <2>1 DEF Reg, Kept
  <2>3. InStep'
    <3>1. Reading1(r)'
      BY <1>2, <1>4, <2>1, SentFacts DEF Reading1, Quiet
    <3>2. QED
      BY <1>1, <2>1, <2>2, <3>1, ServingFacts DEF InStep, Count, Reading
  <2>4. EcTypes'
    BY <1>1, <2>1, ServingFacts DEF EcTypes, Kept
  <2>5. ReadSoFar'
    BY <1>3, <2>1 DEF ReadSoFar, Kept
  <2>6. QED
    BY <1>1, <2>1, <2>3, <2>4, <2>5, ServingFacts, StillServing
<1>5. CASE access = 6
  <2>1. This = ReadData("buf")
    BY <1>1, <1>2, <1>5, ServingFacts, ReadShape
  <2>2. /\ buf' = Append(buf, output) /\ output' = None /\ GoOn
        /\ UNCHANGED <<Kept, input, expects, burst, ram>>
    BY <2>1, AtReadBuf
  <2>3. access' = 1 /\ call' = call + 1
    BY <1>1, <1>2, <1>5, <2>2, ServingFacts DEF GoOn
  <2>4. input = Empty /\ expects = ForCommand /\ output = ram[r]
    BY <1>2, <1>5 DEF Reading1
  <2>5. InStep'
    BY <1>1, <2>2, <2>3, <2>4, ServingFacts, NextCall DEF Kept, Quiet
  <2>6. EcTypes'
    BY <1>1, <2>2, <2>3, ServingFacts DEF EcTypes, Kept, None
  <2>7. ReadSoFar'
    <3>1. /\ Done(call) \in Nat /\ Done(call') = Done(call) + 1
          /\ r = request.address + (Done(call) + 1) - 1
      <4>1. /\ Done(call + 1) = Done(call) + 1 /\ Done(call) \in 0 .. Count - 1
            /\ r = request.address + Done(call) /\ request.address \in Nat /\ Count \in Nat
        BY <1>1, <1>2, ServingFacts, DoneFacts
      <4>2. QED
        BY <2>3, <4>1
    <3>2. buf \in Seq(Int) /\ output \in Int /\ Len(buf) = Done(call)
      BY <1>1, <1>3, ServingFacts DEF EcTypes, ReadSoFar
    <3>3. /\ Len(buf') = Done(call')
          /\ \A i \in 1 .. Done(call) : buf'[i] = buf[i]
          /\ buf'[Done(call) + 1] = ram[r]
      BY <2>2, <2>4, <3>1, <3>2
    <3>4. \A i \in 1 .. Done(call') : buf'[i] = ram[request.address + i - 1]
      <4>1. \A i \in 1 .. Done(call) : buf'[i] = ram[request.address + i - 1]
        BY <1>3, <3>3 DEF ReadSoFar
      <4>2. buf'[Done(call) + 1] = ram[request.address + (Done(call) + 1) - 1]
        BY <3>1, <3>3
      <4>3. QED
        BY <3>1, <4>1, <4>2
    <3>5. ram' = ram /\ request' = request /\ Done(call)' = Done(call') /\ ram = request.before
      BY <1>3, <2>2 DEF Kept, Done, ReadSoFar
    <3>6. QED
      BY <3>3, <3>4, <3>5 DEF ReadSoFar
  <2>8. QED
    BY <1>1, <2>2, <2>3, <2>5, <2>6, <2>7, ServingFacts, StillServing
<1>6. QED
  BY <1>2, <1>4, <1>5 DEF Reading1

(* The byte that call c of a write is about. *)
LEMMA WrittenByte ==
  ASSUME request \in AcceptedRequests
  PROVE  \A c \in 2 .. Count + 1 : request.data[c - 1] \in Bytes
<1>1. request.data \in Seq(Bytes) /\ Count = Len(request.data) /\ Count \in Nat
  BY DEF AcceptedRequests, Count
<1>2. \A c \in 2 .. Count + 1 : c - 1 \in 1 .. Len(request.data)
  BY <1>1
<1>3. QED
  BY <1>1, <1>2

(* A step inside acpi_ec_write_1. *)
LEMMA DriverWrite ==
  ASSUME EcInv, ~Reading, call \in 2 .. Count + 1, Driver
  PROVE  EcInv'
<1>1. ~Idle
  BY DEF Idle
<1>2. PICK r \in Registers, v \in Bytes :
        /\ r = Reg(call) /\ v = request.data[call - 1]
        /\ Calls[call] = Write1(r, v) /\ Len(Calls[call]) = 7 /\ Writing1(r, v)
  <2>1. /\ request \in AcceptedRequests /\ InStep
        /\ Writing1(Reg(call), request.data[call - 1])
    BY <1>1, ServingFacts DEF InStep
  <2>2. /\ Reg(call) \in Registers /\ request.data[call - 1] \in Bytes
        /\ Calls[call] = Write1(Reg(call), request.data[call - 1])
    BY <2>1, CallFacts, WrittenByte
  <2>3. Len(Calls[call]) = 7
    BY <2>2, WriteShape
  <2>4. QED
    BY <2>1, <2>2, <2>3
<1>3. WrittenSoFar
  BY <1>1, ServingFacts
<1>4. CASE access \in 1 .. 6
  <2>1. /\ access' = access + 1 /\ call' = call
        /\ UNCHANGED <<Kept, buf, ram, burst, expects, output>>
        /\ access \in {1, 3, 5} => input = Empty /\ input' = input
        /\ access = 2 => input' = Sent(CommandPort, EC_COMMAND_WRITE)
        /\ access = 4 => input' = Sent(DataPort, r)
        /\ access = 6 => input' = Sent(DataPort, v)
    <3>1. CASE access \in {1, 3, 5}
      <4>1. This = PollEmpty
        BY <1>1, <1>2, <3>1, ServingFacts, WriteShape
      <4>2. QED
        BY <1>2, <3>1, <4>1, AtPollEmpty DEF GoOn, controller
    <3>2. CASE access = 2
      <4>1. This = WriteCommand(EC_COMMAND_WRITE)
        BY <1>1, <1>2, <3>2, ServingFacts, WriteShape
      <4>2. QED
        BY <1>1, <1>2, <3>2, <4>1, AtCommand, ServingFacts DEF GoOn
    <3>3. CASE access = 4
      <4>1. This = WriteData(r)
        BY <1>1, <1>2, <3>3, ServingFacts, WriteShape
      <4>2. QED
        BY <1>1, <1>2, <3>3, <4>1, AtData, ServingFacts DEF GoOn
    <3>4. CASE access = 6
      <4>1. This = WriteData(v)
        BY <1>1, <1>2, <3>4, ServingFacts, WriteShape
      <4>2. QED
        BY <1>1, <1>2, <3>4, <4>1, AtData, ServingFacts DEF GoOn
    <3>5. QED
      BY <1>4, <3>1, <3>2, <3>3, <3>4
  <2>2. r = Reg(call)' /\ v = request'.data[call' - 1] /\ request' = request
    BY <1>2, <2>1 DEF Reg, Kept
  <2>3. InStep'
    <3>1. Writing1(r, v)'
      BY <1>2, <1>4, <2>1, SentFacts DEF Writing1, Quiet
    <3>2. QED
      BY <1>1, <2>1, <2>2, <3>1, ServingFacts DEF InStep, Count, Reading
  <2>4. EcTypes'
    BY <1>1, <2>1, ServingFacts DEF EcTypes, Kept
  <2>5. WrittenSoFar'
    <3>1. ~Landed /\ ~Landed'
      BY <1>4, <2>1, SentFacts DEF Landed
    <3>2. ram' = ram /\ Stored(Done(call))' = Stored(Done(call))
      BY <2>1 DEF Stored, Kept, Done
    <3>3. QED
      BY <1>3, <3>1, <3>2 DEF WrittenSoFar
  <2>6. QED
    BY <1>1, <2>1, <2>3, <2>4, <2>5, ServingFacts, StillServing
<1>5. CASE access = 7
  <2>1. This = PollEmpty
    BY <1>1, <1>2, <1>5, ServingFacts, WriteShape
  <2>2. input = Empty /\ GoOn /\ UNCHANGED <<Kept, buf, controller>>
    BY <2>1, AtPollEmpty
  <2>3. access' = 1 /\ call' = call + 1
    BY <1>1, <1>2, <1>5, <2>2, ServingFacts DEF GoOn
  <2>4. Quiet'
    BY <1>2, <1>5, <2>2, SentFacts DEF Writing1, Quiet, controller
  <2>5. InStep'
    BY <1>1, <2>2, <2>3, <2>4, ServingFacts, NextCall DEF Kept
  <2>6. EcTypes'
    BY <1>1, <2>2, <2>3, ServingFacts DEF EcTypes, Kept, controller
  <2>7. WrittenSoFar'
    <3>1. Landed /\ ~Landed'
      BY <1>5, <2>2, <2>3 DEF Landed
    <3>2. Done(call)' = Done(call) + 1 /\ ram' = ram /\ request' = request
      BY <1>1, <2>2, <2>3, ServingFacts, DoneFacts DEF controller, Kept, Done
    <3>3. Stored(Done(call))' = Stored(Done(call) + 1)
      BY <3>2 DEF Stored
    <3>4. QED
      BY <1>3, <3>1, <3>2, <3>3 DEF WrittenSoFar
  <2>8. QED
    BY <1>1, <2>2, <2>3, <2>5, <2>6, <2>7, ServingFacts, StillServing
<1>6. QED
  BY <1>2, <1>4, <1>5 DEF Writing1

(* At the end of the calls the request has done what was asked. *)
LEMMA AllDone ==
  ASSUME request \in AcceptedRequests, call = Count + 2, access = 3,
         IF Reading THEN ReadSoFar ELSE WrittenSoFar,
         UNCHANGED <<request, ram, buf>>
  PROVE  RequestExact'
<1>1. /\ Count \in Nat /\ request.address \in Nat /\ request.data \in Seq(Bytes)
      /\ DOMAIN request.data = 1 .. Count /\ LastRegister \in Nat
      /\ request.address + Count <= LastRegister
      /\ request.function \in {"ACPI_READ", "ACPI_WRITE"}
  BY CallFacts, EcAssumption DEF AcceptedRequests, Registers, Count
<1>2. Done(call) = Count /\ ~Landed
  BY <1>1 DEF Done, Landed
<1>3. CASE Reading
  <2>1. /\ \A i \in 1 .. Count : /\ request.address + i - 1 \in Registers
                                 /\ buf[i] = ram[request.address + i - 1]
        /\ ram = request.before
    BY <1>1, <1>2, <1>3 DEF ReadSoFar, Registers
  <2>2. QED
    BY <1>1, <1>3, <2>1 DEF RequestExact, Reading
<1>4. CASE ~Reading
  <2>1. ram = Stored(Count)
    BY <1>2, <1>4 DEF WrittenSoFar
  <2>2. \A r \in Registers :
          ram[r] = IF r - request.address + 1 \in 1 .. Count
                     THEN request.data[r - request.address + 1] ELSE request.before[r]
    BY <2>1 DEF Stored
  <2>3. QED
    BY <1>1, <1>4, <2>2 DEF RequestExact, Reading
<1>5. QED
  BY <1>3, <1>4

(* A step inside acpi_ec_burst_disable: the last one is the return of the  *)
(* handler.                                                                *)
LEMMA DriverDisable ==
  ASSUME EcInv, call = Count + 2, call # 0, Driver
  PROVE  EcInv'
<1>1. ~Idle
  BY DEF Idle
<1>2. Calls[call] = BurstDisable /\ Len(Calls[call]) = 3 /\ Disabling
  BY <1>1, ServingFacts, CallFacts, DisableShape DEF InStep
<1>3. CASE access \in 1 .. 2
  <2>1. /\ access' = access + 1 /\ call' = call
        /\ UNCHANGED <<Kept, buf, ram, burst, expects, output>>
        /\ access = 1 => input = Empty /\ input' = input
        /\ access = 2 => input' = Sent(CommandPort, EC_BURST_DISABLE)
    <3>1. CASE access = 1
      <4>1. This = PollEmpty
        BY <1>1, <1>2, <3>1, ServingFacts, DisableShape
      <4>2. QED
        BY <1>2, <3>1, <4>1, AtPollEmpty DEF GoOn, controller
    <3>2. CASE access = 2
      <4>1. This = WriteCommand(EC_BURST_DISABLE)
        BY <1>1, <1>2, <3>2, ServingFacts, DisableShape
      <4>2. QED
        BY <1>1, <1>2, <3>2, <4>1, AtCommand, ServingFacts DEF GoOn
    <3>3. QED
      BY <1>3, <3>1, <3>2
  <2>2. InStep'
    <3>1. Disabling'
      BY <1>2, <1>3, <2>1 DEF Disabling, Quiet
    <3>2. request' = request /\ Count' = Count /\ Count \in Nat
      BY <1>1, <2>1, ServingFacts DEF Kept, Count
    <3>3. call' # 1 /\ call' \notin 2 .. Count' + 1
      BY <2>1, <3>2
    <3>4. QED
      BY <3>1, <3>3 DEF InStep
  <2>3. EcTypes'
    BY <1>1, <2>1, ServingFacts DEF EcTypes, Kept
  <2>4. IF Reading THEN ReadSoFar' ELSE WrittenSoFar'
    <3>1. request' = request /\ ram' = ram /\ buf' = buf /\ call' = call /\ ~Landed /\ ~Landed'
      BY <1>3, <2>1 DEF Kept, Landed
    <3>2. QED
      BY <1>1, <3>1, ServingFacts DEF ReadSoFar, WrittenSoFar, Stored, Done
  <2>5. QED
    BY <1>1, <2>1, <2>2, <2>3, <2>4, ServingFacts, StillServing
<1>4. CASE access = 3
  <2>1. This = PollEmpty
    BY <1>1, <1>2, <1>4, ServingFacts, DisableShape
  <2>2. input = Empty /\ GoOn /\ UNCHANGED <<Kept, buf, controller>>
    BY <2>1, AtPollEmpty
  <2>3. access' = 1 /\ call' = 0
    BY <1>1, <1>2, <1>4, <2>2, ServingFacts DEF GoOn
  <2>4. Idle' /\ Resting'
    BY <1>2, <1>4, <2>2, <2>3, SentFacts DEF Idle, Resting, Disabling, Quiet, controller
  <2>5. RequestExact'
    BY <1>1, <1>4, <2>2, ServingFacts, AllDone DEF Kept, controller
  <2>6. EcTypes' /\ PortsFound'
    BY <1>1, <2>2, <2>3, ServingFacts DEF EcTypes, Kept, controller, EcInv, PortsFound
  <2>7. QED
    BY <2>4, <2>5, <2>6 DEF EcInv
<1>5. QED
  BY <1>2, <1>3, <1>4 DEF Disabling
-----------------------------------------------------------------------------
(* The controller takes a byte while the driver is in                      *)
(* acpi_ec_burst_enable,                                                   *)
LEMMA TakeEnable ==
  ASSUME EcInv, call = 1, Take
  PROVE  EcInv'
<1>1. ~Idle
  BY DEF Idle
<1>2. Enabling
  BY <1>1, ServingFacts DEF InStep
<1>3. input # Empty /\ input' = Empty /\ UNCHANGED driver
  BY DEF Take, TakeCommand, TakeData
<1>4. access = 3 /\ input = Sent(CommandPort, EC_BURST_ENABLE) /\ expects = ForCommand
  BY <1>2, <1>3 DEF Enabling, Quiet
<1>5. input.port = CommandPort /\ input.byte = EC_BURST_ENABLE
  BY <1>4 DEF Sent
<1>6. TakeCommand
  BY <1>1, <1>5, ServingFacts DEF Take, TakeData
<1>7. output' \in {BurstAck, 0} /\ burst' \in BOOLEAN /\ UNCHANGED <<expects, ram>>
  BY <1>5, <1>6 DEF TakeCommand, EC_BURST_ENABLE, EC_BURST_DISABLE, EC_COMMAND_READ,
                    EC_COMMAND_WRITE
<1>8. /\ call' = 1 /\ access' = 3 /\ request' = request /\ buf' = buf /\ UNCHANGED Kept
      /\ call' \in 1 .. Count + 2
  BY <1>1, <1>3, <1>4, ServingFacts DEF driver, Kept
<1>9. InStep'
  <2>1. Enabling'
    BY <1>3, <1>4, <1>7, <1>8 DEF Enabling
  <2>2. QED
    BY <1>1, <1>8, <2>1, ServingFacts DEF InStep, Count
<1>10. EcTypes'
  BY <1>1, <1>3, <1>7, <1>8, ServingFacts DEF EcTypes, BurstAck, driver
<1>11. IF Reading THEN ReadSoFar' ELSE WrittenSoFar'
  BY <1>1, <1>7, <1>8, ServingFacts DEF ReadSoFar, WrittenSoFar, Landed, Stored, Done
<1>12. QED
  BY <1>1, <1>8, <1>9, <1>10, <1>11, StillServing

(* in acpi_ec_read_1,                                                      *)
LEMMA TakeRead ==
  ASSUME EcInv, Reading, call \in 2 .. Count + 1, Take
  PROVE  EcInv'
<1>1. ~Idle
  BY DEF Idle
<1>2. PICK r \in Registers : r = Reg(call) /\ Reading1(r)
  BY <1>1, ServingFacts, CallFacts DEF InStep
<1>3. input # Empty /\ input' = Empty /\ UNCHANGED driver
  BY DEF Take, TakeCommand, TakeData
<1>4. \/ /\ access = 3 /\ output = None
         /\ input = Sent(CommandPort, EC_COMMAND_READ) /\ expects = ForCommand
      \/ /\ access = 5 /\ output = None
         /\ input = Sent(DataPort, r) /\ expects = [what |-> "read_address"]
  BY <1>2, <1>3 DEF Reading1, Quiet
<1>5. /\ ram' = ram /\ burst' = burst
      /\ access = 3 => output' = output /\ expects' = [what |-> "read_address"]
      /\ access = 5 => output' = ram[r] /\ expects' = ForCommand
  <2>1. CASE access = 3
    <3>1. input.port = CommandPort /\ input.byte = EC_COMMAND_READ
      BY <1>4, <2>1 DEF Sent
    <3>2. TakeCommand
      BY <1>1, <3>1, ServingFacts DEF Take, TakeData
    <3>3. QED
      BY <2>1, <3>1, <3>2 DEF TakeCommand, EC_BURST_ENABLE, EC_BURST_DISABLE, EC_COMMAND_READ,
                              EC_COMMAND_WRITE
  <2>2. CASE access = 5
    <3>1. input.port = DataPort /\ input.byte = r /\ expects.what = "read_address"
      BY <1>4, <2>2 DEF Sent
    <3>2. TakeData
      BY <1>1, <3>1, ServingFacts DEF Take, TakeCommand
    <3>3. QED
      BY <2>2, <3>1, <3>2 DEF TakeData, ForCommand
  <2>3. QED
    BY <1>4, <2>1, <2>2
<1>6. /\ call' = call /\ access' = access /\ request' = request /\ buf' = buf
      /\ UNCHANGED Kept /\ r = Reg(call)'
  BY <1>2, <1>3 DEF driver, Kept, Reg
<1>7. InStep'
  <2>1. Reading1(r)'
    BY <1>3, <1>4, <1>5, <1>6 DEF Reading1
  <2>2. QED
    BY <1>1, <1>6, <2>1, ServingFacts DEF InStep, Count, Reading
<1>8. EcTypes'
  <2>1. output' \in Int
    <3>1. output \in Int /\ ram[r] \in Bytes
      BY <1>1, ServingFacts DEF EcTypes
    <3>2. Bytes \subseteq Int
      BY EcAssumption
    <3>3. QED
      BY <1>4, <1>5, <3>1, <3>2
  <2>2. QED
    BY <1>1, <1>5, <1>6, <2>1, ServingFacts DEF EcTypes
<1>9. ReadSoFar'
  BY <1>1, <1>5, <1>6, ServingFacts DEF ReadSoFar
<1>10. QED
  BY <1>1, <1>6, <1>7, <1>8, <1>9, ServingFacts, StillServing

(* in acpi_ec_write_1,                                                     *)
LEMMA TakeWrite ==
  ASSUME EcInv, ~Reading, call \in 2 .. Count + 1, Take
  PROVE  EcInv'
<1>1. ~Idle
  BY DEF Idle
<1>2. PICK r \in Registers, v \in Bytes :
        r = Reg(call) /\ v = request.data[call - 1] /\ Writing1(r, v)
  BY <1>1, ServingFacts, CallFacts, WrittenByte DEF InStep
<1>3. input # Empty /\ input' = Empty /\ UNCHANGED driver
  BY DEF Take, TakeCommand, TakeData
<1>4. \/ access = 3 /\ input = Sent(CommandPort, EC_COMMAND_WRITE) /\ expects = ForCommand
      \/ access = 5 /\ input = Sent(DataPort, r) /\ expects = [what |-> "write_address"]
      \/ access = 7 /\ input = Sent(DataPort, v) /\ expects = [what |-> "value", address |-> r]
  BY <1>2, <1>3 DEF Writing1, Quiet
<1>5. /\ output' = output /\ output = None /\ burst' = burst
      /\ access = 3 => ram' = ram /\ expects' = [what |-> "write_address"]
      /\ access = 5 => ram' = ram /\ expects' = [what |-> "value", address |-> r]
      /\ access = 7 => ram' = [ram EXCEPT ![r] = v] /\ expects' = ForCommand
  <2>1. CASE access = 3
    <3>1. input.port = CommandPort /\ input.byte = EC_COMMAND_WRITE
      BY <1>4, <2>1 DEF Sent
    <3>2. TakeCommand
      BY <1>1, <3>1, ServingFacts DEF Take, TakeData
    <3>3. QED
      BY <1>2, <2>1, <3>1, <3>2 DEF TakeCommand, EC_BURST_ENABLE, EC_BURST_DISABLE,
                                    EC_COMMAND_READ, EC_COMMAND_WRITE, Writing1
  <2>2. CASE access = 5
    <3>1. input.port = DataPort /\ input.byte = r /\ expects.what = "write_address"
      BY <1>4, <2>2 DEF Sent
    <3>2. TakeData
      BY <1>1, <3>1, ServingFacts DEF Take, TakeCommand
    <3>3. QED
      BY <1>2, <2>2, <3>1, <3>2 DEF TakeData, Writing1
  <2>3. CASE access = 7
    <3>1. /\ input.port = DataPort /\ input.byte = v
          /\ expects.what = "value" /\ expects.address = r
      BY <1>4, <2>3 DEF Sent
    <3>2. TakeData
      BY <1>1, <3>1, ServingFacts DEF Take, TakeCommand
    <3>3. QED
      BY <1>2, <2>3, <3>1, <3>2 DEF TakeData, Writing1, ForCommand
  <2>4. QED
    BY <1>4, <2>1, <2>2, <2>3
<1>6. /\ call' = call /\ access' = access /\ request' = request /\ buf' = buf
      /\ UNCHANGED Kept /\ r = Reg(call)' /\ v = request'.data[call' - 1]
  BY <1>2, <1>3 DEF driver, Kept, Reg
<1>7. InStep'
  <2>1. Writing1(r, v)'
    BY <1>3, <1>4, <1>5, <1>6 DEF Writing1
  <2>2. QED
    BY <1>1, <1>6, <2>1, ServingFacts DEF InStep, Count, Reading
<1>8. /\ v \in Bytes /\ v = request.data[Done(call) + 1]
      /\ r = request.address + Done(call) /\ request.address \in Nat /\ Done(call) \in Nat
  <2>1. /\ Done(call) \in 0 .. Count - 1 /\ Count \in Nat /\ request.address \in Nat
        /\ call - 1 = Done(call) + 1 /\ Reg(call) = request.address + Done(call)
    BY <1>1, ServingFacts, DoneFacts
  <2>2. request.data \in Seq(Bytes)
    BY <1>1, ServingFacts DEF AcceptedRequests
  <2>3. QED
    BY <1>2, <2>1, <2>2 DEF Count
<1>9. EcTypes'
  <2>1. ram' \in [Registers -> Bytes]
    BY <1>1, <1>4, <1>5, <1>8, ServingFacts DEF EcTypes
  <2>2. QED
    BY <1>1, <1>5, <1>6, <2>1, ServingFacts DEF EcTypes
<1>10. WrittenSoFar'
  <2>1. ~Landed /\ ram = Stored(Done(call))
    BY <1>1, <1>3, ServingFacts DEF Landed, WrittenSoFar
  <2>2. CASE access # 7
    <3>1. ~Landed' /\ ram' = ram /\ Stored(Done(call))' = Stored(Done(call))
      BY <1>4, <1>5, <1>6, <2>2 DEF Landed, Stored, Done
    <3>2. QED
      BY <2>1, <3>1 DEF WrittenSoFar
  <2>3. CASE access = 7
    <3>1. Landed'
      BY <1>3, <1>6, <2>3 DEF Landed, Count
    <3>2. ram' = [Stored(Done(call)) EXCEPT ![r] = v]
      BY <1>5, <2>1, <2>3
    <3>3. [Stored(Done(call)) EXCEPT ![r] = v] = Stored(Done(call) + 1)
      <4>1. \A q \in Registers :
              IF q = r THEN /\ q - request.address + 1 \in 1 .. Done(call) + 1
                            /\ request.data[q - request.address + 1] = v
              ELSE q - request.address + 1 \in 1 .. Done(call) <=>
                   q - request.address + 1 \in 1 .. Done(call) + 1
        BY <1>8, EcAssumption DEF Registers
      <4>2. QED
        BY <4>1 DEF Stored
    <3>4. Stored(Done(call) + 1)' = Stored(Done(call) + 1)
      BY <1>6 DEF Stored, Done
    <3>5. QED
      BY <3>1, <3>2, <3>3, <3>4 DEF WrittenSoFar
  <2>4. QED
    BY <2>2, <2>3
<1>11. QED
  BY <1>1, <1>6, <1>7, <1>9, <1>10, ServingFacts, StillServing

(* and in acpi_ec_burst_disable.                                           *)
LEMMA TakeDisable ==
  ASSUME EcInv, call = Count + 2, call # 0, Take
  PROVE  EcInv'
<1>1. ~Idle
  BY DEF Idle
<1>2. Disabling
  BY <1>1, ServingFacts DEF InStep
<1>3. input # Empty /\ input' = Empty /\ UNCHANGED driver
  BY DEF Take, TakeCommand, TakeData
<1>4. access = 3 /\ input = Sent(CommandPort, EC_BURST_DISABLE)
  BY <1>2, <1>3 DEF Disabling, Quiet
<1>5. input.port = CommandPort /\ input.byte = EC_BURST_DISABLE
  BY <1>4 DEF Sent
<1>6. TakeCommand
  BY <1>1, <1>5, ServingFacts DEF Take, TakeData
<1>7. burst' = FALSE /\ UNCHANGED <<expects, output, ram>>
  BY <1>5, <1>6 DEF TakeCommand, EC_BURST_ENABLE, EC_BURST_DISABLE, EC_COMMAND_READ,
                    EC_COMMAND_WRITE
<1>8. /\ call' = call /\ access' = 3 /\ request' = request /\ buf' = buf /\ UNCHANGED Kept
      /\ Count' = Count /\ Count \in Nat
  BY <1>1, <1>3, <1>4, ServingFacts DEF driver, Kept, Count
<1>9. InStep'
  <2>1. Disabling'
    BY <1>2, <1>3, <1>7, <1>8 DEF Disabling
  <2>2. call' # 1 /\ call' \notin 2 .. Count' + 1
    BY <1>8
  <2>3. QED
    BY <2>1, <2>2 DEF InStep
<1>10. EcTypes'
  BY <1>1, <1>7, <1>8, ServingFacts DEF EcTypes
<1>11. IF Reading THEN ReadSoFar' ELSE WrittenSoFar'
  <2>1. ~Landed /\ ~Landed'
    BY <1>4, <1>8 DEF Landed
  <2>2. QED
    BY <1>1, <1>7, <1>8, <2>1, ServingFacts DEF ReadSoFar, WrittenSoFar, Stored, Done
<1>12. QED
  BY <1>1, <1>8, <1>9, <1>10, <1>11, ServingFacts, StillServing

(* The controller leaves burst mode by itself. *)
LEMMA LeaveKeeps ==
  ASSUME EcInv, LeaveBurst
  PROVE  EcInv'
<1>1. burst' = FALSE /\ UNCHANGED <<driver, input, output, expects, ram>>
  BY DEF LeaveBurst
<1>2. EcTypes' /\ PortsFound'
  BY <1>1 DEF EcInv, EcTypes, PortsFound, driver
<1>3. CASE Idle
  BY <1>1, <1>2, <1>3 DEF EcInv, Idle, Resting, Quiet, RequestExact, driver
<1>4. CASE ~Idle
  <2>1. /\ call' = call /\ access' = access /\ request' = request /\ buf' = buf
        /\ ram' = ram /\ input' = input /\ UNCHANGED Kept
    BY <1>1 DEF driver, Kept
  <2>2. InStep'
    <3>1. Count' = Count /\ (Reading' <=> Reading)
      BY <2>1 DEF Count, Reading
    <3>2. call = 1 => Enabling'
      BY <1>1, <1>4, <2>1, ServingFacts DEF InStep, Enabling, Quiet
    <3>3. call = Count + 2 => Disabling'
      BY <1>1, <1>4, <2>1, ServingFacts DEF InStep, Disabling, Quiet
    <3>4. ASSUME call \in 2 .. Count + 1, Reading PROVE Reading1(Reg(call))'
      BY <1>1, <1>4, <2>1, <3>4, ServingFacts DEF InStep, Reading1, Quiet, Reg
    <3>5. ASSUME call \in 2 .. Count + 1, ~Reading
          PROVE  Writing1(Reg(call), request.data[call - 1])'
      BY <1>1, <1>4, <2>1, <3>5, ServingFacts DEF InStep, Writing1, Quiet, Reg
    <3>6. QED
      BY <2>1, <3>1, <3>2, <3>3, <3>4, <3>5 DEF InStep
  <2>3. IF Reading THEN ReadSoFar' ELSE WrittenSoFar'
    BY <1>4, <2>1, ServingFacts DEF ReadSoFar, WrittenSoFar, Landed, Stored, Done, Count
  <2>4. QED
    BY <1>2, <1>4, <2>1, <2>2, <2>3, ServingFacts, StillServing
<1>5. QED
  BY <1>3, <1>4

(* acpi_ec_handler begins a request, or refuses it. *)
LEMMA HandlerKeeps ==
  ASSUME EcInv, NEW f \in Functions, NEW a \in Registers, NEW b \in Bits, Handler(f, a, b)
  PROVE  EcInv'
<1>1. /\ Installed /\ Idle /\ status # "panic" /\ buf' = <<>>
      /\ UNCHANGED <<data_io, command_io, walked, access, controller>>
  BY DEF Handler
<1>2. Quiet /\ ~burst /\ input = Empty /\ access = 1 /\ EcTypes /\ call = 0
  BY <1>1 DEF EcInv, Resting, Idle
<1>3. PortsFound'
  BY <1>1 DEF EcInv, PortsFound
<1>4. CASE status' # "AE_OK"
  <2>1. status' # "panic" /\ UNCHANGED <<request, call>>
    BY <1>4 DEF Handler
  <2>2. EcTypes'
    BY <1>1, <1>2, <2>1 DEF EcTypes, controller
  <2>3. Idle' /\ Resting' /\ RequestExact'
    BY <1>1, <1>2, <1>4, <2>1 DEF Idle, Resting, Quiet, RequestExact, controller
  <2>4. QED
    BY <1>3, <2>2, <2>3 DEF EcInv
<1>5. CASE status' = "AE_OK"
  <2>1. PICK data \in [1 .. b \div 8 -> Bytes] :
          /\ f \in {"ACPI_READ", "ACPI_WRITE"} /\ ~BadAddress(a, b)
          /\ request' = [function |-> f, address |-> a, data |-> data, before |-> ram]
          /\ call' = 1
    BY <1>5 DEF Handler
  <2>2. b \div 8 \in Nat
    BY EcAssumption
  <2>3. data \in Seq(Bytes) /\ Len(data) = b \div 8
    BY <2>1, <2>2
  <2>4. a + Len(data) <= LastRegister
    BY <2>1, <2>2, <2>3, EcAssumption DEF BadAddress, Registers
  <2>5. request' \in AcceptedRequests
    BY <1>2, <2>1, <2>3, <2>4 DEF AcceptedRequests, EcTypes
  <2>6. Count' \in Nat /\ Count' = Len(data)
    BY <2>1, <2>3 DEF Count
  <2>7. EcTypes'
    BY <1>1, <1>2, <2>1, <2>5 DEF EcTypes, controller
  <2>8. InStep'
    <3>1. Enabling'
      BY <1>1, <1>2, <2>1 DEF Enabling, Quiet, controller
    <3>2. QED
      BY <2>1, <2>6, <3>1 DEF InStep
  <2>9. ram' = ram /\ request'.before = ram /\ Done(call)' = 0 /\ buf' = <<>>
    BY <1>1, <2>1 DEF controller, Done
  <2>10. ReadSoFar'
    BY <2>9 DEF ReadSoFar
  <2>11. WrittenSoFar'
    <3>1. ~Landed'
      BY <2>1 DEF Landed
    <3>2. Stored(0)' = ram'
      <4>1. ram' \in [Registers -> Bytes] /\ request'.before = ram'
        BY <2>7, <2>9 DEF EcTypes
      <4>2. \A r \in Registers : r - request'.address + 1 \notin 1 .. 0
        OBVIOUS
      <4>3. QED
        BY <4>1, <4>2 DEF Stored
    <3>3. QED
      BY <2>9, <3>1, <3>2 DEF WrittenSoFar
  <2>12. Installed' /\ ~Idle'
    BY <1>1, <2>1 DEF Installed, Idle
  <2>13. Serving'
    BY <1>5, <2>1, <2>5, <2>6, <2>8, <2>10, <2>11, <2>12 DEF Serving
  <2>14. QED
    BY <1>3, <2>7, <2>12, <2>13 DEF EcInv
<1>6. QED
  BY <1>4, <1>5

(* acpi_ec_io_ports finds the two ports and no other. *)
LEMMA IoPortsKeeps ==
  ASSUME EcInv, IoPorts
  PROVE  EcInv'
<1>1. /\ walked < Len(Resources) /\ walked \in Nat /\ Len(Resources) \in Nat
      /\ UNCHANGED <<request, call, access, buf, status, controller>>
  BY ResourcesAssumption DEF EcInv, PortsFound, IoPorts
<1>2. Idle
  BY <1>1 DEF EcInv, Serving, Installed
<1>3. PICK d, c \in DOMAIN Resources :
         /\ d < c
         /\ Resources[d] = [type |-> "IO", minimum |-> DataPort]
         /\ Resources[c] = [type |-> "IO", minimum |-> CommandPort]
         /\ \A k \in 1 .. c - 1 : k # d => Resources[k].type # "IO"
         /\ data_io = IF walked < d THEN 0 ELSE DataPort
         /\ command_io = IF walked < c THEN 0 ELSE CommandPort
  BY DEF EcInv, PortsFound
<1>4. /\ d \in Nat /\ c \in Nat /\ 1 <= d /\ d < c /\ c <= Len(Resources)
      /\ DataPort # 0 /\ CommandPort # 0
  BY <1>3, ResourcesAssumption, EcAssumption
<1> DEFINE q == Resources[walked + 1]
           full == q.type = "IO" /\ data_io # 0 /\ command_io # 0
<1>5. /\ data_io' = IF q.type = "IO" /\ data_io = 0 THEN q.minimum ELSE data_io
      /\ command_io' = IF q.type = "IO" /\ data_io # 0 /\ command_io = 0
                         THEN q.minimum ELSE command_io
      /\ walked' = IF full THEN Len(Resources) ELSE walked + 1
  BY DEF IoPorts
<1>6. /\ walked + 1 = d => q.type = "IO" /\ q.minimum = DataPort
      /\ walked + 1 = c => q.type = "IO" /\ q.minimum = CommandPort
      /\ walked + 1 < c /\ walked + 1 # d => q.type # "IO"
  BY <1>1, <1>3, <1>4
<1> HIDE DEF q
<1>7. walked < c => walked' = walked + 1
  BY <1>3, <1>5
<1>8. /\ data_io' = IF walked' < d THEN 0 ELSE DataPort
      /\ command_io' = IF walked' < c THEN 0 ELSE CommandPort
      /\ walked' \in 0 .. Len(Resources)
  <2>1. CASE walked < c
    BY <1>1, <1>3, <1>4, <1>5, <1>6, <1>7, <2>1
  <2>2. CASE ~(walked < c)
    BY <1>1, <1>3, <1>4, <1>5, <2>2
  <2>3. QED
    BY <2>1, <2>2
<1>9. PortsFound'
  BY <1>3, <1>8 DEF PortsFound
<1>10. EcTypes'
  BY <1>1 DEF EcInv, EcTypes, controller
<1>11. Idle' /\ Resting' /\ RequestExact'
  BY <1>1, <1>2 DEF EcInv, Idle, Resting, Quiet, RequestExact, controller
<1>12. QED
  BY <1>9, <1>10, <1>11 DEF EcInv

(* The conversation between the driver and the controller keeps to its     *)
(* protocol, whenever the controller acts and whatever it answers.         *)
THEOREM EcCorrect == Spec => []EcInv
<1>1. Init => EcInv
  <2> SUFFICES ASSUME Init PROVE EcInv
    OBVIOUS
  <2>1. EcTypes
    <3> DEFINE first == CHOOSE b \in Bytes : TRUE
    <3>1. first \in Bytes /\ ram \in [Registers -> {first}]
      BY EcAssumption DEF Init
    <3> HIDE DEF first
    <3>2. ram \in [Registers -> Bytes]
      BY <3>1
    <3>3. /\ request = NoRequest /\ call = 0 /\ access = 1 /\ buf = <<>>
          /\ output = None /\ burst = FALSE
      BY DEF Init
    <3>4. buf \in Seq(Int) /\ output \in Int /\ call \in Nat /\ access \in Nat
      BY <3>3 DEF None
    <3>5. burst \in BOOLEAN /\ request \in {NoRequest} \cup AcceptedRequests
      BY <3>3
    <3>6. QED
      BY <3>2, <3>4, <3>5 DEF EcTypes
  <2>2. PortsFound
    <3>1. PICK d, c \in DOMAIN Resources :
            /\ d < c
            /\ Resources[d] = [type |-> "IO", minimum |-> DataPort]
            /\ Resources[c] = [type |-> "IO", minimum |-> CommandPort]
            /\ \A k \in 1 .. c - 1 : k # d => Resources[k].type # "IO"
      BY ResourcesAssumption
    <3>2. Len(Resources) \in Nat /\ DOMAIN Resources = 1 .. Len(Resources)
      BY ResourcesAssumption
    <3>3. walked = 0 /\ data_io = 0 /\ command_io = 0
      BY DEF Init
    <3>4. walked < d /\ walked < c
      BY <3>1, <3>2, <3>3
    <3>5. walked \in 0 .. Len(Resources)
      BY <3>2, <3>3
    <3>6. QED
      BY <3>1, <3>3, <3>4, <3>5 DEF PortsFound
  <2>3. Idle /\ Resting /\ RequestExact
    BY DEF Init, Idle, Resting, Quiet, ForCommand, RequestExact, NoRequest
  <2>4. QED
    BY <2>1, <2>2, <2>3 DEF EcInv
<1>2. EcInv /\ [Next]_vars => EcInv'
  <2> SUFFICES ASSUME EcInv, [Next]_vars PROVE EcInv'
    OBVIOUS
  <2>1. CASE IoPorts
    BY <2>1, IoPortsKeeps
  <2>2. ASSUME NEW f \in Functions, NEW a \in Registers, NEW b \in Bits, Handler(f, a, b)
        PROVE  EcInv'
    BY <2>2, HandlerKeeps
  <2>3. CASE Driver
    <3>1. ~Idle
      BY <2>3 DEF Driver, Poll, Out, In
    <3>2. call = 1 \/ call \in 2 .. Count + 1 \/ call = Count + 2
      BY <3>1, ServingFacts
    <3>3. QED
      BY <2>3, <3>1, <3>2, DriverEnable, DriverRead, DriverWrite, DriverDisable DEF Idle
  <2>4. CASE Take
    <3>1. ~Idle
      BY <2>4 DEF EcInv, Resting, Take, TakeCommand, TakeData
    <3>2. call = 1 \/ call \in 2 .. Count + 1 \/ call = Count + 2
      BY <3>1, ServingFacts
    <3>3. QED
      BY <2>4, <3>1, <3>2, TakeEnable, TakeRead, TakeWrite, TakeDisable DEF Idle
  <2>5. CASE LeaveBurst
    BY <2>5, LeaveKeeps
  <2>6. CASE UNCHANGED vars
    BY <2>6 DEF vars, driver, controller, EcInv, EcTypes, PortsFound, Idle, Resting, Quiet,
                RequestExact, Serving, Installed, InStep, Enabling, Reading1, Writing1, Disabling,
                Reading, Count, Reg, Done, ReadSoFar, WrittenSoFar, Landed, Stored
  <2>7. QED
    BY <2>1, <2>2, <2>3, <2>4, <2>5, <2>6 DEF Next
<1>3. QED
  BY <1>1, <1>2, PTL DEF Spec

(* A request that ends well has read or written exactly the registers it   *)
(* names.                                                                  *)
THEOREM RequestCorrect == Spec => []RequestExact
<1>1. EcInv => RequestExact
  BY DEF EcInv, RequestExact
<1>2. QED
  BY <1>1, EcCorrect, PTL

(* Between requests the controller is left as it was found. *)
THEOREM QuietCorrect == Spec => []QuietWhenIdle
<1>1. EcInv => QuietWhenIdle
  BY DEF EcInv, QuietWhenIdle, Resting, Quiet, ForCommand
<1>2. QED
  BY <1>1, EcCorrect, PTL
=============================================================================
