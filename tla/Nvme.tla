-------------------------------- MODULE Nvme --------------------------------
(***************************************************************************)
(* The NVMe driver of kernel/driver/nvme: bringing the controller up, the  *)
(* admin queue pair, the creation of the I/O queue pair and reads, against *)
(* a controller that works at its own pace.                                *)
(*                                                                         *)
(* The driver has one command outstanding at a time and polls for its      *)
(* completion; a limit of polls stands for the time it waits.  Left out:   *)
(* what the commands transfer (Storage has it), the PCI set-up, the        *)
(* addresses of the queues, and what a command put behind the page of its  *)
(* submission queue overwrites there.                                      *)
(***************************************************************************)
EXTENDS Integers

CONSTANTS
  AdminSqLen, AdminCqLen,  \* 0x1000 / size of an entry: 64 and 256
  PageSqes,                \* entries of a submission queue in a page: 64
  PageCqes,                \* 0x1000 / sizeof(nvme_cq_entry_t), the clamp: 256
  MQES,                    \* CAP.MQES of the controller
  CapTO,                   \* CAP.TO: rounds nvme_wait_csts_rdy waits
  PollLimit,               \* polls of nvme_wait: 500
  MaxReads                 \* bound on the I/O reads

(* length of both I/O queues (nvme_io_cq_init, nvme_io_sq_init): the clamp *)
(* is that of the completion queue for both.                               *)
IoLen == IF 1 + MQES > PageCqes THEN PageCqes ELSE 1 + MQES

(* x & mask, for indices of 16 bits. *)
Bits(x) == {k \in 0 .. 15 : (x \div 2 ^ k) % 2 = 1}
Masked(x, mask) == CHOOSE r \in 0 .. mask : Bits(r) = Bits(x) \cap Bits(mask)

(* The lengths for which the mask wraps an index around the queue, as it   *)
(* does for the powers of two.                                             *)
LengthsOK ==
  \A len \in {AdminSqLen, AdminCqLen, IoLen} :
    /\ len \in Nat \ {0}
    /\ \A x \in 0 .. len : Masked(x, len - 1) = x % len

LimitsOK ==
  /\ {MQES, CapTO, PollLimit, MaxReads, PageSqes} \subseteq Nat
  /\ AdminSqLen <= PageSqes

(* The commands stay in the page of the I/O submission queue: it is no     *)
(* longer than a page, or not all of it is used.                           *)
SqFits == IoLen <= PageSqes \/ MaxReads <= PageSqes

VARIABLES
  pc,        \* where the driver is
  ticks,     \* rounds or polls spent in the current wait
  sq, cq,    \* nvme_sq_t and nvme_cq_t of both pairs
  cc, rdy,   \* CC.EN and CSTS.RDY
  dev,       \* the controller's view of both pairs
  issued,    \* history: commands submitted on both pairs together
  posted,    \* history: commands the controller has completed
  got        \* history: the command whose completion was consumed last

vars == <<pc, ticks, sq, cq, cc, rdy, dev, issued, posted, got>>

Pairs == {"admin", "io"}

(* The admin commands nvme_init sends, in order, and then reads. *)
Admin == <<"identify_controller", "identify_ns", "create_io_cq", "create_io_sq">>
PairOf(command) == IF command <= 4 THEN "admin" ELSE "io"

(* nvme_sq_init, which allocates a page whatever the length, and           *)
(* nvme_cq_init.                                                           *)
NewSq(len) == [mask |-> len - 1, head |-> 0, tail |-> 0,
               entry |-> [i \in 0 .. PageSqes - 1 |-> 0]]
NewCq(len) == [mask |-> len - 1, head |-> 0, phase |-> 1,
               entry |-> [i \in 0 .. len - 1 |-> [phase |-> 0, serial |-> 0,
                                                  sq_head |-> 0, status |-> 0]]]

NoQueue == [sqLen |-> 0, cqLen |-> 0, sqHead |-> 0, sqTail |-> 0,
            cqHead |-> 0, cqTail |-> 0, phase |-> 1]

Init ==
  /\ pc = "start"
  /\ ticks = 0
  /\ sq = [q \in Pairs |-> NewSq(1)]
  /\ cq = [q \in Pairs |-> NewCq(1)]
  /\ cc \in {0, 1} /\ rdy = cc
  /\ dev = [q \in Pairs |-> NoQueue]
  /\ issued = 0 /\ posted = 0 /\ got = 0

-----------------------------------------------------------------------------
(* nvme_init up to the first wait: disable the controller. *)
Disable ==
  /\ pc = "start"
  /\ cc' = 0
  /\ pc' = "wait_disabled" /\ ticks' = 0
  /\ UNCHANGED <<sq, cq, rdy, dev, issued, posted, got>>

(* nvme_wait_csts_rdy: a round that sees the value ends the wait. *)
ReadySeen(value) == ticks < CapTO /\ rdy = value

(* Mutant: the timeout is not counted down. *)
WaitRoundForever(value) ==
  /\ ticks < CapTO /\ rdy # value
  /\ UNCHANGED vars

WaitRound(value) ==
  /\ ticks < CapTO /\ rdy # value
  /\ ticks' = ticks + 1
  /\ UNCHANGED <<pc, sq, cq, cc, rdy, dev, issued, posted, got>>

WaitFails ==
  /\ ticks >= CapTO
  /\ pc' = "panic_csts"
  /\ UNCHANGED <<ticks, sq, cq, cc, rdy, dev, issued, posted, got>>

(* The admin queues are set up and the controller told of them. *)
Enable ==
  /\ ReadySeen(0)
  /\ sq' = [sq EXCEPT !["admin"] = NewSq(AdminSqLen)]
  /\ cq' = [cq EXCEPT !["admin"] = NewCq(AdminCqLen)]
  /\ dev' = [dev EXCEPT !["admin"] = [NoQueue EXCEPT !.sqLen = AdminSqLen,
                                                     !.cqLen = AdminCqLen]]
  /\ cc' = 1
  /\ pc' = "wait_enabled" /\ ticks' = 0
  /\ UNCHANGED <<rdy, issued, posted, got>>

Enabled ==
  /\ ReadySeen(1)
  /\ pc' = "idle"
  /\ UNCHANGED <<ticks, sq, cq, cc, rdy, dev, issued, posted, got>>

WaitDisabled == pc = "wait_disabled" /\ (Enable \/ WaitRound(0) \/ WaitFails)
WaitEnabled == pc = "wait_enabled" /\ (Enabled \/ WaitRound(1) \/ WaitFails)

(* nvme_command_create and nvme_command_submit on the pair's queue s: a    *)
(* command behind the page goes to memory that is not the queue's.         *)
Advance(s, command) ==
  [s EXCEPT !.entry = [i \in DOMAIN @ |-> IF i = s.tail THEN command ELSE @[i]],
            !.tail = Masked(s.tail + 1, s.mask)]

(* The next command.  create_io_cq and create_io_sq initialise the queue   *)
(* before they are sent.                                                   *)
Submit ==
  /\ pc = "idle"
  /\ issued < 4 + MaxReads
  /\ LET s == IF issued < 4 /\ Admin[issued + 1] = "create_io_sq"
                THEN [sq EXCEPT !["io"] = NewSq(IoLen)] ELSE sq
         q == PairOf(issued + 1)
     IN /\ sq' = [s EXCEPT ![q] = Advance(s[q], issued + 1)]
        /\ dev' = [dev EXCEPT ![q].sqTail = sq'[q].tail]
  /\ cq' = IF issued < 4 /\ Admin[issued + 1] = "create_io_cq"
             THEN [cq EXCEPT !["io"] = NewCq(IoLen)] ELSE cq
  /\ issued' = issued + 1
  /\ pc' = "polling" /\ ticks' = 0
  /\ UNCHANGED <<cc, rdy, posted, got>>

(* nvme_poll_cq: the phase bit of the entry at head, compared with an      *)
(* 8-bit variable.                                                         *)
Polled(c) == c.entry[c.head].phase = c.phase

(* (uint8_t) ~cq->phase *)
Inverted(phase) == 255 - phase

(* Mutant: the phase is inverted with every entry. *)
ConsumeInverting(c) ==
  [c EXCEPT !.head = Masked(c.head + 1, c.mask), !.phase = Inverted(c.phase)]

(* Mutant: the head stays where it is. *)
ConsumeInPlace(c) == c

(* nvme_command_cqe: leave the entry, inverting the phase on a wrap. *)
Consume(c) ==
  [c EXCEPT !.head = Masked(c.head + 1, c.mask),
            !.phase = IF Masked(c.head + 1, c.mask) # c.head + 1 THEN Inverted(c.phase)
                                                                 ELSE c.phase]

(* nvme_ns_probe panics when the controller reports no namespace, or a     *)
(* block size below 512 bytes.                                             *)
Verdicts(command) == IF command <= 2 THEN {"idle", "panic_ns"} ELSE {"idle"}

(* nvme_wait finds the completion; the caller panics on an error status. *)
Complete(q) ==
  /\ pc = "polling" /\ q = PairOf(issued)
  /\ ticks < PollLimit
  /\ Polled(cq[q])
  /\ LET cqe == cq[q].entry[cq[q].head]
     IN /\ sq' = [sq EXCEPT ![q].head = cqe.sq_head]
        /\ got' = cqe.serial
        /\ pc' \in IF cqe.status # 0 THEN {"panic_status"} ELSE Verdicts(issued)
  /\ cq' = [cq EXCEPT ![q] = Consume(cq[q])]
  /\ dev' = [dev EXCEPT ![q].cqHead = cq'[q].head]
  /\ UNCHANGED <<ticks, cc, rdy, issued, posted>>

PollAgain(q) ==
  /\ pc = "polling" /\ q = PairOf(issued)
  /\ ticks < PollLimit
  /\ ~Polled(cq[q])
  /\ ticks' = ticks + 1
  /\ UNCHANGED <<pc, sq, cq, cc, rdy, dev, issued, posted, got>>

TimeOut(q) ==
  /\ pc = "polling" /\ q = PairOf(issued)
  /\ ticks >= PollLimit
  /\ pc' = "panic_timeout"
  /\ UNCHANGED <<ticks, sq, cq, cc, rdy, dev, issued, posted, got>>

Driver ==
  \/ Disable \/ WaitDisabled \/ WaitEnabled \/ Submit
  \/ \E q \in Pairs : Complete(q) \/ PollAgain(q) \/ TimeOut(q)

-----------------------------------------------------------------------------
(* The controller, external: CSTS.RDY follows CC.EN. *)
DeviceReady ==
  /\ rdy # cc
  /\ rdy' = cc
  /\ UNCHANGED <<pc, ticks, sq, cq, cc, dev, issued, posted, got>>

(* What it fetches: behind the page it finds the command if the next frame *)
(* is the one behind the next virtual page, or else something (0).         *)
Fetch(s, slot) == IF slot \in DOMAIN s.entry THEN {s.entry[slot]} ELSE {0, issued}

(* It fetches the next entry of a submission queue it knows of, executes   *)
(* it, and posts a completion with its current phase; a create command     *)
(* makes the I/O queue known, once both halves exist.                      *)
DeviceExecute(q) ==
  LET d == dev[q]
      head == (d.sqHead + 1) % d.sqLen
  IN /\ rdy = 1 /\ cc = 1
     /\ d.sqLen > 0 /\ d.sqHead # d.sqTail
     /\ (d.cqTail + 1) % d.cqLen # d.cqHead
     /\ \E status \in {0, 1}, command \in Fetch(sq[q], d.sqHead) :
          /\ cq' = [cq EXCEPT ![q].entry[d.cqTail] =
                      [phase |-> d.phase, serial |-> command,
                       sq_head |-> head, status |-> status]]
          /\ LET after == [dev EXCEPT
                             ![q].sqHead = head,
                             ![q].cqTail = (d.cqTail + 1) % d.cqLen,
                             ![q].phase = IF d.cqTail = d.cqLen - 1 THEN 1 - d.phase
                                                                    ELSE d.phase]
                 creates == q = "admin" /\ status = 0
             IN dev' =
                  IF creates /\ command = 3
                    THEN [after EXCEPT !["io"].cqLen = cq["io"].mask + 1]
                  ELSE IF creates /\ command = 4
                    THEN [after EXCEPT !["io"].sqLen = sq["io"].mask + 1]
                  ELSE after
     /\ posted' = posted + 1
     /\ UNCHANGED <<pc, ticks, sq, cc, rdy, issued, got>>

Device == DeviceReady \/ \E q \in Pairs : DeviceExecute(q)

Next == Driver \/ Device

(* The driver's loops always go on; the controller may be dead. *)
Spec == Init /\ [][Next]_vars /\ WF_vars(Driver)
-----------------------------------------------------------------------------
(* The completion nvme_wait hands to a caller is that of the caller's own  *)
(* command; the driver does not compare command ids, it relies on one      *)
(* command being outstanding.                                              *)
CompletionIsOwn == pc \in {"idle", "panic_status", "panic_ns"} => got = issued

(* When the controller has completed the outstanding command, the next     *)
(* poll sees it: "timed out waiting for command" is said only of a command *)
(* that was not completed when the driver last looked.                     *)
CompletionVisible ==
  pc = "polling" /\ posted = issued => Polled(cq[PairOf(issued)])
=============================================================================
