------------------------------- MODULE Storage -------------------------------
(***************************************************************************)
(* The partition scan of Gpt on the driver and the controller of Nvme:     *)
(* nvme_init brings the controller up, then every read of gpt_init is a    *)
(* command on the I/O queue whose data the controller writes into the page *)
(* `local' of nvme_read before it posts the completion.                    *)
(***************************************************************************)
EXTENDS Gpt

CONSTANTS AdminSqLen, AdminCqLen, PageSqes, PageCqes, MQES, CapTO, PollLimit, MaxReads

VARIABLES
  pc, ticks, sq, cq, cc, rdy, dev, issued, posted, got,  \* as in Nvme
  lba,   \* first block of the read command on the queue: dword[10] and [11]
  page   \* local: the disk block in each block of the page

N == INSTANCE Nvme

ASSUME NvmeAssumption == N!LengthsOK /\ N!LimitsOK

nvme == <<pc, ticks, sq, cq, cc, rdy, dev, issued, posted, got>>
storageVars == <<vars, nvme, lba, page>>

Unread == [k \in 0 .. BATCH - 1 |-> -1]

StorageInit ==
  /\ Init
  /\ N!Init
  /\ lba = 0
  /\ page = Unread
-----------------------------------------------------------------------------
Booted == issued >= Len(N!Admin) /\ pc = "idle"

(* nvme_init *)
BringUp ==
  /\ \/ N!Disable \/ N!WaitDisabled \/ N!WaitEnabled
     \/ issued < Len(N!Admin) /\ N!Submit
     \/ N!Complete("admin") \/ N!PollAgain("admin") \/ N!TimeOut("admin")
  /\ UNCHANGED <<vars, lba, page>>

CommandLba == Start + i

(* nvme_rw_read up to nvme_wait.  The page is fresh from memalign in the   *)
(* first turn of the loop.                                                 *)
ReadSubmit ==
  /\ Booted /\ Asking
  /\ N!Submit
  /\ lba' = CommandLba
  /\ page' = IF i = 0 THEN Unread ELSE page
  /\ UNCHANGED vars

ReadPoll == N!PollAgain("io") /\ UNCHANGED <<vars, lba, page>>

(* nvme_wait returns: an error makes nvme_rw_read panic, otherwise         *)
(* nvme_read copies from the page.                                         *)
ReadDone ==
  /\ N!Complete("io")
  /\ IF pc' = "idle" THEN Copy(page) /\ UNCHANGED <<disk, phase, part, found>>
     ELSE Fail(IF LastBlock > disk.blocks THEN "panic" ELSE "failed")
  /\ UNCHANGED <<lba, page>>

(* Mutant: the read counts as done when the wait has timed out. *)
ReadTimeOutIgnored ==
  /\ N!TimeOut("io")
  /\ i' = i + BATCH /\ left' = left - Min({left, BATCH})
  /\ UNCHANGED <<disk, phase, part, buf, found, lba, page>>

ReadTimeOut ==
  /\ N!TimeOut("io")
  /\ Fail("failed")
  /\ UNCHANGED <<lba, page>>

(* What gpt_init and the file system checks do between their reads. *)
Scan ==
  /\ Booted
  /\ HeaderRead \/ BtrfsRead \/ Fat32Read \/ ReadAsserts
  /\ UNCHANGED <<nvme, lba, page>>

Kernel == BringUp \/ ReadSubmit \/ ReadPoll \/ ReadDone \/ ReadTimeOut \/ Scan
-----------------------------------------------------------------------------
(* The controller, external.  It writes the blocks of a read before the    *)
(* completion; a read past the end gets an error status.  What it fetched  *)
(* from behind the submission queue does not read into the page.           *)
Posted == cq'["io"].entry[dev["io"].cqTail]

DeviceRead ==
  /\ N!DeviceExecute("io")
  /\ Posted.serial = issued /\ lba + BATCH > disk.blocks => Posted.status # 0
  /\ page' = IF Posted.serial = issued /\ Posted.status = 0
               THEN [k \in 0 .. BATCH - 1 |-> lba + k] ELSE page
  /\ UNCHANGED <<vars, lba>>

Controller ==
  \/ DeviceRead
  \/ (N!DeviceReady \/ N!DeviceExecute("admin")) /\ UNCHANGED <<vars, lba, page>>

StorageNext == Kernel \/ Controller

(* The kernel's loops always go on; the controller may be dead. *)
StorageSpec == StorageInit /\ [][StorageNext]_storageVars /\ WF_storageVars(Kernel)
-----------------------------------------------------------------------------
(* A read consumes its own completion, see Nvme. *)
CompletionIsOwn == N!CompletionIsOwn

(* A read that was completed does not time out. *)
CompletionVisible == N!CompletionVisible

(* With commands that take their time, complete late or never, the scan    *)
(* sees the disk as if every read were one step.                           *)
ImplementsGpt == Spec

Panics == {"panic_csts", "panic_timeout", "panic_status", "panic_ns"}

(* Every wait ends, even with a controller that stops responding: the scan *)
(* comes to its end or the kernel panics.                                  *)
ScanEnds == <>(pc \in Panics \/ phase \in {"done", "panic", "hung"})
=============================================================================
