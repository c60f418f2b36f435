--------------------------------- MODULE Gpt ---------------------------------
(***************************************************************************)
(* Finding the partitions of a disk: gpt_init (kernel/fs/gpt/gpt.c) with   *)
(* the checks for btrfs and FAT32, each of which reads through nvme_read   *)
(* (kernel/driver/nvme/rw.c).  A read command is one step here; Storage    *)
(* has it carried out by the driver and the controller of Nvme.            *)
(*                                                                         *)
(* The unit is the block of 512 bytes: every address and every length the  *)
(* kernel passes is a multiple of it, and then the test for one more block *)
(* in nvme_read never holds.  A block of a buffer is the number of the     *)
(* disk block it was read from.                                            *)
(***************************************************************************)
EXTENDS Integers, Sequences, FiniteSetsExt

CONSTANTS
  Disks,         \* the disks: sector, blocks, gpt, entries (start and kind), count
  BATCH,         \* blocks of one read command, a page: 8
  HEADER_BLOCKS, \* sizeof(gpt_header_t): 33
  BTRFS_OFFSET   \* 64 KiB: 128

ASSUME SizesAssumption == {BATCH, HEADER_BLOCKS, BTRFS_OFFSET} \subseteq Nat \ {0}

Kinds == {"btrfs", "fat32", "other"}

(* `kind' is what the disk holds at the start of the partition. *)
ASSUME DisksAssumption ==
  \A d \in Disks :
    /\ d.blocks \in Nat
    /\ d.entries \in Seq([start : Nat, kind : Kinds]) /\ d.count \in 0 .. Len(d.entries)
    /\ \A e, f \in DOMAIN d.entries :
         d.entries[e].start = d.entries[f].start /\ d.entries[e].start # 0 =>
           d.entries[e].kind = d.entries[f].kind

VARIABLES
  disk,
  phase,    \* "header", "btrfs" or "fat32", the read in progress; "done";
            \* "panic", "failed" by the controller, "hung" in an assertion
  part,     \* partition entry gpt_init is at
  i, left,  \* nvme_read: blocks read, blocks still to be copied
  buf,      \* the caller's buffer; -1 is a block not written yet
  found     \* what gpt_init has printed of each partition

vars == <<disk, phase, part, i, left, buf, found>>

(* Mutant: the check for FAT32 reads the first block of the partition. *)
StartOfPartition ==
  IF phase = "header" THEN 1
  ELSE disk.entries[part].start + (IF phase = "btrfs" THEN BTRFS_OFFSET ELSE 0)

(* What each caller of nvme_read asks for. *)
Start ==
  IF phase = "header" THEN 1
  ELSE disk.entries[part].start + (IF phase = "btrfs" THEN BTRFS_OFFSET ELSE 1)

Blocks(p) == CASE p = "header" -> HEADER_BLOCKS [] p = "btrfs" -> BATCH [] OTHER -> 1

Fresh(p) == [k \in 0 .. Blocks(p) - 1 |-> -1]

Init ==
  /\ disk \in Disks
  /\ phase = "header" /\ part = 1
  /\ i = 0 /\ left = Blocks("header") /\ buf = Fresh("header")
  /\ found = <<>>

-----------------------------------------------------------------------------
Reading == phase \in {"header", "btrfs", "fat32"}

(* The loop of nvme_read ends at its bound, or at the break. *)
Complete == i >= Blocks(phase) \/ left = 0

Asking == Reading /\ ~Complete /\ disk.sector = 512
LastBlock == Start + i + BATCH

(* Mutant: the rest is not counted down. *)
CopyKeepsLeft(page) ==
  /\ buf' = [k \in DOMAIN buf |-> IF k \in i .. i + BATCH - 1 THEN page[k - i] ELSE buf[k]]
  /\ i' = i + BATCH
  /\ UNCHANGED left

(* The part asked for is copied from the page that was read. *)
Copy(page) ==
  /\ buf' = [k \in DOMAIN buf |->
               IF k \in i .. i + Min({left, BATCH}) - 1 THEN page[k - i] ELSE buf[k]]
  /\ left' = IF left >= BATCH THEN left - BATCH ELSE 0
  /\ i' = i + BATCH

Fail(how) == phase' = how /\ UNCHANGED <<disk, part, i, left, buf, found>>

(* One command of nvme_read: BATCH blocks are read whatever is left.       *)
ReadBatch ==
  /\ Asking /\ LastBlock <= disk.blocks
  /\ Copy([k \in 0 .. BATCH - 1 |-> Start + i + k])
  /\ UNCHANGED <<disk, phase, part, found>>

(* The controller refuses a read past its last block, may report an error  *)
(* of its own or not answer, and nvme_read asserts blocks of 512 bytes.    *)
ReadPastEnd == Asking /\ LastBlock > disk.blocks /\ Fail("panic")
ReadFails == Asking /\ Fail("failed")
ReadAsserts == Reading /\ disk.sector # 512 /\ Fail("hung")

Begin(p) == phase' = p /\ i' = 0 /\ left' = Blocks(p) /\ buf' = Fresh(p)

(* gpt_init goes to entry p, or stops at the first unused one. *)
GoTo(p) ==
  /\ part' = p
  /\ IF p <= disk.count /\ disk.entries[p].start # 0
       THEN Begin("btrfs")
       ELSE phase' = "done" /\ UNCHANGED <<i, left, buf>>

HeaderRead ==
  /\ phase = "header" /\ Complete
  /\ IF disk.gpt THEN GoTo(1) ELSE phase' = "panic" /\ UNCHANGED <<part, i, left, buf>>
  /\ UNCHANGED <<disk, found>>

(* The magic of a file system is in the block read if that block is the    *)
(* one the file system keeps it in.                                        *)
Holds(kind, block) ==
  \E e \in DOMAIN disk.entries :
    /\ disk.entries[e].start # 0 /\ disk.entries[e].kind = kind
    /\ block = disk.entries[e].start + (IF kind = "btrfs" THEN BTRFS_OFFSET ELSE 1)

BtrfsRead ==
  /\ phase = "btrfs" /\ Complete
  /\ IF Holds("btrfs", buf[0])
       THEN found' = Append(found, "btrfs") /\ GoTo(part + 1)
       ELSE Begin("fat32") /\ UNCHANGED <<part, found>>
  /\ UNCHANGED disk

Fat32Read ==
  /\ phase = "fat32" /\ Complete
  /\ found' = Append(found, IF Holds("fat32", buf[0]) THEN "fat32" ELSE "other")
  /\ GoTo(part + 1)
  /\ UNCHANGED disk

Next ==
  \/ ReadBatch \/ ReadPastEnd \/ ReadFails \/ ReadAsserts
  \/ HeaderRead \/ BtrfsRead \/ Fat32Read

Spec == Init /\ [][Next]_vars
-----------------------------------------------------------------------------
(* nvme_read copies within the caller's buffer, in every iteration, and    *)
(* when it returns the buffer holds the blocks asked for.                  *)
ReadExact ==
  Reading =>
    IF Complete THEN \A k \in 0 .. Blocks(phase) - 1 : buf[k] = Start + k
    ELSE i + Min({left, BATCH}) <= Blocks(phase)

(* The used entries in front of the first unused one. *)
Used == {e \in 1 .. disk.count : \A f \in 1 .. e : disk.entries[f].start # 0}

(* Where a read, rounded up to whole pages, ends. *)
ReadEnds ==
  LET RoundUp(n) == ((n + BATCH - 1) \div BATCH) * BATCH
  IN {1 + RoundUp(HEADER_BLOCKS)} \cup
     {disk.entries[e].start + BTRFS_OFFSET + BATCH : e \in Used} \cup
     {disk.entries[e].start + 1 + BATCH : e \in Used}

(* The scan finds the used entries in order, each with its file system,    *)
(* and makes the boot panic on a disk with a valid table only where a      *)
(* read, rounded up to whole pages, would pass the end of the disk.        *)
ScanExact ==
  /\ phase = "done" => found = [e \in Used |-> disk.entries[e].kind]
  /\ phase = "panic" /\ disk.gpt => \E end \in ReadEnds : end > disk.blocks
=============================================================================
