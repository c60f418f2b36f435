---------------------------- MODULE StorageProofs ----------------------------
(***************************************************************************)
(* Proofs about nvme_read and the partition scan, for every disk and every *)
(* size of a read command, first with reads that are one step (Gpt), then  *)
(* on the driver and the controller of Nvme, for every length of the       *)
(* queues and every number of reads with which the commands stay in the    *)
(* page of the I/O submission queue (SqFits).                              *)
(***************************************************************************)
EXTENDS Storage, TLAPS

(* nvme_read: whole commands have been read, `left' is what they have not  *)
(* brought, and what they have brought is in its place.                    *)
ReadInv ==
  Reading =>
    /\ i \in Nat /\ \E m \in 0 .. i : i = m * BATCH
    /\ left = IF i >= Blocks(phase) THEN 0 ELSE Blocks(phase) - i
    /\ buf \in [0 .. Blocks(phase) - 1 -> Int]
    /\ \A k \in 0 .. Blocks(phase) - 1 : k < i => buf[k] = Start + k

(* gpt_init: the entries behind it were in use and are found, the one it   *)
(* looks at is in use too, or it has stopped there.                        *)
ScanInv ==
  /\ phase = "header" => part = 1 /\ found = <<>>
  /\ phase \in {"btrfs", "fat32", "done"} =>
       /\ part - 1 <= disk.count /\ Len(found) = part - 1
       /\ \A e \in 1 .. part - 1 :
            disk.entries[e].start # 0 /\ found[e] = disk.entries[e].kind
  /\ phase \in {"btrfs", "fat32"} => part <= disk.count /\ disk.entries[part].start # 0
  /\ phase = "fat32" => disk.entries[part].kind # "btrfs"
  /\ phase = "done" => part > disk.count \/ disk.entries[part].start = 0

PanicInv == phase = "panic" /\ disk.gpt => \E end \in ReadEnds : end > disk.blocks

GptInv ==
  /\ disk \in Disks
  /\ phase \in {"header", "btrfs", "fat32", "done", "panic", "failed", "hung"}
  /\ part \in Nat \ {0} /\ found \in Seq(Kinds)
  /\ ReadInv /\ ScanInv /\ PanicInv
-----------------------------------------------------------------------------
(* The smaller of two numbers. *)
LEMMA MinOfTwo ==
  ASSUME NEW a \in Nat, NEW b \in Nat
  PROVE  Min({a, b}) = IF a <= b THEN a ELSE b
<1> DEFINE P(x) == x \in {a, b} /\ \A y \in {a, b} : x <= y
<1>1. Min({a, b}) = CHOOSE x \in {a, b} : \A y \in {a, b} : x <= y
  BY DEF Min
<1>2. \E x \in {a, b} : \A y \in {a, b} : x <= y
  <2>1. CASE a <= b
    BY <2>1
  <2>2. CASE ~(a <= b)
    BY <2>2
  <2>3. QED
    BY <2>1, <2>2
<1>3. Min({a, b}) \in {a, b} /\ \A y \in {a, b} : Min({a, b}) <= y
  BY <1>1, <1>2
<1>4. QED
  BY <1>3

(* Every read asks for a block at least. *)
LEMMA BlocksType ==
  ASSUME NEW p
  PROVE  /\ Blocks(p) \in Nat \ {0}
         /\ p = "btrfs" => Blocks(p) = BATCH
         /\ p = "fat32" => Blocks(p) = 1
         /\ p = "header" => Blocks(p) = HEADER_BLOCKS
         /\ BATCH \in Nat \ {0} /\ HEADER_BLOCKS \in Nat \ {0} /\ BTRFS_OFFSET \in Nat \ {0}
<1>1. BATCH \in Nat \ {0} /\ HEADER_BLOCKS \in Nat \ {0} /\ BTRFS_OFFSET \in Nat \ {0}
  BY SizesAssumption
<1>2. CASE p = "header"
  BY <1>1, <1>2 DEF Blocks
<1>3. CASE p = "btrfs"
  BY <1>1, <1>3 DEF Blocks
<1>4. CASE p # "header" /\ p # "btrfs"
  BY <1>1, <1>4 DEF Blocks
<1>5. QED
  BY <1>1, <1>2, <1>3, <1>4

(* The entries of a disk. *)
LEMMA DiskType ==
  ASSUME disk \in Disks
  PROVE  /\ disk.blocks \in Nat /\ disk.count \in Nat /\ Len(disk.entries) \in Nat
         /\ disk.count <= Len(disk.entries) /\ DOMAIN disk.entries = 1 .. Len(disk.entries)
         /\ \A e \in 1 .. Len(disk.entries) :
              disk.entries[e].start \in Nat /\ disk.entries[e].kind \in Kinds
<1>1. /\ disk.blocks \in Nat
      /\ disk.entries \in Seq([start : Nat, kind : Kinds]) /\ disk.count \in 0 .. Len(disk.entries)
  BY DisksAssumption
<1>2. ASSUME NEW S, NEW s \in Seq(S)
      PROVE  /\ Len(s) \in Nat /\ DOMAIN s = 1 .. Len(s)
             /\ \A e \in 1 .. Len(s) : s[e] \in S
  OBVIOUS
<1>3. /\ Len(disk.entries) \in Nat /\ DOMAIN disk.entries = 1 .. Len(disk.entries)
      /\ \A e \in 1 .. Len(disk.entries) : disk.entries[e] \in [start : Nat, kind : Kinds]
  BY <1>1, <1>2
<1>4. \A r \in [start : Nat, kind : Kinds] : r.start \in Nat /\ r.kind \in Kinds
  OBVIOUS
<1>5. disk.count \in Nat /\ disk.count <= Len(disk.entries)
  BY <1>1, <1>3
<1>6. QED
  BY <1>1, <1>3, <1>4, <1>5

(* The first block a read asks for. *)
LEMMA StartType ==
  ASSUME GptInv, Reading
  PROVE  /\ Start \in Nat
         /\ phase = "header" => Start = 1
         /\ phase = "btrfs" => Start = disk.entries[part].start + BTRFS_OFFSET
         /\ phase = "fat32" => Start = disk.entries[part].start + 1
         /\ phase # "header" => part \in 1 .. Len(disk.entries)
<1>1. BTRFS_OFFSET \in Nat
  BY BlocksType
<1>2. CASE phase = "header"
  BY <1>2 DEF Start
<1>3. CASE phase \in {"btrfs", "fat32"}
  <2>1. part \in 1 .. Len(disk.entries)
    BY <1>3, DiskType DEF GptInv, ScanInv
  <2>2. disk.entries[part].start \in Nat
    BY <2>1, DiskType DEF GptInv
  <2>3. QED
    BY <1>1, <1>3, <2>1, <2>2 DEF Start
<1>4. QED
  BY <1>2, <1>3 DEF Reading

(* A command of nvme_read brings the next blocks, and only the ones that   *)
(* are left to the buffer.                                                 *)
LEMMA ReadBatchInv ==
  ASSUME GptInv, ReadBatch
  PROVE  GptInv'
<1> DEFINE n == Blocks(phase)
           cnt == Min({left, BATCH})
<1>1. /\ Reading /\ ~(i >= n) /\ left # 0
      /\ disk' = disk /\ phase' = phase /\ part' = part /\ found' = found
      /\ buf' = [k \in DOMAIN buf |->
                   IF k \in i .. i + cnt - 1
                     THEN [j \in 0 .. BATCH - 1 |-> Start + i + j][k - i] ELSE buf[k]]
      /\ left' = IF left >= BATCH THEN left - BATCH ELSE 0
      /\ i' = i + BATCH
  BY DEF ReadBatch, Asking, Complete, Copy
<1>2. PICK m \in 0 .. i : i = m * BATCH
  BY <1>1 DEF GptInv, ReadInv
<1>3. /\ i \in Nat /\ left = n - i /\ buf \in [0 .. n - 1 -> Int]
      /\ \A k \in 0 .. n - 1 : k < i => buf[k] = Start + k
  BY <1>1 DEF GptInv, ReadInv
<1>4. n \in Nat \ {0} /\ BATCH \in Nat \ {0}
  BY BlocksType
<1>5. Start \in Nat /\ Start' = Start
  BY <1>1, StartType DEF Start
<1>6. cnt = IF left <= BATCH THEN left ELSE BATCH
  BY <1>1, <1>3, <1>4, MinOfTwo
<1> HIDE DEF n, cnt
<1>7. ASSUME NEW k \in 0 .. n - 1
      PROVE  /\ buf'[k] \in Int
             /\ k < i + BATCH => buf'[k] = Start + k
  <2>1. DOMAIN buf = 0 .. n - 1
    BY <1>3
  <2>2. CASE k \in i .. i + cnt - 1
    <3>1. k - i \in 0 .. BATCH - 1
      BY <1>1, <1>3, <1>4, <1>6, <2>2
    <3>2. buf'[k] = Start + i + (k - i)
      BY <1>1, <2>1, <2>2, <3>1
    <3>3. QED
      BY <1>3, <1>5, <3>2
  <2>3. CASE k \notin i .. i + cnt - 1
    <3>1. buf'[k] = buf[k]
      BY <1>1, <2>1, <2>3
    <3>2. k < i + BATCH => k < i
      BY <1>1, <1>3, <1>4, <1>6, <2>3
    <3>3. QED
      BY <1>3, <3>1, <3>2
  <2>4. QED
    BY <2>2, <2>3
<1>8. buf' \in [0 .. n - 1 -> Int]
  BY <1>1, <1>3, <1>7
<1>9. ReadInv'
  <2>1. i' \in Nat /\ \E l \in 0 .. i' : i' = l * BATCH
    <3>1. m + 1 \in 0 .. i' /\ i' = (m + 1) * BATCH
      BY <1>1, <1>2, <1>3, <1>4
    <3>2. i' \in Nat
      BY <1>1, <1>3, <1>4
    <3>3. QED
      BY <3>1, <3>2
  <2>2. left' = IF i' >= n THEN 0 ELSE n - i'
    BY <1>1, <1>3, <1>4
  <2>3. Blocks(phase') = n
    BY <1>1 DEF n
  <2>4. \A k \in 0 .. n - 1 : k < i' => buf'[k] = Start' + k
    BY <1>1, <1>5, <1>7
  <2>5. QED
    BY <1>8, <2>1, <2>2, <2>3, <2>4 DEF ReadInv
<1>10. ScanInv' /\ PanicInv'
  BY <1>1 DEF GptInv, ScanInv, PanicInv, Reading
<1>11. QED
  BY <1>1, <1>9, <1>10 DEF GptInv

(* A read starts with nothing copied. *)
LEMMA BeginRead ==
  ASSUME NEW p \in {"header", "btrfs", "fat32"}, Begin(p)
  PROVE  phase' = p /\ ReadInv'
<1>1. /\ phase' = p /\ i' = 0 /\ left' = Blocks(p)
      /\ buf' = [k \in 0 .. Blocks(p) - 1 |-> -1]
  BY DEF Begin, Fresh
<1>2. Blocks(p) \in Nat \ {0} /\ BATCH \in Nat
  BY BlocksType
<1>3. i' \in Nat /\ \E m \in 0 .. i' : i' = m * BATCH
  <2>1. 0 \in 0 .. i' /\ i' = 0 * BATCH
    BY <1>1, <1>2
  <2>2. QED
    BY <1>1, <2>1
<1>4. left' = IF i' >= Blocks(p) THEN 0 ELSE Blocks(p) - i'
  BY <1>1, <1>2
<1>5. buf' \in [0 .. Blocks(p) - 1 -> Int]
  BY <1>1
<1>6. \A k \in 0 .. Blocks(p) - 1 : ~(k < i')
  BY <1>1, <1>2
<1>7. QED
  BY <1>1, <1>3, <1>4, <1>5, <1>6 DEF ReadInv

(* gpt_init goes to an entry once all entries in front of it are found.    *)
LEMMA GoToInv ==
  ASSUME disk \in Disks, NEW p \in Nat \ {0}, GoTo(p), disk' = disk,
         found' \in Seq(Kinds), Len(found') = p - 1, p - 1 <= disk.count,
         \A e \in 1 .. p - 1 : disk.entries[e].start # 0 /\ found'[e] = disk.entries[e].kind
  PROVE  GptInv'
<1>1. part' = p
  BY DEF GoTo
<1>2. disk.count \in Nat
  BY DiskType
<1>3. CASE p <= disk.count /\ disk.entries[p].start # 0
  <2>1. phase' = "btrfs" /\ ReadInv'
    BY <1>3, BeginRead DEF GoTo
  <2>2. ScanInv'
    BY <1>1, <1>3, <2>1 DEF ScanInv
  <2>3. PanicInv'
    BY <2>1 DEF PanicInv
  <2>4. QED
    BY <1>1, <2>1, <2>2, <2>3 DEF GptInv
<1>4. CASE ~(p <= disk.count /\ disk.entries[p].start # 0)
  <2>1. phase' = "done"
    BY <1>4 DEF GoTo
  <2>2. ReadInv' /\ PanicInv'
    BY <2>1 DEF ReadInv, PanicInv, Reading
  <2>3. p > disk.count \/ disk.entries[p].start = 0
    BY <1>2, <1>4
  <2>4. ScanInv'
    BY <1>1, <2>1, <2>3 DEF ScanInv
  <2>5. QED
    BY <1>1, <2>1, <2>2, <2>4 DEF GptInv
<1>5. QED
  BY <1>3, <1>4

(* The entries up to the one gpt_init looks at are the used ones in front  *)
(* of the first unused one.                                                *)
LEMMA PartUsed ==
  ASSUME GptInv, phase \in {"btrfs", "fat32"}
  PROVE  part \in Used
<1>1. part \in Nat \ {0} /\ part <= disk.count /\ disk.entries[part].start # 0
  BY DEF GptInv, ScanInv
<1>2. \A e \in 1 .. part - 1 : disk.entries[e].start # 0
  BY DEF GptInv, ScanInv
<1>3. disk.count \in Nat
  BY DiskType DEF GptInv
<1>4. part \in 1 .. disk.count
  BY <1>1, <1>3
<1>5. \A e \in 1 .. part : e = part \/ e \in 1 .. part - 1
  BY <1>1
<1>6. QED
  BY <1>1, <1>2, <1>4, <1>5 DEF Used

(* A read command passes the end of the disk only if the whole read,       *)
(* rounded up to whole commands, does.                                     *)
LEMMA ReadPastEndInv ==
  ASSUME GptInv, ReadPastEnd
  PROVE  GptInv'
<1>1. /\ Reading /\ i < Blocks(phase) /\ Start + i + BATCH > disk.blocks
      /\ phase' = "panic" /\ disk' = disk /\ part' = part /\ found' = found
  <2>1. /\ Reading /\ ~(i >= Blocks(phase)) /\ Start + i + BATCH > disk.blocks
        /\ phase' = "panic" /\ disk' = disk /\ part' = part /\ found' = found
    BY DEF ReadPastEnd, Asking, Complete, Fail, LastBlock
  <2>2. i \in Nat /\ Blocks(phase) \in Nat
    BY <2>1, BlocksType DEF GptInv, ReadInv
  <2>3. QED
    BY <2>1, <2>2
<1>2. PICK m \in 0 .. i : i = m * BATCH
  BY <1>1 DEF GptInv, ReadInv
<1>3. i \in Nat
  BY <1>1 DEF GptInv, ReadInv
<1>4. BATCH \in Nat \ {0} /\ HEADER_BLOCKS \in Nat \ {0}
  BY BlocksType
<1>5. Start \in Nat /\ disk.blocks \in Nat
  BY <1>1, StartType, DiskType DEF GptInv
<1>6. \E end \in ReadEnds : end > disk.blocks
  <2>1. CASE phase = "header"
    <3> DEFINE q == (HEADER_BLOCKS + BATCH - 1) \div BATCH
    <3>1. Start = 1 /\ i < HEADER_BLOCKS
      BY <1>1, <2>1, StartType, BlocksType
    <3>2. q \in Nat /\ HEADER_BLOCKS + BATCH - 1 < q * BATCH + BATCH
      BY <1>4
    <3> HIDE DEF q
    <3>3. m < q
      <4>1. SUFFICES ASSUME q <= m PROVE FALSE
        BY <1>2, <1>3, <3>2
      <4>2. q * BATCH <= m * BATCH
        BY <1>2, <1>3, <1>4, <3>2, <4>1
      <4>3. QED
        BY <1>2, <1>3, <1>4, <3>1, <3>2, <4>2
    <3>4. m * BATCH + BATCH <= q * BATCH
      <4>1. (m + 1) * BATCH <= q * BATCH
        BY <1>2, <1>3, <1>4, <3>2, <3>3
      <4>2. QED
        BY <1>2, <1>3, <1>4, <4>1
    <3>5. 1 + q * BATCH > disk.blocks
      BY <1>1, <1>2, <1>3, <1>4, <1>5, <3>1, <3>2, <3>4
    <3>6. 1 + q * BATCH \in ReadEnds
      BY DEF ReadEnds, q
    <3>7. QED
      BY <3>5, <3>6
  <2>2. CASE phase = "btrfs"
    <3>1. Start = disk.entries[part].start + BTRFS_OFFSET /\ i < BATCH
      BY <1>1, <2>2, StartType, BlocksType
    <3>2. i = 0
      <4>1. SUFFICES ASSUME m >= 1 PROVE FALSE
        BY <1>2, <1>3, <1>4
      <4>2. 1 * BATCH <= m * BATCH
        BY <1>2, <1>3, <1>4, <4>1
      <4>3. QED
        BY <1>2, <1>3, <1>4, <3>1, <4>2
    <3>3. Start + BATCH > disk.blocks
      BY <1>1, <1>4, <1>5, <3>2
    <3>4. disk.entries[part].start + BTRFS_OFFSET + BATCH \in ReadEnds
      BY <2>2, PartUsed DEF ReadEnds
    <3>5. QED
      BY <3>1, <3>3, <3>4
  <2>3. CASE phase = "fat32"
    <3>1. Start = disk.entries[part].start + 1 /\ i < 1
      BY <1>1, <2>3, StartType, BlocksType
    <3>2. Start + BATCH > disk.blocks
      BY <1>1, <1>3, <1>4, <1>5, <3>1
    <3>3. disk.entries[part].start + 1 + BATCH \in ReadEnds
      BY <2>3, PartUsed DEF ReadEnds
    <3>4. QED
      BY <3>1, <3>2, <3>3
  <2>4. QED
    BY <1>1, <2>1, <2>2, <2>3 DEF Reading
<1>7. ReadEnds' = ReadEnds
  BY <1>1 DEF ReadEnds, Used
<1>8. PanicInv'
  BY <1>1, <1>6, <1>7 DEF PanicInv
<1>9. ReadInv' /\ ScanInv'
  BY <1>1 DEF ReadInv, ScanInv, Reading
<1>10. QED
  BY <1>1, <1>8, <1>9 DEF GptInv

(* A read that fails or hangs ends the scan. *)
LEMMA ReadStopsInv ==
  ASSUME GptInv, ReadFails \/ ReadAsserts
  PROVE  GptInv'
<1>1. /\ phase' \in {"failed", "hung"}
      /\ disk' = disk /\ part' = part /\ found' = found
  BY DEF ReadFails, ReadAsserts, Fail
<1>2. ReadInv' /\ ScanInv' /\ PanicInv'
  BY <1>1 DEF ReadInv, ScanInv, PanicInv, Reading
<1>3. QED
  BY <1>1, <1>2 DEF GptInv

(* When nvme_read returns, the buffer holds the blocks asked for. *)
LEMMA ReadReturns ==
  ASSUME GptInv, Reading, Complete
  PROVE  \A k \in 0 .. Blocks(phase) - 1 : buf[k] = Start + k
<1>1. i \in Nat /\ left = (IF i >= Blocks(phase) THEN 0 ELSE Blocks(phase) - i)
  BY DEF GptInv, ReadInv
<1>2. Blocks(phase) \in Nat
  BY BlocksType
<1>3. i >= Blocks(phase)
  BY <1>1, <1>2 DEF Complete
<1>4. \A k \in 0 .. Blocks(phase) - 1 : k < i
  BY <1>1, <1>2, <1>3
<1>5. QED
  BY <1>4 DEF GptInv, ReadInv

(* The first block of a buffer shows the file system of the partition that *)
(* is read, since partitions with the same first block are the same.       *)
LEMMA HoldsKind ==
  ASSUME GptInv, Complete, NEW kind \in {"btrfs", "fat32"}, phase = kind
  PROVE  Holds(kind, buf[0]) <=> disk.entries[part].kind = kind
<1>1. Reading /\ 0 \in 0 .. Blocks(phase) - 1
  BY BlocksType DEF Reading
<1>2. part \in 1 .. Len(disk.entries)
  BY <1>1, StartType
<1>3. DOMAIN disk.entries = 1 .. Len(disk.entries)
  BY DiskType DEF GptInv
<1>4. /\ disk.entries[part].start # 0
      /\ \A e \in 1 .. Len(disk.entries) : disk.entries[e].start \in Nat
  BY DiskType DEF GptInv, ScanInv
<1> DEFINE off == IF kind = "btrfs" THEN BTRFS_OFFSET ELSE 1
<1>5. off \in Nat
  BY BlocksType
<1>6. buf[0] = disk.entries[part].start + off
  <2>1. buf[0] = Start + 0
    BY <1>1, ReadReturns
  <2>2. Start \in Nat /\ Start = disk.entries[part].start + off
    BY <1>1, StartType
  <2>3. QED
    BY <2>1, <2>2
<1> HIDE DEF off
<1>7. \A e \in 1 .. Len(disk.entries) :
        buf[0] = disk.entries[e].start + off <=> disk.entries[e].start = disk.entries[part].start
  BY <1>2, <1>4, <1>5, <1>6
<1>8. \A e \in 1 .. Len(disk.entries) :
        disk.entries[e].start = disk.entries[part].start /\ disk.entries[e].start # 0 =>
          disk.entries[e].kind = disk.entries[part].kind
  BY <1>2, <1>3, DisksAssumption DEF GptInv
<1>9. Holds(kind, buf[0]) <=>
        \E e \in 1 .. Len(disk.entries) :
          /\ disk.entries[e].start # 0 /\ disk.entries[e].kind = kind
          /\ buf[0] = disk.entries[e].start + off
  BY <1>3 DEF Holds, off
<1>10. QED
  BY <1>2, <1>4, <1>7, <1>8, <1>9

(* With a header that is not a partition table the boot panics; otherwise  *)
(* the scan starts at the first entry.                                     *)
LEMMA HeaderReadInv ==
  ASSUME GptInv, HeaderRead
  PROVE  GptInv'
<1>1. disk' = disk /\ found' = found /\ disk \in Disks /\ found = <<>> /\ part \in Nat \ {0}
  BY DEF HeaderRead, GptInv, ScanInv
<1>2. CASE disk.gpt
  <2>1. GoTo(1) /\ disk.count \in Nat
    BY <1>2, DiskType DEF HeaderRead, GptInv
  <2>2. found' \in Seq(Kinds) /\ Len(found') = 1 - 1 /\ 1 - 1 <= disk.count
    BY <1>1, <2>1
  <2>3. \A e \in 1 .. 1 - 1 : disk.entries[e].start # 0 /\ found'[e] = disk.entries[e].kind
    OBVIOUS
  <2>4. QED
    BY <1>1, <2>1, <2>2, <2>3, GoToInv
<1>3. CASE ~disk.gpt
  <2>1. phase' = "panic" /\ part' = part
    BY <1>3 DEF HeaderRead
  <2>2. ReadInv' /\ ScanInv' /\ PanicInv'
    BY <1>1, <1>3, <2>1 DEF ReadInv, ScanInv, PanicInv, Reading
  <2>3. QED
    BY <1>1, <2>1, <2>2 DEF GptInv
<1>4. QED
  BY <1>2, <1>3

(* gpt_init has printed the file system of the entry it looks at and goes  *)
(* to the next one.                                                        *)
LEMMA PrintedInv ==
  ASSUME GptInv, phase \in {"btrfs", "fat32"}, disk' = disk, GoTo(part + 1),
         found' = Append(found, disk.entries[part].kind)
  PROVE  GptInv'
<1>1. /\ disk \in Disks /\ part \in Nat \ {0} /\ found \in Seq(Kinds)
      /\ Len(found) = part - 1 /\ part <= disk.count /\ disk.entries[part].start # 0
      /\ \A e \in 1 .. part - 1 : disk.entries[e].start # 0 /\ found[e] = disk.entries[e].kind
  BY DEF GptInv, ScanInv
<1>2. disk.entries[part].kind \in Kinds
  <2>1. part \in 1 .. Len(disk.entries)
    BY <1>1, DiskType
  <2>2. QED
    BY <1>1, <2>1, DiskType
<1>3. ASSUME NEW S, NEW s \in Seq(S), NEW x \in S
      PROVE  /\ Append(s, x) \in Seq(S) /\ Len(Append(s, x)) = Len(s) + 1
             /\ Append(s, x)[Len(s) + 1] = x
             /\ \A e \in 1 .. Len(s) : Append(s, x)[e] = s[e]
  OBVIOUS
<1>4. /\ found' \in Seq(Kinds) /\ Len(found') = part
      /\ found'[part] = disk.entries[part].kind
      /\ \A e \in 1 .. part - 1 : found'[e] = found[e]
  <2>1. /\ found' \in Seq(Kinds) /\ Len(found') = Len(found) + 1
        /\ found'[Len(found) + 1] = disk.entries[part].kind
        /\ \A e \in 1 .. Len(found) : found'[e] = found[e]
    BY <1>1, <1>2, <1>3
  <2>2. Len(found) + 1 = part
    BY <1>1
  <2>3. QED
    BY <1>1, <2>1, <2>2
<1>5. /\ part + 1 \in Nat \ {0} /\ Len(found') = (part + 1) - 1
      /\ (part + 1) - 1 <= disk.count
      /\ \A e \in 1 .. (part + 1) - 1 : e = part \/ e \in 1 .. part - 1
  BY <1>1, <1>4
<1>6. \A e \in 1 .. (part + 1) - 1 :
        disk.entries[e].start # 0 /\ found'[e] = disk.entries[e].kind
  BY <1>1, <1>4, <1>5
<1>7. QED
  BY <1>1, <1>4, <1>5, <1>6, GoToInv

(* The check for btrfs. *)
LEMMA BtrfsReadInv ==
  ASSUME GptInv, BtrfsRead
  PROVE  GptInv'
<1>1. phase = "btrfs" /\ Complete /\ disk' = disk
  BY DEF BtrfsRead
<1>2. Holds("btrfs", buf[0]) <=> disk.entries[part].kind = "btrfs"
  BY <1>1, HoldsKind
<1>3. CASE disk.entries[part].kind = "btrfs"
  <2>1. found' = Append(found, disk.entries[part].kind) /\ GoTo(part + 1)
    BY <1>2, <1>3 DEF BtrfsRead
  <2>2. QED
    BY <1>1, <2>1, PrintedInv
<1>4. CASE disk.entries[part].kind # "btrfs"
  <2>1. Begin("fat32") /\ part' = part /\ found' = found
    BY <1>2, <1>4 DEF BtrfsRead
  <2>2. phase' = "fat32" /\ ReadInv'
    BY <2>1, BeginRead
  <2>3. ScanInv' /\ PanicInv'
    BY <1>1, <1>4, <2>1, <2>2 DEF GptInv, ScanInv, PanicInv
  <2>4. QED
    BY <1>1, <2>1, <2>2, <2>3 DEF GptInv
<1>5. QED
  BY <1>3, <1>4

(* The check for FAT32, of a partition that is not btrfs. *)
LEMMA Fat32ReadInv ==
  ASSUME GptInv, Fat32Read
  PROVE  GptInv'
<1>1. phase = "fat32" /\ Complete /\ disk' = disk /\ GoTo(part + 1)
  BY DEF Fat32Read
<1>2. Holds("fat32", buf[0]) <=> disk.entries[part].kind = "fat32"
  BY <1>1, HoldsKind
<1>3. disk.entries[part].kind \in Kinds /\ disk.entries[part].kind # "btrfs"
  <2>1. part \in 1 .. Len(disk.entries)
    BY <1>1, StartType DEF Reading
  <2>2. QED
    BY <1>1, <2>1, DiskType DEF GptInv, ScanInv
<1>4. found' = Append(found, disk.entries[part].kind)
  BY <1>2, <1>3 DEF Fat32Read, Kinds
<1>5. QED
  BY <1>1, <1>4, PrintedInv

(* The scan starts with the read of the header. *)
LEMMA InitGpt == Init => GptInv
<1> SUFFICES ASSUME Init PROVE GptInv
  OBVIOUS
<1>1. /\ disk \in Disks /\ phase = "header" /\ part = 1 /\ found = <<>>
      /\ i = 0 /\ left = Blocks("header") /\ buf = [k \in 0 .. Blocks("header") - 1 |-> -1]
  BY DEF Init, Fresh
<1>2. Blocks("header") \in Nat \ {0} /\ BATCH \in Nat
  BY BlocksType
<1>3. i \in Nat /\ \E m \in 0 .. i : i = m * BATCH
  <2>1. 0 \in 0 .. i /\ i = 0 * BATCH
    BY <1>1, <1>2
  <2>2. QED
    BY <1>1, <2>1
<1>4. left = IF i >= Blocks("header") THEN 0 ELSE Blocks("header") - i
  BY <1>1, <1>2
<1>5. buf \in [0 .. Blocks("header") - 1 -> Int]
  BY <1>1
<1>6. \A k \in 0 .. Blocks("header") - 1 : ~(k < i)
  BY <1>1, <1>2
<1>7. ReadInv
  BY <1>1, <1>3, <1>4, <1>5, <1>6 DEF ReadInv
<1>8. ScanInv /\ PanicInv
  BY <1>1 DEF ScanInv, PanicInv
<1>9. QED
  BY <1>1, <1>7, <1>8 DEF GptInv

(* Every step of gpt_init keeps the invariant. *)
LEMMA NextGpt == GptInv /\ [Next]_vars => GptInv'
<1> SUFFICES ASSUME GptInv, [Next]_vars PROVE GptInv'
  OBVIOUS
<1>1. CASE ReadBatch
  BY <1>1, ReadBatchInv
<1>2. CASE ReadPastEnd
  BY <1>2, ReadPastEndInv
<1>3. CASE ReadFails \/ ReadAsserts
  BY <1>3, ReadStopsInv
<1>4. CASE HeaderRead
  BY <1>4, HeaderReadInv
<1>5. CASE BtrfsRead
  BY <1>5, BtrfsReadInv
<1>6. CASE Fat32Read
  BY <1>6, Fat32ReadInv
<1>7. CASE UNCHANGED vars
  BY <1>7 DEF vars, GptInv, ReadInv, ScanInv, PanicInv, Reading, Start, ReadEnds, Used
<1>8. QED
  BY <1>1, <1>2, <1>3, <1>4, <1>5, <1>6, <1>7 DEF Next

(* The inductive invariant of the partition scan. *)
THEOREM GptCorrect == Spec => []GptInv
<1>1. QED
  BY InitGpt, NextGpt, PTL DEF Spec

(* nvme_read never copies past the caller's buffer and returns the blocks  *)
(* it was asked for, whatever the size of a command, of the header and of  *)
(* the disk.                                                               *)
THEOREM ReadCorrect == Spec => []ReadExact
<1>1. GptInv => ReadExact
  <2> SUFFICES ASSUME GptInv, Reading
               PROVE  /\ Complete => \A k \in 0 .. Blocks(phase) - 1 : buf[k] = Start + k
                      /\ ~Complete => i + Min({left, BATCH}) <= Blocks(phase)
    BY DEF ReadExact
  <2>1. ASSUME ~Complete PROVE i + Min({left, BATCH}) <= Blocks(phase)
    <3>1. i \in Nat /\ left = (IF i >= Blocks(phase) THEN 0 ELSE Blocks(phase) - i)
      BY DEF GptInv, ReadInv
    <3>2. Blocks(phase) \in Nat /\ BATCH \in Nat
      BY BlocksType
    <3>3. left \in Nat /\ i + left = Blocks(phase)
      BY <2>1, <3>1, <3>2 DEF Complete
    <3>4. Min({left, BATCH}) = IF left <= BATCH THEN left ELSE BATCH
      BY <3>2, <3>3, MinOfTwo
    <3>5. QED
      BY <3>1, <3>2, <3>3, <3>4
  <2>2. QED
    BY <2>1, ReadReturns
<1>2. QED
  BY <1>1, GptCorrect, PTL

(* gpt_init finds the used entries in front of the first unused one, in    *)
(* order and each with its file system, and panics on a disk with a table  *)
(* only where a read would pass the end of the disk.                       *)
THEOREM ScanCorrect == Spec => []ScanExact
<1>1. GptInv => ScanExact
  <2> SUFFICES ASSUME GptInv PROVE ScanExact
    OBVIOUS
  <2>1. ASSUME phase = "done" PROVE found = [e \in Used |-> disk.entries[e].kind]
    <3>1. /\ part \in Nat \ {0} /\ found \in Seq(Kinds)
          /\ part - 1 <= disk.count /\ Len(found) = part - 1
          /\ \A e \in 1 .. part - 1 : disk.entries[e].start # 0 /\ found[e] = disk.entries[e].kind
          /\ part > disk.count \/ disk.entries[part].start = 0
      BY <2>1 DEF GptInv, ScanInv
    <3>2. disk.count \in Nat
      BY DiskType DEF GptInv
    <3>3. ASSUME NEW e \in 1 .. part - 1 PROVE e \in Used
      <4>1. e \in 1 .. disk.count /\ \A f \in 1 .. e : f \in 1 .. part - 1
        BY <3>1, <3>2
      <4>2. QED
        BY <3>1, <4>1 DEF Used
    <3>4. ASSUME NEW e \in Used PROVE e \in 1 .. part - 1
      <4>1. e \in 1 .. disk.count /\ \A f \in 1 .. e : disk.entries[f].start # 0
        BY DEF Used
      <4>2. e < part
        <5>1. SUFFICES ASSUME e >= part PROVE FALSE
          BY <3>1, <3>2, <4>1
        <5>2. part \in 1 .. e /\ ~(part > disk.count)
          BY <3>1, <3>2, <4>1, <5>1
        <5>3. QED
          BY <3>1, <4>1, <5>2
      <4>3. QED
        BY <3>1, <4>1, <4>2
    <3>5. Used = 1 .. part - 1
      BY <3>3, <3>4
    <3>6. found = [e \in 1 .. part - 1 |-> found[e]]
      <4>1. ASSUME NEW s \in Seq(Kinds) PROVE s = [e \in 1 .. Len(s) |-> s[e]]
        OBVIOUS
      <4>2. QED
        BY <3>1, <4>1
    <3>7. QED
      BY <3>1, <3>5, <3>6
  <2>2. QED
    BY <2>1 DEF GptInv, PanicInv, ScanExact
<1>2. QED
  BY <1>1, GptCorrect, PTL
-----------------------------------------------------------------------------
(* The driver waits for the completion of the command issued last, or has  *)
(* given up waiting.                                                       *)
InWait == pc \in {"polling", "panic_timeout"}

(* A command the controller has not completed, and a completion the driver *)
(* has not consumed: there is at most one of both together.                *)
Outstanding(q) == posted < issued /\ q = N!PairOf(issued)
Unseen(q) == InWait /\ posted = issued /\ q = N!PairOf(issued)

(* The completions consumed on both pairs, and on one. *)
Done == IF InWait THEN issued - 1 ELSE issued
Consumed(q) == IF q = "admin" THEN IF Done > 4 THEN 4 ELSE Done
               ELSE IF Done > 4 THEN Done - 4 ELSE 0

(* The index behind k in a queue of mask + 1 entries. *)
After(k, mask) == IF k = mask THEN 0 ELSE k + 1

Devs == [sqLen : Nat, cqLen : Nat, sqHead : Nat, sqTail : Nat,
         cqHead : Nat, cqTail : Nat, phase : {0, 1}]
Cqes == [phase : {0, 1}, serial : Nat, sq_head : Nat, status : {0, 1}]

(* A submission queue s and the controller's view d of it: the controller  *)
(* knows its length and its tail.                                          *)
SqType(s, d) ==
  /\ s \in [mask : Nat, head : Nat, tail : Nat, entry : [0 .. PageSqes - 1 -> Nat]]
  /\ s.tail <= s.mask
  /\ d.sqLen \in {0, s.mask + 1} /\ d.sqHead <= s.mask /\ d.sqTail = s.tail

(* Command n is the one the controller fetches next, or there is none. *)
Fetchable(s, d, n) ==
  /\ s.tail = After(d.sqHead, s.mask)
  /\ d.sqHead \in 0 .. PageSqes - 1 /\ s.entry[d.sqHead] = n
Fetched(s, d) == d.sqHead = s.tail

(* A completion queue: the phase of the driver's first lap is 1, that of   *)
(* the second 254.                                                         *)
CqType(c, d) ==
  /\ c \in [mask : Nat, head : Nat, phase : {1, 254}, entry : [0 .. c.mask -> Cqes]]
  /\ c.head <= c.mask
  /\ d.cqLen \in {0, c.mask + 1} /\ (d.sqLen # 0 => d.cqLen # 0)
  /\ d.cqHead = c.head /\ d.cqTail <= c.mask

(* In the first lap the head is where the number of completions says, and  *)
(* the entries behind it have not been used.                               *)
FirstLap(c, n) ==
  /\ c.head = n
  /\ \A k \in 0 .. c.mask : k > c.head => c.entry[k].phase = 0

(* The completion of command n is at the head, or the controller will      *)
(* write the next one there.                                               *)
Ready(c, d, n) ==
  /\ c.entry[c.head].phase = 1 /\ c.entry[c.head].serial = n
  /\ d.cqTail = After(c.head, c.mask) /\ d.phase = IF c.head = c.mask THEN 0 ELSE 1
Awaited(c, d) == c.entry[c.head].phase = 0 /\ d.cqTail = c.head /\ d.phase = 1

SqOK(q) ==
  /\ SqType(sq[q], dev[q])
  /\ IF Outstanding(q) THEN Fetchable(sq[q], dev[q], issued) ELSE Fetched(sq[q], dev[q])

CqOK(q) ==
  /\ CqType(cq[q], dev[q])
  /\ cq[q].phase = 254 => Consumed(q) = cq[q].mask + 1
  /\ cq[q].phase = 1 =>
       /\ FirstLap(cq[q], Consumed(q))
       /\ IF Unseen(q) THEN Ready(cq[q], dev[q], issued) ELSE Awaited(cq[q], dev[q])

(* nvme_init: the length of every queue that commands are put on, and what *)
(* the controller has been told of the I/O queues.                         *)
LengthsInv ==
  /\ pc \in {"wait_enabled", "idle", "polling"} =>
       sq["admin"].mask = AdminSqLen - 1 /\ cq["admin"].mask = AdminCqLen - 1
  /\ issued >= 3 => cq["io"].mask = N!IoLen - 1
  /\ issued >= 4 => sq["io"].mask = N!IoLen - 1 /\ dev["io"].cqLen = N!IoLen

CreationInv ==
  /\ issued < 3 => dev["io"].cqLen = 0
  /\ issued < 4 => dev["io"].sqLen = 0
  /\ issued <= 4 => dev["io"].sqHead = 0 /\ dev["io"].cqHead = 0 /\ dev["io"].cqTail = 0
                      /\ dev["io"].sqTail = 0 /\ dev["io"].phase = 1
  /\ issued = 3 /\ posted = 3 =>
       LET c == cq["admin"]
       IN \/ dev["io"].cqLen = N!IoLen
          \/ pc = "panic_status"
          \/ InWait /\ (N!Polled(c) => c.entry[c.head].status = 1)

(* The I/O commands use one slot after the other. *)
TailInv == sq["io"].tail = 0 \/ sq["io"].tail + 4 <= issued

ProgressInv ==
  /\ pc \in {"start", "wait_disabled", "wait_enabled", "idle", "polling"} \cup Panics
  /\ issued \in Nat /\ issued <= 4 + MaxReads
  /\ posted = issued \/ (InWait /\ posted = issued - 1)
  /\ InWait => issued > 0
  /\ ~InWait => got = issued
  /\ pc \in {"start", "wait_disabled", "wait_enabled", "panic_csts"} => issued = 0

NvmeInv ==
  /\ ProgressInv /\ LengthsInv /\ CreationInv /\ TailInv
  /\ DOMAIN sq = N!Pairs /\ DOMAIN cq = N!Pairs /\ dev \in [N!Pairs -> Devs]
  /\ \A q \in N!Pairs : SqOK(q) /\ CqOK(q)

(* nvme_read: the command on the I/O queue is the one the loop is at, and  *)
(* once it has succeeded the page holds its blocks.                        *)
PageInv ==
  pc = "polling" /\ issued > 4 =>
    /\ Asking /\ lba = Start + i
    /\ LET c == cq["io"]
       IN posted = issued /\ N!Polled(c) /\ c.entry[c.head].status = 0 =>
            page = [k \in 0 .. BATCH - 1 |-> lba + k] /\ ~(lba + BATCH > disk.blocks)

StorageInv == NvmeInv /\ PageInv /\ GptInv
-----------------------------------------------------------------------------
(* The lengths of the queues. *)
Lengths == {AdminSqLen, AdminCqLen, N!IoLen}

(* "& mask" and the controller's modulo are both the step to the next      *)
(* index of a queue.                                                       *)
LEMMA NextIndex ==
  ASSUME NEW mask \in Nat, NEW k \in Nat, k <= mask
  PROVE  /\ (k + 1) % (mask + 1) = After(k, mask)
         /\ mask + 1 \in Lengths => N!Masked(k + 1, mask) = After(k, mask)
<1>1. ASSUME NEW n \in Nat \ {0}, NEW x \in 0 .. n
      PROVE  x % n = IF x = n THEN 0 ELSE x
  OBVIOUS
<1>2. (k + 1) % (mask + 1) = After(k, mask)
  BY <1>1 DEF After
<1>3. ASSUME mask + 1 \in Lengths PROVE N!Masked(k + 1, mask) = After(k, mask)
  <2>1. \A x \in 0 .. mask + 1 : N!Masked(x, (mask + 1) - 1) = x % (mask + 1)
    BY <1>3, NvmeAssumption DEF N!LengthsOK, Lengths
  <2>2. (mask + 1) - 1 = mask /\ k + 1 \in 0 .. mask + 1
    OBVIOUS
  <2>3. QED
    BY <1>2, <2>1, <2>2
<1>4. QED
  BY <1>2, <1>3

(* Every queue has an entry. *)
LEMMA LengthsType ==
  /\ AdminSqLen \in Nat \ {0} /\ AdminCqLen \in Nat \ {0} /\ N!IoLen \in Nat \ {0}
  /\ MaxReads \in Nat /\ PageSqes \in Nat /\ AdminSqLen <= PageSqes
BY NvmeAssumption DEF N!LengthsOK, N!LimitsOK

(* A queue just set up, of which the controller has no command. *)
LEMMA NewQueues ==
  ASSUME NEW len \in Nat \ {0}, NEW d \in Devs
  PROVE  /\ d.sqLen \in {0, len} /\ d.sqHead = 0 /\ d.sqTail = 0 =>
              SqType(N!NewSq(len), d) /\ Fetched(N!NewSq(len), d)
         /\ d.cqLen \in {0, len} /\ (d.sqLen # 0 => d.cqLen # 0)
              /\ d.cqHead = 0 /\ d.cqTail = 0 /\ d.phase = 1 =>
              CqType(N!NewCq(len), d) /\ FirstLap(N!NewCq(len), 0) /\ Awaited(N!NewCq(len), d)
         /\ N!NewSq(len).mask = len - 1 /\ N!NewCq(len).mask = len - 1
         /\ N!NewCq(len).phase = 1
<1>1. /\ N!NewSq(len).mask = len - 1 /\ N!NewSq(len).tail = 0 /\ N!NewSq(len).head = 0
      /\ N!NewSq(len) \in [mask : Nat, head : Nat, tail : Nat, entry : [0 .. PageSqes - 1 -> Nat]]
  BY DEF N!NewSq
<1>2. /\ N!NewCq(len).mask = len - 1 /\ N!NewCq(len).head = 0 /\ N!NewCq(len).phase = 1
      /\ \A k \in 0 .. len - 1 : N!NewCq(len).entry[k].phase = 0
  BY DEF N!NewCq
<1>3. N!NewCq(len) \in [mask : Nat, head : Nat, phase : {1, 254}, entry : [0 .. len - 1 -> Cqes]]
  <2>1. [phase |-> 0, serial |-> 0, sq_head |-> 0, status |-> 0] \in Cqes
    BY DEF Cqes
  <2>2. QED
    BY <2>1 DEF N!NewCq
<1>4. (len - 1) + 1 = len /\ 0 \in 0 .. len - 1 /\ 0 <= len - 1
  OBVIOUS
<1>5. d.sqLen \in {0, len} /\ d.sqHead = 0 /\ d.sqTail = 0 =>
        SqType(N!NewSq(len), d) /\ Fetched(N!NewSq(len), d)
  BY <1>1, <1>4 DEF SqType, Fetched
<1>6. d.cqLen \in {0, len} /\ (d.sqLen # 0 => d.cqLen # 0)
        /\ d.cqHead = 0 /\ d.cqTail = 0 /\ d.phase = 1 =>
        CqType(N!NewCq(len), d) /\ FirstLap(N!NewCq(len), 0) /\ Awaited(N!NewCq(len), d)
  BY <1>2, <1>3, <1>4 DEF CqType, FirstLap, Awaited
<1>7. QED
  BY <1>1, <1>2, <1>5, <1>6

(* nvme_command_submit: the command is the one to be fetched next. *)
LEMMA AdvanceSq ==
  ASSUME NEW s, NEW d \in Devs, NEW n \in Nat,
         SqType(s, d), Fetched(s, d), s.mask + 1 \in Lengths, s.tail < PageSqes,
         NEW a, a = N!Advance(s, n), NEW e, e = [d EXCEPT !.sqTail = a.tail]
  PROVE  /\ e \in Devs /\ SqType(a, e) /\ Fetchable(a, e, n)
         /\ a.mask = s.mask /\ a.tail = After(s.tail, s.mask)
<1>1. /\ s \in [mask : Nat, head : Nat, tail : Nat, entry : [0 .. PageSqes - 1 -> Nat]]
      /\ s.mask \in Nat /\ s.tail \in Nat /\ s.tail <= s.mask /\ d.sqHead = s.tail
      /\ s.entry \in [0 .. PageSqes - 1 -> Nat] /\ d.sqLen \in {0, s.mask + 1}
  BY DEF SqType, Fetched
<1>2. PICK t \in Nat : t = N!Masked(s.tail + 1, s.mask) /\ t = After(s.tail, s.mask) /\ t <= s.mask
  BY <1>1, NextIndex DEF After
<1>3. /\ a.mask = s.mask /\ a.head = s.head /\ a.tail = t
      /\ a.entry = [k \in 0 .. PageSqes - 1 |-> IF k = s.tail THEN n ELSE s.entry[k]]
      /\ a \in [mask : Nat, head : Nat, tail : Nat, entry : [0 .. PageSqes - 1 -> Nat]]
  BY <1>1, <1>2 DEF N!Advance
<1>4. s.tail \in 0 .. PageSqes - 1 /\ a.entry[s.tail] = n
  BY <1>1, <1>3, LengthsType
<1>5. e \in Devs /\ e.sqLen = d.sqLen /\ e.sqHead = d.sqHead /\ e.sqTail = a.tail
  BY <1>2, <1>3 DEF Devs
<1>6. SqType(a, e)
  BY <1>1, <1>2, <1>3, <1>5 DEF SqType
<1>7. Fetchable(a, e, n)
  BY <1>1, <1>2, <1>3, <1>4, <1>5 DEF Fetchable
<1>8. QED
  BY <1>2, <1>3, <1>5, <1>6, <1>7

(* nvme_command_cqe: the completion at the head is the only one, behind it *)
(* the next is awaited, or the lap ends.                                   *)
LEMMA ConsumeCq ==
  ASSUME NEW c, NEW d \in Devs, NEW n \in Nat, NEW m \in Nat,
         CqType(c, d), c.phase = 1, FirstLap(c, m), Ready(c, d, n), c.mask + 1 \in Lengths,
         NEW a, a = N!Consume(c), NEW e, e = [d EXCEPT !.cqHead = a.head]
  PROVE  /\ e \in Devs /\ CqType(a, e) /\ a.mask = c.mask
         /\ a.phase = 254 => m + 1 = c.mask + 1
         /\ a.phase = 1 => FirstLap(a, m + 1) /\ Awaited(a, e)
<1>1. /\ c \in [mask : Nat, head : Nat, phase : {1, 254}, entry : [0 .. c.mask -> Cqes]]
      /\ c.mask \in Nat /\ c.head \in Nat /\ c.head <= c.mask /\ c.head = m
      /\ \A k \in 0 .. c.mask : k > c.head => c.entry[k].phase = 0
      /\ d.cqTail = After(c.head, c.mask) /\ d.phase = IF c.head = c.mask THEN 0 ELSE 1
      /\ d.cqLen \in {0, c.mask + 1} /\ (d.sqLen # 0 => d.cqLen # 0) /\ d.cqTail <= c.mask
  BY DEF CqType, FirstLap, Ready
<1>2. PICK t \in Nat : t = N!Masked(c.head + 1, c.mask) /\ t = After(c.head, c.mask) /\ t <= c.mask
  BY <1>1, NextIndex DEF After
<1>3. PICK p \in {1, 254} :
        /\ p = IF t # c.head + 1 THEN N!Inverted(c.phase) ELSE c.phase
        /\ p = IF c.head = c.mask THEN 254 ELSE 1
  BY <1>1, <1>2 DEF After, N!Inverted
<1>4. /\ a = [c EXCEPT !.head = t, !.phase = p]
      /\ a.mask = c.mask /\ a.head = t /\ a.entry = c.entry /\ a.phase = p
      /\ a \in [mask : Nat, head : Nat, phase : {1, 254}, entry : [0 .. c.mask -> Cqes]]
  <2>1. a = [c EXCEPT !.head = t, !.phase = p]
    BY <1>2, <1>3 DEF N!Consume
  <2> DEFINE R(E) == [mask : Nat, head : Nat, phase : {1, 254}, entry : E]
  <2>2. ASSUME NEW E, NEW r \in R(E), NEW b, b = [r EXCEPT !.head = t, !.phase = p]
        PROVE  /\ b.mask = r.mask /\ b.head = t /\ b.entry = r.entry /\ b.phase = p
               /\ b \in R(E)
    BY <2>2
  <2>3. c \in R([0 .. c.mask -> Cqes])
    BY <1>1
  <2> HIDE DEF R
  <2>4. /\ a.mask = c.mask /\ a.head = t /\ a.entry = c.entry /\ a.phase = p
        /\ a \in R([0 .. c.mask -> Cqes])
    BY <2>1, <2>2, <2>3
  <2>5. QED
    BY <2>1, <2>4 DEF R
<1>5. /\ e \in Devs /\ e.sqLen = d.sqLen /\ e.cqLen = d.cqLen /\ e.cqTail = d.cqTail
      /\ e.cqHead = a.head /\ e.phase = d.phase
  BY <1>2, <1>4 DEF Devs
<1>6. CqType(a, e)
  BY <1>1, <1>2, <1>4, <1>5 DEF CqType
<1>7. a.phase = 254 => m + 1 = c.mask + 1
  BY <1>1, <1>3, <1>4
<1>8. ASSUME a.phase = 1 PROVE FirstLap(a, m + 1) /\ Awaited(a, e)
  <2>1. c.head < c.mask /\ a.head = c.head + 1
    BY <1>1, <1>2, <1>3, <1>4, <1>8 DEF After
  <2>2. c.head + 1 \in 0 .. c.mask /\ \A k \in 0 .. c.mask : k >= c.head + 1 => k > c.head
    BY <1>1, <2>1
  <2>3. \A k \in 0 .. c.mask : k >= c.head + 1 => c.entry[k].phase = 0
    BY <1>1, <2>2
  <2>4. c.entry[c.head + 1].phase = 0 /\ \A k \in 0 .. c.mask : k > c.head + 1 => c.entry[k].phase = 0
    BY <1>1, <2>2, <2>3
  <2>5. a.entry[a.head].phase = 0 /\ \A k \in 0 .. a.mask : k > a.head => a.entry[k].phase = 0
    BY <1>4, <2>1, <2>4
  <2>6. QED
    BY <1>1, <1>2, <1>3, <1>4, <1>5, <2>1, <2>5 DEF FirstLap, Awaited, After
<1>9. QED
  BY <1>4, <1>5, <1>6, <1>7, <1>8

(* The controller fetches the one command of a submission queue. *)
LEMMA FetchSq ==
  ASSUME NEW s, NEW d \in Devs, NEW n, SqType(s, d), d.sqLen > 0, Fetchable(s, d, n),
         NEW e \in Devs, e.sqLen = d.sqLen, e.sqTail = d.sqTail,
         e.sqHead = (d.sqHead + 1) % d.sqLen
  PROVE  SqType(s, e) /\ Fetched(s, e)
<1>1. /\ s.mask \in Nat /\ s.tail <= s.mask /\ d.sqLen = s.mask + 1 /\ d.sqHead <= s.mask
      /\ d.sqHead \in Nat /\ d.sqTail = s.tail /\ s.tail = After(d.sqHead, s.mask)
  BY DEF SqType, Fetchable, Devs
<1>2. e.sqHead = s.tail
  BY <1>1, NextIndex
<1>3. QED
  BY <1>1, <1>2 DEF SqType, Fetched

(* The completion x of command n makes c and d to be a and e. *)
Posts(c, d, n, x, a, e) ==
  /\ d.sqLen # 0
  /\ x \in Cqes /\ x.phase = d.phase /\ x.serial = n
  /\ a = [c EXCEPT !.entry[d.cqTail] = x]
  /\ e.sqLen = d.sqLen /\ e.cqLen = d.cqLen /\ e.cqHead = d.cqHead
  /\ e.cqTail = (d.cqTail + 1) % d.cqLen
  /\ e.phase = IF d.cqTail = d.cqLen - 1 THEN 1 - d.phase ELSE d.phase

(* The controller posts a completion, in the first lap where the driver    *)
(* looks for it.                                                           *)
LEMMA PostCq ==
  ASSUME NEW c, NEW d \in Devs, NEW n, CqType(c, d),
         NEW x, NEW a, NEW e \in Devs, Posts(c, d, n, x, a, e)
  PROVE  /\ CqType(a, e) /\ a.mask = c.mask /\ a.phase = c.phase /\ a.head = c.head
         /\ c.phase = 1 /\ Awaited(c, d) =>
              /\ Ready(a, e, n) /\ a.entry[a.head] = x
              /\ FirstLap(c, c.head) => FirstLap(a, c.head)
<1>0. /\ d.sqLen # 0 /\ x \in Cqes /\ x.phase = d.phase /\ x.serial = n
      /\ e.sqLen = d.sqLen /\ e.cqLen = d.cqLen /\ e.cqHead = d.cqHead
      /\ e.cqTail = (d.cqTail + 1) % d.cqLen
      /\ e.phase = IF d.cqTail = d.cqLen - 1 THEN 1 - d.phase ELSE d.phase
  BY DEF Posts
<1>1. /\ c \in [mask : Nat, head : Nat, phase : {1, 254}, entry : [0 .. c.mask -> Cqes]]
      /\ c.mask \in Nat /\ c.head \in Nat /\ c.head <= c.mask
      /\ c.entry \in [0 .. c.mask -> Cqes]
      /\ d.cqLen = c.mask + 1 /\ d.cqHead = c.head /\ d.cqTail <= c.mask
      /\ d.cqTail \in Nat
  BY <1>0 DEF CqType, Devs
<1>2. e.cqTail = After(d.cqTail, c.mask)
  <2>1. PICK j \in Nat : j = d.cqTail
    BY <1>1
  <2>2. PICK l \in Nat : l = c.mask
    BY <1>1
  <2>3. j <= l
    BY <1>1, <2>1, <2>2
  <2>4. (j + 1) % (l + 1) = After(j, l)
    BY <2>3, NextIndex
  <2>5. e.cqTail = (d.cqTail + 1) % d.cqLen /\ d.cqLen = c.mask + 1
    BY <1>0, <1>1
  <2>6. QED
    BY <2>1, <2>2, <2>4, <2>5
<1>3. /\ a.mask = c.mask /\ a.head = c.head /\ a.phase = c.phase
      /\ a.entry = [c.entry EXCEPT ![d.cqTail] = x]
      /\ a \in [mask : Nat, head : Nat, phase : {1, 254}, entry : [0 .. c.mask -> Cqes]]
  <2> DEFINE F == [0 .. c.mask -> Cqes]
             R(E) == [mask : Nat, head : Nat, phase : {1, 254}, entry : E]
  <2>1. PICK g \in F : g = [c.entry EXCEPT ![d.cqTail] = x]
    BY <1>0, <1>1
  <2>2. \A E : \A r \in R(E) : \A f \in E :
          LET b == [r EXCEPT !.entry = f]
          IN /\ b.mask = r.mask /\ b.head = r.head /\ b.phase = r.phase /\ b.entry = f
             /\ b \in R(E)
    OBVIOUS
  <2>3. a = [c EXCEPT !.entry = g]
    BY <1>1, <2>1 DEF Posts
  <2>4. c \in R(F)
    BY <1>1
  <2> HIDE DEF R, F
  <2>5. LET b == [c EXCEPT !.entry = g]
        IN /\ b.mask = c.mask /\ b.head = c.head /\ b.phase = c.phase /\ b.entry = g
           /\ b \in R(F)
    BY <2>2, <2>4
  <2>6. /\ a.mask = c.mask /\ a.head = c.head /\ a.phase = c.phase /\ a.entry = g
        /\ a \in R(F)
    BY <2>3, <2>5
  <2>7. QED
    BY <2>1, <2>6 DEF R, F
<1>4. e.cqTail <= c.mask
  BY <1>1, <1>2 DEF After
<1>5. CqType(a, e)
  <2>1. a.head <= a.mask /\ e.cqLen = a.mask + 1 /\ e.cqHead = a.head /\ e.cqTail <= a.mask
    BY <1>0, <1>1, <1>3, <1>4
  <2>2. a \in [mask : Nat, head : Nat, phase : {1, 254}, entry : [0 .. a.mask -> Cqes]]
    BY <1>3
  <2>3. e.cqLen # 0
    BY <1>1, <1>3, <2>1
  <2>4. QED
    BY <2>1, <2>2, <2>3 DEF CqType
<1>6. ASSUME c.phase = 1, Awaited(c, d)
      PROVE  /\ Ready(a, e, n) /\ a.entry[a.head] = x
             /\ FirstLap(c, c.head) => FirstLap(a, c.head)
  <2>1. d.cqTail = c.head /\ d.phase = 1
    BY <1>6 DEF Awaited
  <2>2. a.entry[a.head] = x /\ \A k \in 0 .. c.mask : k > c.head => a.entry[k] = c.entry[k]
    BY <1>1, <1>3, <2>1
  <2>3. e.phase = IF c.head = c.mask THEN 0 ELSE 1
    BY <1>0, <1>1, <2>1
  <2>4. QED
    BY <1>0, <1>1, <1>2, <1>3, <2>1, <2>2, <2>3 DEF FirstLap, Ready
<1>7. QED
  BY <1>3, <1>5, <1>6

(* A step that leaves the queues alone and starts or ends no wait for a    *)
(* command.                                                                *)
LEMMA QuietInv ==
  ASSUME NvmeInv, UNCHANGED <<sq, cq, dev, issued, posted, got>>, InWait' = InWait,
         pc' \in {"start", "wait_disabled", "wait_enabled", "idle", "polling"} \cup Panics,
         pc' \in {"start", "wait_disabled", "wait_enabled", "panic_csts"} => issued = 0,
         pc' \in {"wait_enabled", "idle", "polling"} => pc \in {"wait_enabled", "idle", "polling"},
         pc = "panic_status" => pc' = pc
  PROVE  NvmeInv'
<1>1. ProgressInv'
  BY DEF NvmeInv, ProgressInv, Panics
<1>2. LengthsInv' /\ CreationInv' /\ TailInv'
  BY DEF NvmeInv, LengthsInv, CreationInv, TailInv
<1>3. ASSUME NEW q \in N!Pairs PROVE SqOK(q)' /\ CqOK(q)'
  <2>1. /\ Outstanding(q)' = Outstanding(q) /\ Unseen(q)' = Unseen(q)
        /\ Consumed(q)' = Consumed(q)
    BY DEF Outstanding, Unseen, Consumed, Done
  <2>2. SqOK(q) /\ CqOK(q)
    BY DEF NvmeInv
  <2>3. QED
    BY <2>1, <2>2 DEF SqOK, CqOK
<1>4. QED
  BY <1>1, <1>2, <1>3 DEF NvmeInv

(* nvme_init sets the admin queues up. *)
LEMMA EnableInv ==
  ASSUME NvmeInv, pc = "wait_disabled", N!Enable
  PROVE  NvmeInv'
<1> DEFINE d == [N!NoQueue EXCEPT !.sqLen = AdminSqLen, !.cqLen = AdminCqLen]
<1>1. /\ pc' = "wait_enabled" /\ issued = 0 /\ posted = 0 /\ got = 0
      /\ issued' = issued /\ posted' = posted /\ got' = got
  BY DEF NvmeInv, ProgressInv, InWait, N!Enable
<1>2. /\ DOMAIN sq = N!Pairs /\ DOMAIN cq = N!Pairs /\ dev \in [N!Pairs -> Devs]
      /\ "admin" \in N!Pairs /\ "io" \in N!Pairs
  BY DEF NvmeInv, N!Pairs
<1>3. /\ d \in Devs /\ d.sqLen = AdminSqLen /\ d.cqLen = AdminCqLen /\ d.sqHead = 0
      /\ d.sqTail = 0 /\ d.cqHead = 0 /\ d.cqTail = 0 /\ d.phase = 1
  BY LengthsType DEF N!NoQueue, Devs
<1> HIDE DEF d
<1>4. /\ sq' = [sq EXCEPT !["admin"] = N!NewSq(AdminSqLen)]
      /\ cq' = [cq EXCEPT !["admin"] = N!NewCq(AdminCqLen)]
      /\ dev' = [dev EXCEPT !["admin"] = d]
  BY DEF N!Enable, d
<1>5. /\ DOMAIN sq' = N!Pairs /\ DOMAIN cq' = N!Pairs /\ dev' \in [N!Pairs -> Devs]
      /\ sq'["admin"] = N!NewSq(AdminSqLen) /\ cq'["admin"] = N!NewCq(AdminCqLen)
      /\ dev'["admin"] = d
      /\ sq'["io"] = sq["io"] /\ cq'["io"] = cq["io"] /\ dev'["io"] = dev["io"]
  BY <1>2, <1>3, <1>4
<1>6. ~InWait /\ ~InWait'
  BY <1>1 DEF InWait
<1>7. ASSUME NEW q \in N!Pairs
      PROVE  /\ ~Outstanding(q) /\ ~Outstanding(q)' /\ ~Unseen(q) /\ ~Unseen(q)'
             /\ Consumed(q) = 0 /\ Consumed(q)' = 0
  BY <1>1, <1>6 DEF Outstanding, Unseen, Consumed, Done
<1>8. SqOK("admin")' /\ CqOK("admin")'
  BY <1>2, <1>3, <1>5, <1>7, LengthsType, NewQueues DEF SqOK, CqOK
<1>9. SqOK("io")' /\ CqOK("io")'
  <2>1. SqOK("io") /\ CqOK("io")
    BY <1>2 DEF NvmeInv
  <2>2. QED
    BY <1>2, <1>5, <1>7, <2>1 DEF SqOK, CqOK
<1>10. ProgressInv'
  BY <1>1, <1>6, LengthsType DEF NvmeInv, ProgressInv
<1>11. LengthsInv'
  BY <1>1, <1>3, <1>5, LengthsType, NewQueues DEF LengthsInv
<1>12. CreationInv' /\ TailInv'
  BY <1>1, <1>5 DEF NvmeInv, CreationInv, TailInv
<1>13. QED
  BY <1>5, <1>8, <1>9, <1>10, <1>11, <1>12 DEF NvmeInv, N!Pairs

(* Submit puts a command on a queue that has none, the one of the I/O pair *)
(* only after create_io_cq and create_io_sq have set that pair up.  It     *)
(* goes to a slot of the page.                                             *)
LEMMA SubmitInv ==
  ASSUME N!SqFits, NvmeInv, N!Submit
  PROVE  NvmeInv' /\ pc' = "polling" /\ posted' < issued'
<1> DEFINE q == N!PairOf(issued + 1)
           s == IF issued = 3 THEN [sq EXCEPT !["io"] = N!NewSq(N!IoLen)] ELSE sq
<1>1. /\ pc = "idle" /\ pc' = "polling" /\ issued' = issued + 1 /\ posted' = posted
      /\ issued < 4 + MaxReads
  BY DEF N!Submit
<1>2. /\ issued \in Nat /\ posted = issued /\ ~InWait /\ InWait'
      /\ "admin" \in N!Pairs /\ "io" \in N!Pairs /\ MaxReads \in Nat
  BY <1>1, LengthsType DEF NvmeInv, ProgressInv, InWait, N!Pairs
<1>3. /\ issued < 4 /\ N!Admin[issued + 1] = "create_io_sq" <=> issued = 3
      /\ issued < 4 /\ N!Admin[issued + 1] = "create_io_cq" <=> issued = 2
  <2>1. issued < 4 => issued \in {0, 1, 2, 3}
    BY <1>2
  <2>2. QED
    BY <1>2, <2>1 DEF N!Admin
<1>4. /\ sq' = [s EXCEPT ![q] = N!Advance(s[q], issued + 1)]
      /\ dev' = [dev EXCEPT ![q].sqTail = sq'[q].tail]
      /\ cq' = IF issued = 2 THEN [cq EXCEPT !["io"] = N!NewCq(N!IoLen)] ELSE cq
  BY <1>3 DEF N!Submit
<1>5. /\ DOMAIN sq = N!Pairs /\ DOMAIN cq = N!Pairs /\ dev \in [N!Pairs -> Devs]
      /\ q \in N!Pairs /\ (q = "admin" <=> issued <= 3) /\ (q = "io" <=> issued >= 4)
  BY <1>2 DEF NvmeInv, N!PairOf, N!Pairs
<1>6. ASSUME NEW p \in N!Pairs
      PROVE  /\ ~Outstanding(p) /\ ~Unseen(p) /\ ~Unseen(p)' /\ Consumed(p)' = Consumed(p)
             /\ Outstanding(p)' <=> p = q
             /\ issued <= 3 => Consumed("io") = 0
  BY <1>1, <1>2 DEF Outstanding, Unseen, Consumed, Done
<1>7. ASSUME NEW p \in N!Pairs
      PROVE  SqType(s[p], dev[p]) /\ Fetched(s[p], dev[p])
  <2>1. SqOK(p)
    BY DEF NvmeInv
  <2>2. CASE issued = 3 /\ p = "io"
    <3>1. dev[p].sqLen = 0 /\ dev[p].sqHead = 0 /\ dev[p].sqTail = 0 /\ dev[p] \in Devs
      BY <1>5, <2>2 DEF NvmeInv, CreationInv
    <3>2. s[p] = N!NewSq(N!IoLen)
      BY <1>5, <2>2
    <3>3. QED
      BY <3>1, <3>2, LengthsType, NewQueues
  <2>3. CASE ~(issued = 3 /\ p = "io")
    <3>1. s[p] = sq[p]
      BY <1>5, <2>3
    <3>2. QED
      BY <1>6, <2>1, <3>1 DEF SqOK
  <2>4. QED
    BY <2>2, <2>3
<1>8. /\ issued >= 3 => s["io"].mask = N!IoLen - 1
      /\ s["admin"] = sq["admin"] /\ s["admin"].mask = AdminSqLen - 1
  <2>1. s["admin"] = sq["admin"] /\ (issued # 3 => s = sq)
    BY <1>2, <1>5
  <2>2. sq["admin"].mask = AdminSqLen - 1 /\ (issued >= 4 => sq["io"].mask = N!IoLen - 1)
    BY <1>1 DEF NvmeInv, LengthsInv
  <2>3. issued = 3 => s["io"].mask = N!IoLen - 1
    <3>1. issued = 3 => s["io"] = N!NewSq(N!IoLen)
      BY <1>2, <1>5
    <3>2. dev["io"] \in Devs
      BY <1>2, <1>5
    <3>3. QED
      BY <3>1, <3>2, LengthsType, NewQueues
  <2>4. QED
    BY <1>2, <2>1, <2>2, <2>3
<1>9. DOMAIN s = N!Pairs
  BY <1>5
<1>10. s[q].mask + 1 \in Lengths
  BY <1>2, <1>5, <1>8, LengthsType DEF Lengths, N!Pairs
<1>11. s["io"].tail = 0 \/ s["io"].tail + 4 <= issued
  <2>1. CASE issued = 3
    BY <1>2, <1>5, <2>1 DEF N!NewSq
  <2>2. CASE issued # 3
    BY <2>2 DEF NvmeInv, TailInv
  <2>3. QED
    BY <2>1, <2>2
<1>12. s[q].tail \in Nat /\ s[q].mask \in Nat /\ s[q].tail <= s[q].mask /\ s[q].tail < PageSqes
  <2>1. SqType(s[q], dev[q])
    BY <1>5, <1>7
  <2>2. s[q].tail \in Nat /\ s[q].mask \in Nat /\ s[q].tail <= s[q].mask
    BY <2>1 DEF SqType
  <2>3. CASE q = "admin"
    BY <1>8, <2>2, <2>3, LengthsType
  <2>4. CASE q = "io" /\ N!IoLen <= PageSqes
    BY <1>2, <1>5, <1>8, <2>2, <2>4, LengthsType
  <2>5. CASE q = "io" /\ MaxReads <= PageSqes
    BY <1>1, <1>2, <1>5, <1>11, <2>2, <2>5, LengthsType
  <2>6. QED
    BY <1>5, <2>2, <2>3, <2>4, <2>5 DEF N!SqFits, N!Pairs
<1> HIDE DEF s
<1>13. /\ DOMAIN sq' = N!Pairs /\ sq'[q] = N!Advance(s[q], issued + 1)
       /\ \A p \in N!Pairs : p # q => sq'[p] = s[p]
  BY <1>4, <1>5, <1>9
<1>14. dev'[q] = [dev[q] EXCEPT !.sqTail = sq'[q].tail]
       /\ \A p \in N!Pairs : p # q => dev'[p] = dev[p]
  BY <1>4, <1>5
<1>15. /\ dev'[q] \in Devs /\ SqType(sq'[q], dev'[q])
       /\ Fetchable(sq'[q], dev'[q], issued + 1) /\ sq'[q].mask = s[q].mask
       /\ sq'[q].tail = After(s[q].tail, s[q].mask)
  BY <1>2, <1>5, <1>7, <1>10, <1>13, <1>14, <1>12, AdvanceSq
<1>16. dev' \in [N!Pairs -> Devs]
  BY <1>4, <1>5, <1>14, <1>15
<1>17. ASSUME NEW p \in N!Pairs PROVE SqOK(p)'
  <2>1. CASE p = q
    BY <1>1, <1>6, <1>15, <2>1 DEF SqOK
  <2>2. CASE p # q
    BY <1>6, <1>7, <1>13, <1>14, <2>2 DEF SqOK
  <2>3. QED
    BY <2>1, <2>2
<1>18. ASSUME NEW p \in N!Pairs
       PROVE  /\ dev'[p].sqLen = dev[p].sqLen /\ dev'[p].cqLen = dev[p].cqLen
              /\ dev'[p].sqHead = dev[p].sqHead /\ dev'[p].cqHead = dev[p].cqHead
              /\ dev'[p].cqTail = dev[p].cqTail /\ dev'[p].phase = dev[p].phase
  <2>1. dev[p] \in Devs
    BY <1>5
  <2>2. QED
    BY <1>14, <2>1 DEF Devs
<1>19. ASSUME NEW p \in N!Pairs PROVE CqOK(p)'
  <2>1. CqOK(p)
    BY DEF NvmeInv
  <2>2. CASE issued = 2 /\ p = "io"
    <3>1. /\ dev[p].cqLen = 0 /\ dev[p].sqLen = 0 /\ dev[p].cqHead = 0 /\ dev[p].cqTail = 0
          /\ dev[p].phase = 1
      BY <2>2 DEF NvmeInv, CreationInv
    <3>2. cq'[p] = N!NewCq(N!IoLen)
      BY <1>2, <1>4, <1>5, <2>2
    <3>3. dev'[p] \in Devs
      BY <1>16
    <3>4. Consumed(p)' = 0
      BY <1>6, <2>2
    <3>5. CqType(cq'[p], dev'[p]) /\ FirstLap(cq'[p], 0) /\ Awaited(cq'[p], dev'[p]) /\ cq'[p].phase = 1
      BY <1>18, <3>1, <3>2, <3>3, LengthsType, NewQueues
    <3>6. QED
      BY <1>6, <3>4, <3>5 DEF CqOK
  <2>3. CASE ~(issued = 2 /\ p = "io")
    <3>1. cq'[p] = cq[p]
      BY <1>4, <1>5, <2>3
    <3>2. CqType(cq'[p], dev'[p])
      BY <1>18, <2>1, <3>1 DEF CqOK, CqType
    <3>3. Awaited(cq[p], dev[p]) => Awaited(cq'[p], dev'[p])
      BY <1>18, <3>1 DEF Awaited
    <3>4. QED
      BY <1>6, <2>1, <3>1, <3>2, <3>3 DEF CqOK
  <2>4. QED
    BY <2>2, <2>3
<1>20. ProgressInv'
  BY <1>1, <1>2 DEF ProgressInv, InWait
<1>21. LengthsInv'
  <2>1. sq'["admin"].mask = AdminSqLen - 1
    BY <1>2, <1>8, <1>13, <1>15
  <2>2. cq'["admin"].mask = AdminCqLen - 1
    BY <1>1, <1>2, <1>4, <1>5 DEF NvmeInv, LengthsInv
  <2>3. issued + 1 >= 3 => cq'["io"].mask = N!IoLen - 1
    <3>1. CASE issued = 2
      <4>1. cq'["io"] = N!NewCq(N!IoLen) /\ dev["io"] \in Devs
        BY <1>2, <1>4, <1>5, <3>1
      <4>2. QED
        BY <4>1, LengthsType, NewQueues
    <3>2. CASE issued # 2
      BY <1>2, <1>4, <3>2 DEF NvmeInv, LengthsInv
    <3>3. QED
      BY <3>1, <3>2
  <2>4. issued + 1 >= 4 => sq'["io"].mask = N!IoLen - 1
    BY <1>2, <1>8, <1>13, <1>15
  <2>5. issued + 1 >= 4 => dev'["io"].cqLen = N!IoLen
    <3>1. issued >= 3 => dev["io"].cqLen = N!IoLen
      BY <1>1, <1>2 DEF NvmeInv, LengthsInv, CreationInv
    <3>2. QED
      BY <1>2, <1>18, <3>1
  <2>6. QED
    BY <1>1, <2>1, <2>2, <2>3, <2>4, <2>5 DEF LengthsInv
<1>22. CreationInv'
  <2>1. issued + 1 <= 4 => dev'["io"] = dev["io"]
    BY <1>2, <1>5, <1>14
  <2>2. /\ issued + 1 < 3 => dev["io"].cqLen = 0
        /\ issued + 1 < 4 => dev["io"].sqLen = 0
        /\ issued <= 4 => dev["io"].sqHead = 0 /\ dev["io"].cqHead = 0 /\ dev["io"].cqTail = 0
                            /\ dev["io"].sqTail = 0 /\ dev["io"].phase = 1
    BY <1>2 DEF NvmeInv, CreationInv
  <2>3. ~(issued' = 3 /\ posted' = 3)
    BY <1>1, <1>2
  <2>4. QED
    BY <1>1, <1>2, <2>1, <2>2, <2>3 DEF CreationInv
<1>23. DOMAIN cq' = N!Pairs
  BY <1>4, <1>5
<1>24. TailInv'
  <2>1. CASE q = "io"
    BY <1>1, <1>2, <1>5, <1>15, <1>11, <1>12, <2>1 DEF TailInv, After
  <2>2. CASE q # "io"
    <3>1. sq'["io"] = s["io"] /\ s["io"].tail \in Nat
      BY <1>2, <1>7, <1>13, <2>2 DEF SqType
    <3>2. QED
      BY <1>1, <1>2, <1>11, <3>1 DEF TailInv
  <2>3. QED
    BY <2>1, <2>2
<1>25. NvmeInv'
  BY <1>13, <1>16, <1>17, <1>19, <1>20, <1>21, <1>22, <1>23, <1>24 DEF NvmeInv
<1>26. QED
  BY <1>1, <1>2, <1>25

(* The driver consumes the completion of its own command. *)
LEMMA CompleteInv ==
  ASSUME NvmeInv, NEW q \in N!Pairs, N!Complete(q)
  PROVE  NvmeInv' /\ posted = issued /\ ~InWait'
<1> DEFINE c == cq[q]
           cqe == c.entry[c.head]
<1>1. /\ pc = "polling" /\ q = N!PairOf(issued) /\ N!Polled(c)
      /\ sq' = [sq EXCEPT ![q].head = cqe.sq_head]
      /\ got' = cqe.serial
      /\ pc' \in IF cqe.status # 0 THEN {"panic_status"} ELSE N!Verdicts(issued)
      /\ cq' = [cq EXCEPT ![q] = N!Consume(c)]
      /\ dev' = [dev EXCEPT ![q].cqHead = cq'[q].head]
      /\ issued' = issued /\ posted' = posted
  BY DEF N!Complete
<1>2. /\ issued \in Nat /\ issued > 0 /\ InWait /\ (posted = issued \/ posted = issued - 1)
      /\ "admin" \in N!Pairs /\ "io" \in N!Pairs
      /\ DOMAIN sq = N!Pairs /\ DOMAIN cq = N!Pairs /\ dev \in [N!Pairs -> Devs]
  BY <1>1 DEF NvmeInv, ProgressInv, InWait, N!Pairs
<1>3. /\ pc' \in {"idle", "panic_ns", "panic_status"} /\ ~InWait'
      /\ pc' # "panic_status" => cqe.status = 0
      /\ pc' = "panic_ns" => issued <= 2
  BY <1>1, <1>2 DEF N!Verdicts, InWait
<1>4. /\ SqOK(q) /\ CqOK(q) /\ CqType(c, dev[q]) /\ SqType(sq[q], dev[q])
      /\ dev[q] \in Devs
  BY <1>2 DEF NvmeInv, SqOK, CqOK
<1>5. c.phase = 1 /\ cqe \in Cqes
  <2>1. c.mask \in Nat /\ c.head \in 0 .. c.mask /\ c.entry \in [0 .. c.mask -> Cqes]
        /\ c.phase \in {1, 254}
    BY <1>4 DEF CqType
  <2>2. cqe \in Cqes
    BY <2>1
  <2>3. cqe.phase = c.phase /\ cqe.phase \in {0, 1}
    BY <1>1, <2>2 DEF N!Polled, Cqes
  <2>4. QED
    BY <2>1, <2>2, <2>3
<1>6. posted = issued /\ Ready(c, dev[q], issued) /\ FirstLap(c, Consumed(q)) /\ cqe.serial = issued
  <2>1. Unseen(q)
    <3>1. SUFFICES ASSUME ~Unseen(q) PROVE FALSE
      OBVIOUS
    <3>2. cqe.phase = 0
      BY <1>4, <1>5, <3>1 DEF CqOK, Awaited
    <3>3. QED
      BY <1>1, <1>5, <3>2 DEF N!Polled
  <2>2. QED
    BY <1>4, <1>5, <2>1 DEF CqOK, Unseen, Ready
<1>7. /\ Consumed(q) \in Nat /\ Consumed(q)' = Consumed(q) + 1
      /\ \A p \in N!Pairs : p # q => Consumed(p)' = Consumed(p)
  BY <1>1, <1>2, <1>3 DEF Consumed, Done, N!PairOf, N!Pairs
<1>8. ASSUME NEW p \in N!Pairs
      PROVE  /\ ~Outstanding(p) /\ ~Outstanding(p)' /\ ~Unseen(p)'
             /\ p # q => ~Unseen(p)
  BY <1>1, <1>2, <1>3, <1>6 DEF Outstanding, Unseen
<1>9. c.mask + 1 \in Lengths
  <2>1. CASE q = "admin"
    BY <1>1, <2>1, LengthsType DEF NvmeInv, LengthsInv, Lengths
  <2>2. CASE q = "io"
    <3>1. issued >= 3
      BY <1>1, <1>2, <2>2 DEF N!PairOf
    <3>2. QED
      BY <2>2, <3>1, LengthsType DEF NvmeInv, LengthsInv, Lengths
  <2>3. QED
    BY <2>1, <2>2 DEF N!Pairs
<1>10. /\ DOMAIN cq' = N!Pairs /\ cq'[q] = N!Consume(c)
       /\ \A p \in N!Pairs : p # q => cq'[p] = cq[p]
  BY <1>1, <1>2
<1>11. /\ dev'[q] = [dev[q] EXCEPT !.cqHead = cq'[q].head]
       /\ \A p \in N!Pairs : p # q => dev'[p] = dev[p]
  BY <1>1, <1>2
<1>12. /\ dev'[q] \in Devs /\ CqType(cq'[q], dev'[q]) /\ cq'[q].mask = c.mask
       /\ cq'[q].phase = 254 => Consumed(q) + 1 = c.mask + 1
       /\ cq'[q].phase = 1 => FirstLap(cq'[q], Consumed(q) + 1) /\ Awaited(cq'[q], dev'[q])
  BY <1>2, <1>4, <1>5, <1>6, <1>7, <1>9, <1>10, <1>11, ConsumeCq
<1>13. dev' \in [N!Pairs -> Devs]
  BY <1>1, <1>2, <1>11, <1>12
<1>14. ASSUME NEW p \in N!Pairs PROVE CqOK(p)'
  <2>1. CASE p = q
    BY <1>7, <1>8, <1>12, <2>1 DEF CqOK
  <2>2. CASE p # q
    <3>1. CqOK(p)
      BY DEF NvmeInv
    <3>2. QED
      BY <1>7, <1>8, <1>10, <1>11, <2>2, <3>1 DEF CqOK
  <2>3. QED
    BY <2>1, <2>2
<1>15. /\ DOMAIN sq' = N!Pairs /\ sq'[q] = [sq[q] EXCEPT !.head = cqe.sq_head]
       /\ \A p \in N!Pairs : p # q => sq'[p] = sq[p]
  BY <1>1, <1>2
<1>16. /\ sq'[q].mask = sq[q].mask /\ sq'[q].tail = sq[q].tail /\ sq'[q].entry = sq[q].entry
       /\ sq'[q] \in [mask : Nat, head : Nat, tail : Nat, entry : [0 .. PageSqes - 1 -> Nat]]
  <2>1. sq[q] \in [mask : Nat, head : Nat, tail : Nat, entry : [0 .. PageSqes - 1 -> Nat]]
    BY <1>4 DEF SqType
  <2>2. cqe.sq_head \in Nat
    BY <1>5 DEF Cqes
  <2>3. QED
    BY <1>15, <2>1, <2>2
<1>17. ASSUME NEW p \in N!Pairs
       PROVE  /\ dev'[p].sqLen = dev[p].sqLen /\ dev'[p].cqLen = dev[p].cqLen
              /\ dev'[p].sqHead = dev[p].sqHead /\ dev'[p].sqTail = dev[p].sqTail
              /\ dev'[p].cqTail = dev[p].cqTail /\ dev'[p].phase = dev[p].phase
  <2>1. dev[p] \in Devs
    BY <1>2
  <2>2. QED
    BY <1>11, <2>1 DEF Devs
<1>18. ASSUME NEW p \in N!Pairs PROVE SqOK(p)'
  <2>1. SqOK(p)
    BY DEF NvmeInv
  <2>2. SqType(sq[p], dev[p]) /\ Fetched(sq[p], dev[p])
    BY <1>8, <2>1 DEF SqOK
  <2>3. SqType(sq'[p], dev'[p]) /\ Fetched(sq'[p], dev'[p])
    <3>1. CASE p = q
      BY <1>16, <1>17, <2>2, <3>1 DEF SqType, Fetched
    <3>2. CASE p # q
      BY <1>11, <1>15, <2>2, <3>2
    <3>3. QED
      BY <3>1, <3>2
  <2>4. QED
    BY <1>8, <2>3 DEF SqOK
<1>19. ProgressInv'
  BY <1>1, <1>2, <1>3, <1>6 DEF NvmeInv, ProgressInv, Panics
<1>20. LengthsInv'
  <2>1. \A p \in N!Pairs : sq'[p].mask = sq[p].mask /\ cq'[p].mask = cq[p].mask
    BY <1>10, <1>12, <1>15, <1>16
  <2>2. QED
    BY <1>1, <1>2, <1>17, <2>1 DEF NvmeInv, LengthsInv
<1>21. CreationInv'
  <2>1. issued <= 4 => dev'["io"] = dev["io"] /\ q = "admin"
    BY <1>1, <1>2, <1>11 DEF N!PairOf
  <2>2. issued = 3 => dev["io"].cqLen = N!IoLen \/ pc' = "panic_status"
    <3>1. SUFFICES ASSUME issued = 3, pc' # "panic_status" PROVE dev["io"].cqLen = N!IoLen
      OBVIOUS
    <3>2. N!Polled(cq["admin"]) /\ cq["admin"].entry[cq["admin"].head].status = 0
      BY <1>1, <1>3, <2>1, <3>1
    <3>3. QED
      BY <1>1, <1>6, <3>1, <3>2 DEF NvmeInv, CreationInv
  <2>3. QED
    BY <1>1, <1>2, <2>1, <2>2 DEF NvmeInv, CreationInv
<1>22. TailInv'
  <2>1. sq'["io"].tail = sq["io"].tail
    BY <1>2, <1>15, <1>16
  <2>2. QED
    BY <1>1, <2>1 DEF NvmeInv, TailInv
<1>23. NvmeInv'
  BY <1>10, <1>13, <1>14, <1>15, <1>18, <1>19, <1>20, <1>21, <1>22 DEF NvmeInv
<1>24. QED
  BY <1>3, <1>6, <1>23

(* The controller executes the outstanding command and tells of it where   *)
(* the driver polls.                                                       *)
LEMMA ExecuteInv ==
  ASSUME NvmeInv, NEW q \in N!Pairs, N!DeviceExecute(q)
  PROVE  /\ NvmeInv' /\ posted < issued /\ posted' = issued /\ q = N!PairOf(issued)
         /\ cq[q].phase = 254 \/ dev[q].cqTail = cq[q].head
         /\ cq'[q].head = cq[q].head /\ cq'[q].phase = cq[q].phase
         /\ cq'[q].entry[dev[q].cqTail].serial = issued
<1> DEFINE d == dev[q]
           c == cq[q]
           head == (d.sqHead + 1) % d.sqLen
           after == [dev EXCEPT
                       ![q].sqHead = head,
                       ![q].cqTail = (d.cqTail + 1) % d.cqLen,
                       ![q].phase = IF d.cqTail = d.cqLen - 1 THEN 1 - d.phase ELSE d.phase]
<1>1. PICK status \in {0, 1}, command \in N!Fetch(sq[q], d.sqHead) :
        /\ d.sqLen > 0 /\ d.sqHead # d.sqTail
        /\ cq' = [cq EXCEPT ![q].entry[d.cqTail] =
                    [phase |-> d.phase, serial |-> command,
                     sq_head |-> head, status |-> status]]
        /\ dev' = IF q = "admin" /\ status = 0 /\ command = 3
                    THEN [after EXCEPT !["io"].cqLen = cq["io"].mask + 1]
                  ELSE IF q = "admin" /\ status = 0 /\ command = 4
                    THEN [after EXCEPT !["io"].sqLen = sq["io"].mask + 1]
                  ELSE after
        /\ posted' = posted + 1
        /\ pc' = pc /\ sq' = sq /\ issued' = issued /\ got' = got
  BY DEF N!DeviceExecute
<1> DEFINE quiet == posted' = posted + 1 /\ pc' = pc /\ sq' = sq /\ issued' = issued /\ got' = got
<1>2. quiet /\ d.sqLen > 0 /\ d.sqHead # d.sqTail
  BY <1>1
<1>3. /\ issued \in Nat
      /\ "admin" \in N!Pairs /\ "io" \in N!Pairs /\ d \in Devs
      /\ DOMAIN sq = N!Pairs /\ DOMAIN cq = N!Pairs /\ dev \in [N!Pairs -> Devs]
  BY DEF NvmeInv, ProgressInv, N!Pairs
<1>4. SqOK(q) /\ CqOK(q) /\ SqType(sq[q], d) /\ CqType(c, d)
  BY DEF NvmeInv, SqOK, CqOK
<1>5. Outstanding(q) /\ Fetchable(sq[q], d, issued) /\ command = issued
  <2>1. Outstanding(q) /\ Fetchable(sq[q], d, issued)
    BY <1>2, <1>4 DEF SqOK, SqType, Fetched
  <2>2. d.sqHead \in DOMAIN sq[q].entry
    <3>1. sq[q].entry \in [0 .. PageSqes - 1 -> Nat]
      BY <1>4 DEF SqType
    <3>2. QED
      BY <2>1, <3>1 DEF Fetchable
  <2>3. QED
    BY <1>1, <2>1, <2>2 DEF N!Fetch, Fetchable
<1>6. /\ posted < issued /\ q = N!PairOf(issued) /\ posted = issued - 1 /\ posted' = issued
      /\ InWait /\ InWait' /\ issued > 0 /\ (q = "admin" <=> issued <= 4)
  <2>1. posted < issued /\ q = N!PairOf(issued) /\ posted = issued - 1 /\ InWait
    BY <1>3, <1>5 DEF NvmeInv, ProgressInv, Outstanding
  <2>2. posted' = issued /\ issued > 0 /\ InWait'
    BY <1>2, <1>3, <2>1 DEF InWait, NvmeInv, ProgressInv
  <2>3. q = "admin" <=> issued <= 4
    BY <1>3, <2>1 DEF N!PairOf
  <2>4. QED
    BY <2>1, <2>2, <2>3
<1>7. ASSUME NEW p \in N!Pairs
      PROVE  /\ Consumed(p)' = Consumed(p) /\ ~Unseen(p) /\ ~Outstanding(p)'
             /\ (Unseen(p)' <=> p = q) /\ (Outstanding(p) <=> p = q)
  BY <1>2, <1>3, <1>6 DEF Consumed, Done, Unseen, Outstanding
<1>8. /\ d.sqHead \in Nat /\ d.sqHead <= sq[q].mask /\ d.sqLen = sq[q].mask + 1 /\ sq[q].mask \in Nat
      /\ d.cqTail \in Nat /\ d.cqTail <= c.mask /\ d.cqLen = c.mask + 1 /\ c.mask \in Nat
      /\ d.phase \in {0, 1}
  <2>1. /\ d.sqHead \in Nat /\ d.cqTail \in Nat /\ d.phase \in {0, 1} /\ d.sqLen \in Nat
    BY <1>3 DEF Devs
  <2>2. d.sqHead <= sq[q].mask /\ d.sqLen = sq[q].mask + 1 /\ sq[q].mask \in Nat
    BY <1>2, <1>4 DEF SqType
  <2>3. d.cqTail <= c.mask /\ d.cqLen = c.mask + 1 /\ c.mask \in Nat
    BY <1>2, <1>4, <2>1 DEF CqType
  <2>4. QED
    BY <2>1, <2>2, <2>3
<1>9. PICK h \in Nat : h = head
  BY <1>8, NextIndex DEF After
<1>10. PICK t \in Nat : t = (d.cqTail + 1) % d.cqLen
  BY <1>8, NextIndex DEF After
<1>11. PICK f \in {0, 1} : f = IF d.cqTail = d.cqLen - 1 THEN 1 - d.phase ELSE d.phase
  BY <1>8
<1>12. PICK x \in Cqes :
         /\ x = [phase |-> d.phase, serial |-> command, sq_head |-> head, status |-> status]
         /\ x.phase = d.phase /\ x.serial = issued /\ x.status = status
  <2>1. ASSUME NEW p \in {0, 1}
        PROVE  LET r == [phase |-> p, serial |-> issued, sq_head |-> h, status |-> status]
               IN r \in Cqes /\ r.phase = p /\ r.serial = issued /\ r.status = status
    BY <1>3 DEF Cqes
  <2>2. QED
    BY <1>5, <1>8, <1>9, <2>1
<1>13. /\ DOMAIN cq' = N!Pairs /\ cq'[q] = [c EXCEPT !.entry[d.cqTail] = x]
       /\ \A p \in N!Pairs : p # q => cq'[p] = cq[p]
  BY <1>1, <1>3, <1>12
<1>14. /\ DOMAIN after = N!Pairs
       /\ after[q] = [d EXCEPT !.sqHead = h, !.cqTail = t, !.phase = f]
       /\ \A p \in N!Pairs : p # q => after[p] = dev[p]
  BY <1>3, <1>9, <1>10, <1>11
<1> HIDE DEF after
<1>15. /\ after[q] \in Devs /\ after[q].sqLen = d.sqLen /\ after[q].cqLen = d.cqLen
       /\ after[q].sqHead = h /\ after[q].sqTail = d.sqTail
       /\ after[q].cqHead = d.cqHead /\ after[q].cqTail = t /\ after[q].phase = f
  BY <1>3, <1>14 DEF Devs
<1>16. SqType(sq[q], after[q]) /\ Fetched(sq[q], after[q])
  BY <1>2, <1>3, <1>4, <1>5, <1>9, <1>15, FetchSq
<1>17. /\ CqType(cq'[q], after[q]) /\ cq'[q].mask = c.mask /\ cq'[q].phase = c.phase
       /\ cq'[q].head = c.head
       /\ c.phase = 1 => FirstLap(cq'[q], Consumed(q)) /\ Ready(cq'[q], after[q], issued)
                           /\ cq'[q].entry[cq'[q].head] = x
  <2>1. d.sqLen # 0
    BY <1>2, <1>8
  <2>2. c.phase = 1 => FirstLap(c, Consumed(q)) /\ Awaited(c, d)
    BY <1>4, <1>7 DEF CqOK
  <2>3. /\ after[q].cqTail = (d.cqTail + 1) % d.cqLen
        /\ after[q].phase = IF d.cqTail = d.cqLen - 1 THEN 1 - d.phase ELSE d.phase
    BY <1>10, <1>11, <1>15
  <2>4. x \in Cqes /\ x.phase = d.phase /\ x.serial = issued
    BY <1>12
  <2>5. cq'[q] = [c EXCEPT !.entry[d.cqTail] = x]
    BY <1>13
  <2>6. Posts(c, d, issued, x, cq'[q], after[q])
    BY <1>15, <2>1, <2>3, <2>4, <2>5 DEF Posts
  <2>7. /\ CqType(cq'[q], after[q]) /\ cq'[q].mask = c.mask /\ cq'[q].phase = c.phase
        /\ cq'[q].head = c.head
        /\ c.phase = 1 /\ Awaited(c, d) =>
             /\ Ready(cq'[q], after[q], issued) /\ cq'[q].entry[cq'[q].head] = x
             /\ FirstLap(c, c.head) => FirstLap(cq'[q], c.head)
    BY <1>3, <1>4, <1>15, <2>6, PostCq
  <2>8. FirstLap(c, Consumed(q)) => c.head = Consumed(q)
    BY DEF FirstLap
  <2>9. QED
    BY <2>2, <2>7, <2>8
<1>18. after \in [N!Pairs -> Devs]
  <2>1. after = [dev EXCEPT ![q] = after[q]]
    BY <1>3, <1>14 DEF after
  <2>2. QED
    BY <1>3, <1>15, <2>1
<1>19. /\ DOMAIN dev' = N!Pairs /\ dev'[q] = after[q]
       /\ \A p \in N!Pairs : p # q =>
            dev'[p] = IF p = "io" /\ status = 0 /\ issued = 3
                        THEN [dev[p] EXCEPT !.cqLen = cq["io"].mask + 1]
                      ELSE IF p = "io" /\ status = 0 /\ issued = 4
                        THEN [dev[p] EXCEPT !.sqLen = sq["io"].mask + 1]
                      ELSE dev[p]
  <2>1. CASE q = "admin" /\ status = 0 /\ issued = 3
    BY <1>1, <1>3, <1>5, <1>14, <2>1 DEF N!Pairs
  <2>2. CASE q = "admin" /\ status = 0 /\ issued = 4
    BY <1>1, <1>3, <1>5, <1>14, <2>2 DEF N!Pairs
  <2>3. CASE ~(q = "admin" /\ status = 0 /\ issued \in {3, 4})
    <3>1. dev' = after /\ ~(status = 0 /\ issued \in {3, 4})
      BY <1>1, <1>5, <1>6, <2>3
    <3>2. QED
      BY <1>14, <3>1
  <2>4. QED
    BY <2>1, <2>2, <2>3
<1>20. \A p \in N!Pairs : /\ SqType(sq[p], dev[p]) /\ CqType(cq[p], dev[p]) /\ dev[p] \in Devs
                          /\ sq[p].mask \in Nat /\ cq[p].mask \in Nat
  <2>1. \A p \in N!Pairs : SqType(sq[p], dev[p]) /\ CqType(cq[p], dev[p])
    BY DEF NvmeInv, SqOK, CqOK
  <2>2. ASSUME NEW p \in N!Pairs PROVE sq[p].mask \in Nat /\ cq[p].mask \in Nat
    <3>1. SqType(sq[p], dev[p]) /\ CqType(cq[p], dev[p])
      BY <2>1
    <3>2. sq[p].mask \in Nat
      BY <3>1 DEF SqType
    <3>3. cq[p].mask \in Nat
      BY <3>1 DEF CqType
    <3>4. QED
      BY <3>2, <3>3
  <2>3. QED
    BY <1>3, <2>1, <2>2
<1>21. ASSUME NEW p \in N!Pairs, p # q
       PROVE  /\ dev'[p] \in Devs
              /\ dev'[p].sqHead = dev[p].sqHead /\ dev'[p].sqTail = dev[p].sqTail
              /\ dev'[p].cqHead = dev[p].cqHead /\ dev'[p].cqTail = dev[p].cqTail
              /\ dev'[p].phase = dev[p].phase
              /\ dev'[p].cqLen = IF p = "io" /\ status = 0 /\ issued = 3
                                   THEN cq[p].mask + 1 ELSE dev[p].cqLen
              /\ dev'[p].sqLen = IF p = "io" /\ status = 0 /\ issued = 4
                                   THEN sq[p].mask + 1 ELSE dev[p].sqLen
  <2>1. dev[p] \in Devs /\ sq[p].mask + 1 \in Nat /\ cq[p].mask + 1 \in Nat
    BY <1>20
  <2>2. CASE p = "io" /\ status = 0 /\ issued = 3
    BY <1>19, <1>21, <2>1, <2>2 DEF Devs
  <2>3. CASE p = "io" /\ status = 0 /\ issued = 4
    BY <1>19, <1>21, <2>1, <2>3 DEF Devs
  <2>4. CASE ~(p = "io" /\ status = 0 /\ issued \in {3, 4})
    <3>1. dev'[p] = dev[p]
      BY <1>19, <1>21, <2>4
    <3>2. QED
      BY <2>1, <2>4, <3>1
  <2>5. QED
    BY <2>2, <2>3, <2>4
<1>22. dev' \in [N!Pairs -> Devs]
  <2>1. dev' = [p \in N!Pairs |-> dev'[p]]
    <3>1. CASE q = "admin" /\ status = 0 /\ issued \in {3, 4}
      BY <1>1, <1>5, <1>14, <3>1
    <3>2. CASE ~(q = "admin" /\ status = 0 /\ issued \in {3, 4})
      BY <1>1, <1>5, <1>18, <3>2
    <3>3. QED
      BY <3>1, <3>2
  <2>2. \A p \in N!Pairs : dev'[p] \in Devs
    BY <1>15, <1>19, <1>21
  <2>3. QED
    BY <2>1, <2>2
<1>23. ASSUME NEW p \in N!Pairs PROVE SqOK(p)'
  <2>1. CASE p = q
    BY <1>1, <1>7, <1>16, <1>19, <2>1 DEF SqOK
  <2>2. CASE p # q
    <3>1. SqType(sq[p], dev[p]) /\ Fetched(sq[p], dev[p])
      <4>1. SqOK(p)
        BY DEF NvmeInv
      <4>2. QED
        BY <1>7, <2>2, <4>1 DEF SqOK
    <3>2. SqType(sq'[p], dev'[p]) /\ Fetched(sq'[p], dev'[p])
      BY <1>1, <1>21, <2>2, <3>1 DEF SqType, Fetched
    <3>3. QED
      BY <1>7, <3>2 DEF SqOK
  <2>3. QED
    BY <2>1, <2>2
<1>24. issued >= 4 => dev["io"].cqLen = N!IoLen /\ N!IoLen # 0
  BY LengthsType DEF NvmeInv, LengthsInv
<1>25. ASSUME NEW p \in N!Pairs PROVE CqOK(p)'
  <2>1. CqOK(p)
    BY DEF NvmeInv
  <2>2. CASE p = q
    <3>1. issued' = issued /\ dev'[p] = after[p] /\ Unseen(p)' /\ Consumed(p)' = Consumed(p)
      BY <1>2, <1>7, <1>19, <2>2
    <3>2. /\ CqType(cq'[p], dev'[p]) /\ cq'[p].mask = cq[p].mask /\ cq'[p].phase = cq[p].phase
          /\ cq[p].phase = 1 => FirstLap(cq'[p], Consumed(p)) /\ Ready(cq'[p], dev'[p], issued)
      BY <1>17, <2>2, <3>1
    <3>3. QED
      BY <2>1, <3>1, <3>2 DEF CqOK
  <2>3. CASE p # q
    <3>1. cq'[p] = cq[p]
      BY <1>13, <2>3
    <3>2. CqType(cq'[p], dev'[p])
      <4>1. CqType(cq[p], dev[p]) /\ cq[p].mask \in Nat
        BY <1>20
      <4>2. dev'[p].cqLen \in {0, cq[p].mask + 1}
        BY <1>21, <2>3, <4>1 DEF CqType
      <4>3. dev'[p].sqLen # 0 => dev'[p].cqLen # 0
        <5>1. dev[p].sqLen # 0 => dev[p].cqLen # 0
          BY <4>1 DEF CqType
        <5>2. CASE p = "io" /\ status = 0 /\ issued = 4
          BY <1>21, <1>24, <2>3, <5>2
        <5>3. CASE ~(p = "io" /\ status = 0 /\ issued = 4)
          BY <1>21, <2>3, <4>1, <5>1, <5>3
        <5>4. QED
          BY <5>2, <5>3
      <4>4. QED
        BY <1>21, <2>3, <3>1, <4>1, <4>2, <4>3 DEF CqType
    <3>3. Awaited(cq[p], dev[p]) => Awaited(cq'[p], dev'[p])
      BY <1>21, <2>3, <3>1 DEF Awaited
    <3>4. QED
      BY <1>7, <2>1, <2>3, <3>1, <3>2, <3>3 DEF CqOK
  <2>4. QED
    BY <2>2, <2>3
<1>26. ProgressInv'
  BY <1>1, <1>3, <1>6 DEF NvmeInv, ProgressInv
<1>27. \A p \in N!Pairs : cq'[p].mask = cq[p].mask
  BY <1>13, <1>17
<1>28. LengthsInv'
  <2>1. issued >= 4 => dev'["io"].cqLen = N!IoLen
    <3>1. SUFFICES ASSUME issued >= 4 PROVE dev'["io"].cqLen = N!IoLen
      OBVIOUS
    <3>2. CASE q = "io"
      BY <1>15, <1>19, <1>24, <3>1, <3>2
    <3>3. CASE q # "io"
      BY <1>3, <1>21, <1>24, <3>1, <3>3
    <3>4. QED
      BY <3>2, <3>3
  <2>2. QED
    BY <1>1, <1>3, <1>27, <2>1 DEF NvmeInv, LengthsInv
<1>29. TailInv'
  BY <1>2 DEF NvmeInv, TailInv
<1>30. cq'[q].entry[d.cqTail].serial = issued
  <2>1. c.entry \in [0 .. c.mask -> Cqes] /\ d.cqTail \in 0 .. c.mask
    BY <1>4, <1>8 DEF CqType
  <2>2. cq'[q].entry = [c.entry EXCEPT ![d.cqTail] = x]
    BY <1>4, <1>13 DEF CqType
  <2>3. QED
    BY <1>12, <2>1, <2>2
<1>31. CreationInv'
  <2>1. CASE issued > 4
    BY <1>1, <1>3, <2>1 DEF CreationInv
  <2>2. CASE issued <= 4
    <3>1. "io" # q /\ q = "admin"
      BY <1>6, <2>2
    <3>2. /\ issued < 3 => dev'["io"].cqLen = 0
          /\ issued < 4 => dev'["io"].sqLen = 0
          /\ dev'["io"].sqHead = 0 /\ dev'["io"].cqHead = 0 /\ dev'["io"].cqTail = 0
          /\ dev'["io"].sqTail = 0 /\ dev'["io"].phase = 1
      BY <1>3, <1>21, <2>2, <3>1 DEF NvmeInv, CreationInv
    <3>3. ASSUME issued = 3
          PROVE  \/ dev'["io"].cqLen = N!IoLen
                 \/ N!Polled(cq'[q]) => cq'[q].entry[cq'[q].head].status = 1
      <4>1. CASE status = 0
        <5>1. cq["io"].mask = N!IoLen - 1
          BY <3>3 DEF NvmeInv, LengthsInv
        <5>2. dev'["io"].cqLen = cq["io"].mask + 1
          BY <1>3, <1>21, <3>1, <3>3, <4>1
        <5>3. QED
          BY <5>1, <5>2, LengthsType
      <4>2. CASE status = 1 /\ c.phase = 1
        BY <1>12, <1>17, <4>2
      <4>3. CASE c.phase # 1
        <5>1. /\ cq'[q].phase = 254 /\ cq'[q].head \in 0 .. cq'[q].mask
              /\ cq'[q].entry \in [0 .. cq'[q].mask -> Cqes]
          BY <1>17, <4>3 DEF CqType
        <5>2. cq'[q].entry[cq'[q].head].phase \in {0, 1}
          BY <5>1 DEF Cqes
        <5>3. QED
          BY <5>1, <5>2 DEF N!Polled
      <4>4. QED
        BY <4>1, <4>2, <4>3
    <3>4. QED
      BY <1>1, <1>3, <1>6, <2>2, <3>1, <3>2, <3>3 DEF CreationInv
  <2>3. QED
    BY <1>3, <2>1, <2>2
<1>32. NvmeInv'
  BY <1>1, <1>3, <1>13, <1>22, <1>23, <1>25, <1>26, <1>28, <1>31, <1>29 DEF NvmeInv
<1>33. c.phase = 254 \/ d.cqTail = c.head
  BY <1>4, <1>7 DEF CqOK, CqType, Awaited
<1>34. QED
  BY <1>6, <1>17, <1>32, <1>33, <1>30

(* The state before nvme_init. *)
LEMMA InitNvme == N!Init => NvmeInv
<1> SUFFICES ASSUME N!Init PROVE NvmeInv
  OBVIOUS
<1>1. /\ pc = "start" /\ issued = 0 /\ posted = 0 /\ got = 0
      /\ sq = [q \in N!Pairs |-> N!NewSq(1)] /\ cq = [q \in N!Pairs |-> N!NewCq(1)]
      /\ dev = [q \in N!Pairs |-> N!NoQueue]
  BY DEF N!Init
<1>2. /\ N!NoQueue \in Devs /\ N!NoQueue.sqLen = 0 /\ N!NoQueue.cqLen = 0
      /\ N!NoQueue.sqHead = 0 /\ N!NoQueue.sqTail = 0 /\ N!NoQueue.cqHead = 0
      /\ N!NoQueue.cqTail = 0 /\ N!NoQueue.phase = 1
  BY DEF N!NoQueue, Devs
<1>3. ASSUME NEW q \in N!Pairs PROVE SqOK(q) /\ CqOK(q)
  <2>1. sq[q] = N!NewSq(1) /\ cq[q] = N!NewCq(1) /\ dev[q] = N!NoQueue
    BY <1>1
  <2>2. /\ SqType(sq[q], dev[q]) /\ Fetched(sq[q], dev[q])
        /\ CqType(cq[q], dev[q]) /\ FirstLap(cq[q], 0) /\ Awaited(cq[q], dev[q]) /\ cq[q].phase = 1
    BY <1>2, <2>1, NewQueues
  <2>3. ~Outstanding(q) /\ ~Unseen(q) /\ Consumed(q) = 0
    BY <1>1 DEF Outstanding, Unseen, Consumed, Done, InWait
  <2>4. QED
    BY <2>2, <2>3 DEF SqOK, CqOK
<1>4. DOMAIN sq = N!Pairs /\ DOMAIN cq = N!Pairs /\ dev \in [N!Pairs -> Devs]
  BY <1>1, <1>2
<1>5. ProgressInv /\ LengthsInv
  BY <1>1, LengthsType DEF ProgressInv, LengthsInv, InWait
<1>6. CreationInv
  <2>1. dev["io"] = N!NoQueue
    BY <1>1 DEF N!Pairs
  <2>2. QED
    BY <1>1, <1>2, <2>1 DEF CreationInv
<1>7. TailInv
  BY <1>1 DEF TailInv, N!Pairs, N!NewSq
<1>8. QED
  BY <1>3, <1>4, <1>5, <1>6, <1>7 DEF NvmeInv

(* Every step of the driver and of the controller keeps the queues in      *)
(* order; a wait for a command of the I/O pair is begun by Submit and goes *)
(* on only while the driver polls.                                         *)
LEMMA NvmeStep ==
  ASSUME NvmeInv
  PROVE  /\ N!Disable \/ N!WaitDisabled \/ N!WaitEnabled => NvmeInv' /\ pc' # "polling"
         /\ \A q \in N!Pairs : N!PollAgain(q) \/ N!TimeOut(q) => NvmeInv'
         /\ N!DeviceReady => NvmeInv'
<1>1. ASSUME N!Disable PROVE NvmeInv' /\ pc' # "polling"
  <2>1. /\ pc = "start" /\ pc' = "wait_disabled" /\ issued = 0
        /\ UNCHANGED <<sq, cq, dev, issued, posted, got>>
    BY <1>1 DEF N!Disable, NvmeInv, ProgressInv
  <2>2. InWait' = InWait
    BY <2>1 DEF InWait
  <2>3. QED
    BY <2>1, <2>2, QuietInv
<1>2. ASSUME NEW v, N!WaitRound(v), pc \in {"wait_disabled", "wait_enabled"}
      PROVE  NvmeInv' /\ pc' # "polling"
  <2>1. pc' = pc /\ issued = 0 /\ UNCHANGED <<sq, cq, dev, issued, posted, got>>
    BY <1>2 DEF N!WaitRound, NvmeInv, ProgressInv
  <2>2. InWait' = InWait
    BY <2>1 DEF InWait
  <2>3. QED
    BY <1>2, <2>1, <2>2, QuietInv
<1>3. ASSUME N!WaitFails, pc \in {"wait_disabled", "wait_enabled"}
      PROVE  NvmeInv' /\ pc' # "polling"
  <2>1. pc' = "panic_csts" /\ issued = 0 /\ UNCHANGED <<sq, cq, dev, issued, posted, got>>
    BY <1>3 DEF N!WaitFails, NvmeInv, ProgressInv
  <2>2. InWait' = InWait
    BY <1>3, <2>1 DEF InWait
  <2>3. QED
    BY <1>3, <2>1, <2>2, QuietInv DEF Panics
<1>4. ASSUME N!Enabled, pc = "wait_enabled" PROVE NvmeInv' /\ pc' # "polling"
  <2>1. pc' = "idle" /\ UNCHANGED <<sq, cq, dev, issued, posted, got>>
    BY <1>4 DEF N!Enabled
  <2>2. InWait' = InWait
    BY <1>4, <2>1 DEF InWait
  <2>3. QED
    BY <1>4, <2>1, <2>2, QuietInv
<1>5. ASSUME N!Enable, pc = "wait_disabled" PROVE NvmeInv' /\ pc' # "polling"
  BY <1>5, EnableInv DEF N!Enable
<1>6. ASSUME NEW q \in N!Pairs, N!PollAgain(q) PROVE NvmeInv'
  <2>1. pc = "polling" /\ pc' = pc /\ UNCHANGED <<sq, cq, dev, issued, posted, got>>
    BY <1>6 DEF N!PollAgain
  <2>2. InWait' = InWait
    BY <2>1 DEF InWait
  <2>3. QED
    BY <2>1, <2>2, QuietInv
<1>7. ASSUME NEW q \in N!Pairs, N!TimeOut(q) PROVE NvmeInv'
  <2>1. pc = "polling" /\ pc' = "panic_timeout" /\ UNCHANGED <<sq, cq, dev, issued, posted, got>>
    BY <1>7 DEF N!TimeOut
  <2>2. InWait' = InWait
    BY <2>1 DEF InWait
  <2>3. QED
    BY <2>1, <2>2, QuietInv DEF Panics
<1>8. ASSUME N!DeviceReady PROVE NvmeInv'
  <2>1. pc' = pc /\ UNCHANGED <<sq, cq, dev, issued, posted, got>>
    BY <1>8 DEF N!DeviceReady
  <2>2. InWait' = InWait
    BY <2>1 DEF InWait
  <2>3. /\ pc \in {"start", "wait_disabled", "wait_enabled", "idle", "polling"} \cup Panics
        /\ pc \in {"start", "wait_disabled", "wait_enabled", "panic_csts"} => issued = 0
    BY DEF NvmeInv, ProgressInv
  <2>4. QED
    BY <2>1, <2>2, <2>3, QuietInv
<1>9. QED
  BY <1>1, <1>2, <1>3, <1>4, <1>5, <1>6, <1>7, <1>8 DEF N!WaitDisabled, N!WaitEnabled

(* A command of the I/O pair is the read the loop of nvme_read is at. *)
LEMMA ReadWait ==
  ASSUME NvmeInv, PageInv, pc = "polling", "io" = N!PairOf(issued)
  PROVE  issued > 4 /\ Asking /\ lba = Start + i
<1>1. issued \in Nat
  BY DEF NvmeInv, ProgressInv
<1>2. issued > 4
  BY <1>1 DEF N!PairOf
<1>3. QED
  BY <1>2 DEF PageInv

(* The kernel's steps keep the queues in order, and no step leaves a read  *)
(* waiting but for the ones that wait for it.                              *)
LEMMA StorageNvme ==
  ASSUME N!SqFits, NvmeInv, PageInv, [StorageNext]_storageVars
  PROVE  NvmeInv' /\ PageInv'
<1>0. /\ issued \in Nat /\ Len(N!Admin) = 4 /\ "io" \in N!Pairs /\ "admin" \in N!Pairs
      /\ ("admin" = N!PairOf(issued) => issued <= 4)
  BY DEF NvmeInv, ProgressInv, N!Admin, N!Pairs, N!PairOf
<1>1. CASE BringUp
  <2>1. NvmeInv' /\ (pc' # "polling" \/ ~(issued' > 4))
    <3>1. CASE N!Disable \/ N!WaitDisabled \/ N!WaitEnabled
      BY <3>1, NvmeStep
    <3>2. CASE issued < Len(N!Admin) /\ N!Submit
      <4>1. NvmeInv' /\ issued' = issued + 1
        BY <3>2, SubmitInv DEF N!Submit
      <4>2. QED
        BY <1>0, <3>2, <4>1
    <3>3. CASE N!Complete("admin")
      <4>1. NvmeInv' /\ ~InWait'
        BY <1>0, <3>3, CompleteInv
      <4>2. QED
        BY <4>1 DEF InWait
    <3>4. CASE N!PollAgain("admin") \/ N!TimeOut("admin")
      <4>1. NvmeInv'
        BY <1>0, <3>4, NvmeStep
      <4>2. issued' = issued /\ "admin" = N!PairOf(issued)
        BY <3>4 DEF N!PollAgain, N!TimeOut
      <4>3. QED
        BY <1>0, <4>1, <4>2
    <3>5. QED
      BY <1>1, <3>1, <3>2, <3>3, <3>4 DEF BringUp
  <2>2. QED
    BY <2>1 DEF PageInv
<1>2. CASE ReadSubmit
  <2>1. NvmeInv' /\ pc' = "polling" /\ posted' < issued'
    BY <1>2, SubmitInv DEF ReadSubmit
  <2>2. /\ Asking /\ lba' = Start + i /\ UNCHANGED vars
    BY <1>2 DEF ReadSubmit, CommandLba
  <2>3. Asking' /\ Start' = Start /\ i' = i
    BY <2>2 DEF vars, Asking, Reading, Complete, Start
  <2>4. issued' \in Nat
    BY <2>1 DEF NvmeInv, ProgressInv
  <2>5. posted' # issued'
    BY <2>1, <2>4
  <2>6. QED
    BY <2>1, <2>2, <2>3, <2>5 DEF PageInv
<1>3. ASSUME UNCHANGED <<pc, sq, cq, issued, posted, vars, lba, page>> PROVE PageInv'
  BY <1>3 DEF PageInv, vars, Asking, Reading, Complete, Start, N!Polled
<1>4. CASE ReadPoll
  <2>1. NvmeInv'
    BY <1>0, <1>4, NvmeStep DEF ReadPoll
  <2>2. UNCHANGED <<pc, sq, cq, issued, posted, vars, lba, page>>
    BY <1>4 DEF ReadPoll, N!PollAgain
  <2>3. QED
    BY <1>3, <2>1, <2>2
<1>5. CASE ReadDone
  <2>1. NvmeInv' /\ ~InWait'
    BY <1>0, <1>5, CompleteInv DEF ReadDone
  <2>2. QED
    BY <2>1 DEF PageInv, InWait
<1>6. CASE ReadTimeOut
  <2>1. NvmeInv' /\ pc' = "panic_timeout"
    BY <1>0, <1>6, NvmeStep DEF ReadTimeOut, N!TimeOut
  <2>2. QED
    BY <2>1 DEF PageInv
<1>7. CASE Scan
  <2>1. UNCHANGED <<pc, sq, cq, dev, issued, posted, got>> /\ pc = "idle"
    BY <1>7 DEF Scan, nvme, Booted
  <2>2. InWait' = InWait
    BY <2>1 DEF InWait
  <2>3. NvmeInv'
    BY <2>1, <2>2, QuietInv
  <2>4. QED
    BY <2>1, <2>3 DEF PageInv
<1>8. CASE DeviceRead
  <2>1. /\ NvmeInv' /\ (cq["io"].phase = 254 \/ dev["io"].cqTail = cq["io"].head)
        /\ cq'["io"].head = cq["io"].head /\ cq'["io"].phase = cq["io"].phase
        /\ Posted.serial = issued
    BY <1>0, <1>8, ExecuteInv DEF DeviceRead, Posted
  <2>2. /\ lba + BATCH > disk.blocks => Posted.status # 0
        /\ page' = IF Posted.status = 0 THEN [k \in 0 .. BATCH - 1 |-> lba + k] ELSE page
        /\ UNCHANGED vars /\ lba' = lba /\ pc' = pc /\ issued' = issued
    BY <1>8, <2>1 DEF DeviceRead, N!DeviceExecute
  <2>3. Asking' = Asking /\ Start' = Start /\ i' = i /\ disk' = disk
    BY <2>2 DEF vars, Asking, Reading, Complete, Start
  <2>4. SUFFICES ASSUME pc = "polling", issued > 4, N!Polled(cq["io"])',
                        cq'["io"].entry[cq'["io"].head].status = 0
                 PROVE  page' = [k \in 0 .. BATCH - 1 |-> lba + k] /\ ~(lba + BATCH > disk.blocks)
    <3>1. pc = "polling" /\ issued > 4 => Asking' /\ lba' = Start' + i'
      BY <2>2, <2>3 DEF PageInv
    <3>2. QED
      BY <2>1, <2>2, <2>3, <3>1 DEF PageInv
  <2>5. cq["io"].phase # 254
    <3>1. /\ cq'["io"].head \in 0 .. cq'["io"].mask
          /\ cq'["io"].entry \in [0 .. cq'["io"].mask -> Cqes]
      <4>1. CqType(cq["io"], dev["io"])'
        BY <1>0, <2>1 DEF NvmeInv, CqOK
      <4>2. QED
        BY <4>1 DEF CqType
    <3>2. cq'["io"].entry[cq'["io"].head].phase \in {0, 1}
      BY <3>1 DEF Cqes
    <3>3. QED
      BY <2>1, <2>4, <3>2 DEF N!Polled
  <2>6. Posted.status = 0
    BY <2>1, <2>4, <2>5 DEF Posted
  <2>7. QED
    BY <2>2, <2>6
<1>9. CASE N!DeviceReady /\ UNCHANGED <<vars, lba, page>>
  <2>1. NvmeInv'
    BY <1>9, NvmeStep
  <2>2. UNCHANGED <<pc, sq, cq, issued, posted, vars, lba, page>>
    BY <1>9 DEF N!DeviceReady
  <2>3. QED
    BY <1>3, <2>1, <2>2
<1>10. CASE N!DeviceExecute("admin")
  <2>1. NvmeInv' /\ "admin" = N!PairOf(issued) /\ issued' = issued
    BY <1>0, <1>10, ExecuteInv DEF N!DeviceExecute
  <2>2. QED
    BY <1>0, <2>1 DEF PageInv
<1>11. CASE UNCHANGED storageVars
  <2>1. /\ UNCHANGED <<pc, sq, cq, dev, issued, posted, got>>
        /\ UNCHANGED <<vars, lba, page>>
    BY <1>11 DEF storageVars, nvme
  <2>2. InWait' = InWait
    BY <2>1 DEF InWait
  <2>3. /\ pc \in {"start", "wait_disabled", "wait_enabled", "idle", "polling"} \cup Panics
        /\ pc \in {"start", "wait_disabled", "wait_enabled", "panic_csts"} => issued = 0
    BY DEF NvmeInv, ProgressInv
  <2>4. NvmeInv'
    BY <2>1, <2>2, <2>3, QuietInv
  <2>5. QED
    BY <1>3, <2>1, <2>4
<1>12. QED
  BY <1>1, <1>2, <1>4, <1>5, <1>6, <1>7, <1>8, <1>9, <1>10, <1>11
  DEF StorageNext, Kernel, Controller

(* A read that succeeds copies the blocks asked for. *)
LEMMA ReadDoneImplements ==
  ASSUME StorageInv, ReadDone
  PROVE  Next
<1>1. N!Complete("io") /\ "io" \in N!Pairs
  BY DEF ReadDone, N!Pairs
<1>2. /\ pc = "polling" /\ "io" = N!PairOf(issued) /\ N!Polled(cq["io"])
      /\ pc' = "idle" => cq["io"].entry[cq["io"].head].status = 0
  BY <1>1 DEF N!Complete
<1>3. posted = issued
  BY <1>1, CompleteInv DEF StorageInv
<1>4. issued > 4 /\ Asking /\ lba = Start + i
  BY <1>2, ReadWait DEF StorageInv
<1>5. CASE pc' = "idle"
  <2>1. page = [k \in 0 .. BATCH - 1 |-> lba + k] /\ ~(lba + BATCH > disk.blocks)
    BY <1>2, <1>3, <1>4, <1>5 DEF StorageInv, PageInv
  <2>2. Copy(page) /\ UNCHANGED <<disk, phase, part, found>>
    BY <1>5 DEF ReadDone
  <2>3. /\ Start \in Nat /\ i \in Nat /\ BATCH \in Nat /\ disk.blocks \in Nat
    BY <1>4, StartType, BlocksType, DiskType DEF StorageInv, GptInv, ReadInv, Asking
  <2>4. LastBlock <= disk.blocks
    BY <1>4, <2>1, <2>3 DEF LastBlock
  <2>5. page = [k \in 0 .. BATCH - 1 |-> Start + i + k]
    BY <1>4, <2>1
  <2>6. ReadBatch
    BY <1>4, <2>2, <2>4, <2>5 DEF ReadBatch
  <2>7. QED
    BY <2>6 DEF Next
<1>6. CASE pc' # "idle"
  BY <1>4, <1>6 DEF ReadDone, Next, ReadPastEnd, ReadFails
<1>7. QED
  BY <1>5, <1>6

(* Every step on the queues is a step of the scan or none. *)
LEMMA StorageImplements ==
  ASSUME StorageInv, [StorageNext]_storageVars
  PROVE  [Next]_vars
<1>1. CASE ReadDone
  BY <1>1, ReadDoneImplements
<1>2. CASE ReadTimeOut
  <2>1. pc = "polling" /\ "io" = N!PairOf(issued) /\ Fail("failed")
    BY <1>2 DEF ReadTimeOut, N!TimeOut
  <2>2. Asking
    BY <2>1, ReadWait DEF StorageInv
  <2>3. QED
    BY <2>1, <2>2 DEF Next, ReadFails
<1>3. CASE Scan
  BY <1>3 DEF Scan, Next
<1>4. CASE BringUp \/ ReadSubmit \/ ReadPoll \/ Controller \/ UNCHANGED storageVars
  BY <1>4 DEF BringUp, ReadSubmit, ReadPoll, Controller, DeviceRead, storageVars
<1>5. QED
  BY <1>1, <1>2, <1>3, <1>4 DEF StorageNext, Kernel

(* As long as the commands stay in the page of the submission queue, the   *)
(* driver, the controller and the scan keep StorageInv: one command is     *)
(* outstanding at a time, its completion is where the driver polls, and    *)
(* the page holds what was asked for when it has succeeded.                *)
THEOREM StorageCorrect ==
  ASSUME N!SqFits
  PROVE  StorageSpec => []StorageInv
<1>1. StorageInit => StorageInv
  <2> SUFFICES ASSUME StorageInit PROVE StorageInv
    OBVIOUS
  <2>1. NvmeInv /\ GptInv
    BY InitNvme, InitGpt DEF StorageInit
  <2>2. PageInv
    BY DEF StorageInit, N!Init, PageInv
  <2>3. QED
    BY <2>1, <2>2 DEF StorageInv
<1>2. StorageInv /\ [StorageNext]_storageVars => StorageInv'
  <2> SUFFICES ASSUME StorageInv, [StorageNext]_storageVars PROVE StorageInv'
    OBVIOUS
  <2>1. NvmeInv' /\ PageInv'
    BY StorageNvme DEF StorageInv
  <2>2. GptInv'
    BY StorageImplements, NextGpt DEF StorageInv
  <2>3. QED
    BY <2>1, <2>2 DEF StorageInv
<1>3. QED
  BY <1>1, <1>2, PTL DEF StorageSpec

(* nvme_wait hands its caller the completion of the caller's command: the  *)
(* driver compares no command ids, and does not need to, as long as the    *)
(* controller fetches the command and not what lies behind the page.       *)
THEOREM OwnCompletionCorrect ==
  ASSUME N!SqFits
  PROVE  StorageSpec => []CompletionIsOwn
<1>1. StorageInv => CompletionIsOwn
  BY DEF StorageInv, NvmeInv, ProgressInv, InWait, CompletionIsOwn, N!CompletionIsOwn
<1>2. QED
  BY <1>1, StorageCorrect, PTL

(* A command that was completed does not time out, as long as the admin    *)
(* completion queue has room for the four commands of nvme_init and the    *)
(* reads do not go around the I/O completion queue: until its second lap.  *)
THEOREM VisibleCorrect ==
  ASSUME N!SqFits, AdminCqLen >= 4, MaxReads <= N!IoLen
  PROVE  StorageSpec => []CompletionVisible
<1>1. StorageInv => CompletionVisible
  <2> SUFFICES ASSUME StorageInv, pc = "polling", posted = issued
               PROVE  N!Polled(cq[N!PairOf(issued)])
    BY DEF CompletionVisible, N!CompletionVisible
  <2> DEFINE q == N!PairOf(issued)
  <2>1. /\ issued \in Nat /\ issued > 0 /\ issued <= 4 + MaxReads /\ q \in N!Pairs
        /\ InWait /\ Unseen(q) /\ CqOK(q)
    BY DEF StorageInv, NvmeInv, ProgressInv, InWait, Unseen, N!PairOf, N!Pairs
  <2>2. cq[q].phase # 254
    <3>1. SUFFICES ASSUME Consumed(q) = cq[q].mask + 1 PROVE FALSE
      BY <2>1 DEF CqOK
    <3>2. CASE issued <= 4
      <4>1. q = "admin" /\ Consumed(q) <= 3
        BY <2>1, <3>2 DEF N!PairOf, Consumed, Done
      <4>2. cq[q].mask + 1 = AdminCqLen
        BY <4>1, LengthsType DEF StorageInv, NvmeInv, LengthsInv
      <4>3. QED
        BY <3>1, <4>1, <4>2, LengthsType
    <3>3. CASE issued > 4
      <4>1. q = "io" /\ Consumed(q) = issued - 5
        BY <2>1, <3>3 DEF N!PairOf, Consumed, Done
      <4>2. cq[q].mask + 1 = N!IoLen
        BY <2>1, <3>3, <4>1, LengthsType DEF StorageInv, NvmeInv, LengthsInv
      <4>3. QED
        BY <2>1, <3>1, <4>1, <4>2, LengthsType
    <3>4. QED
      BY <2>1, <3>2, <3>3
  <2>3. cq[q].phase = 1
    BY <2>1, <2>2 DEF CqOK, CqType
  <2>4. QED
    BY <2>1, <2>3 DEF CqOK, Ready, N!Polled
<1>2. QED
  BY <1>1, StorageCorrect, PTL

(* With a driver and a controller that each go at their own pace, the scan *)
(* sees the disk as if every read were one step: for every queue that fits *)
(* its page, and for the first 64 reads on one that does not.              *)
THEOREM ImplementsGptCorrect ==
  ASSUME N!SqFits
  PROVE  StorageSpec => ImplementsGpt
<1>1. StorageInit => Init
  BY DEF StorageInit
<1>2. StorageInv /\ [StorageNext]_storageVars => [Next]_vars
  BY StorageImplements
<1>3. QED
  BY <1>1, <1>2, StorageCorrect, PTL DEF StorageSpec, ImplementsGpt, Spec

(* So what nvme_read and gpt_init promise holds of those reads through the *)
(* queues.                                                                 *)
THEOREM QueuedReadsCorrect ==
  ASSUME N!SqFits
  PROVE  StorageSpec => [](ReadExact /\ ScanExact)
BY ImplementsGptCorrect, ReadCorrect, ScanCorrect, PTL DEF ImplementsGpt

(* The page of nvme_read changes under the driver only while it waits for  *)
(* the read, or has given up; otherwise it is a fresh one.                 *)
PageStep == page' # page => InWait \/ (Booted /\ page' = Unread)

(* The controller never writes to the page while nvme_read copies from it  *)
(* or after it has returned.                                               *)
THEOREM PageCorrect ==
  ASSUME N!SqFits
  PROVE  StorageSpec => [][PageStep]_storageVars
<1>1. StorageInv /\ [StorageNext]_storageVars => [PageStep]_storageVars
  <2> SUFFICES ASSUME StorageInv, StorageNext, page' # page
               PROVE  InWait \/ (Booted /\ page' = Unread)
    BY DEF PageStep
  <2>1. CASE DeviceRead
    <3>1. posted < issued /\ issued \in Nat
      BY <2>1, ExecuteInv DEF DeviceRead, N!Pairs, StorageInv, NvmeInv, ProgressInv
    <3>2. QED
      BY <3>1 DEF StorageInv, NvmeInv, ProgressInv
  <2>2. CASE ReadSubmit
    BY <2>2 DEF ReadSubmit
  <2>3. QED
    BY <2>1, <2>2
    DEF StorageNext, Kernel, Controller, BringUp, ReadPoll, ReadDone, ReadTimeOut, Scan
<1>2. QED
  BY <1>1, StorageCorrect, PTL DEF StorageSpec
=============================================================================
