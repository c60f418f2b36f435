------------------------------ MODULE MCStorage ------------------------------
(***************************************************************************)
(* Disks of up to three partitions, the last ones close to the end of the  *)
(* disk, with and without a partition table, and one of larger blocks.     *)
(* The I/O queues wrap around with the last of eight reads.                *)
(***************************************************************************)
EXTENDS Storage

Partition(s, k) == [start |-> s, kind |-> k]
Disk(b, g, es) == [sector |-> 512, blocks |-> b, gpt |-> g, count |-> Len(es), entries |-> es]

Tables ==
  { <<Partition(4, k1), Partition(s2, k2), Partition(s3, "fat32")>> :
      k1 \in {"btrfs", "fat32", "other"}, k2 \in {"btrfs", "fat32", "other"},
      s2 \in {0, 10}, s3 \in {0, 16} }

MCDisks ==
  {Disk(b, TRUE, es) : b \in {13, 20, 22, 24}, es \in Tables}
    \cup {Disk(b, FALSE, <<>>) : b \in {3, 24}}
    \cup {[Disk(24, TRUE, <<>>) EXCEPT !.sector = 4096]}
=============================================================================
