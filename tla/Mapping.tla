------------------------------- MODULE Mapping -------------------------------
(***************************************************************************)
(* Kernel address space and what it is mapped to: the regions of           *)
(* AddressSpace, the page tables of mm_virtual_map, the TLB, and the users *)
(* of all three, mmap and munmap (the heap), acpi_os_map_memory and        *)
(* acpi_os_unmap_memory, and pci_express_read.  The mappings that stay     *)
(* (APIC, I/O APIC, NVMe registers, the kernel's symbols) are made like    *)
(* those of ACPI.                                                          *)
(*                                                                         *)
(* PhysicalMemory has the order in which frames are handed out.  One level *)
(* of tables stands for three.  A call runs to its end before the next     *)
(* one.  The processor may cache a present entry, and drop it, at any      *)
(* time, whether or not anybody holds the page.                            *)
(***************************************************************************)
EXTENDS AddressSpace

CONSTANTS
  Frames,    \* frames of the physical memory manager
  Device,    \* addresses of pages of firmware tables and device registers
  PerTable,  \* pages whose entries one table holds: 512
  LastPage,  \* last page of the address space
  None

ASSUME MappingAssumption ==
  /\ Device \subseteq Nat /\ PerTable \in Nat \ {0} /\ LastPage \in Nat
  /\ None \notin Frames /\ Frames \cap Nat = {}
  /\ \A r \in BootRanges[1] : MaxPages <= r.start /\ End(r) <= LastPage + 1

VARIABLES
  free,     \* frames of the pool
  table,    \* frame of each page table, or None while it does not exist
  pte,      \* present entry of each page, or None
  tlb,      \* cached translation of each page, or None
  user,     \* who holds each region: "mmap", "acpi" or "pcie"
  job,      \* the call in progress: its region, the page it is at
  starved,  \* mm_physical_get has panicked
  lost,     \* history: frames mapped by an mmap that got no address space
  remains   \* history: entry of each page when mm_virtual_free last gave it back

mappings == <<free, table, pte, tlb>>
space == <<list, inuse, boot, panicked, reserved, owned>>
mapVars == <<space, mappings, user, job, starved, lost, remains>>

Pages == 0 .. LastPage
TableOf(v) == v \div PerTable
Idle == [op |-> "idle"]
PagesOf(region) == region.start .. End(region) - 1

MapInit ==
  /\ Init
  /\ free = Frames
  /\ table = [t \in {TableOf(v) : v \in Pages} |-> None]
  /\ pte = [v \in Pages |-> None]
  /\ tlb = [v \in Pages |-> None]
  /\ user = <<>>
  /\ job = Idle
  /\ starved = FALSE
  /\ lost = {}
  /\ remains = [v \in Pages |-> None]
-----------------------------------------------------------------------------
BootStep == Boot /\ UNCHANGED <<mappings, user, job, starved, lost, remains>>

NothingFits(pages) == \A i \in DOMAIN list : ~Fits(i, pages)

Begin(op, virt, pages, phys) ==
  job' = [op |-> op, virt |-> virt, at |-> virt, end |-> virt + pages, phys |-> phys]

(* mm_virtual_alloc, from one of the users.  None of them looks at the     *)
(* result: without a node that fits they go on with the address 0.         *)
Take(op, pages, phys) ==
  /\ job = Idle
  /\ \/ /\ Alloc(pages)
        /\ IF panicked' THEN UNCHANGED <<user, job>>
           ELSE \E region \in owned' \ owned :
                  /\ user' = [s \in DOMAIN user \cup {region.start} |->
                                IF s = region.start THEN op ELSE user[s]]
                  /\ Begin(op, region.start, pages, phys)
     \/ /\ Booted /\ NothingFits(pages)
        /\ Begin(op, 0, pages, phys)
        /\ UNCHANGED <<space, user>>
  /\ UNCHANGED <<mappings, starved, lost, remains>>

(* mm_virtual_map of page v with `left' frames in the pool: it makes the   *)
(* table if there is none, and does not invalidate the TLB.                *)
Map(v, target, left) ==
  /\ pte' = [pte EXCEPT ![v] = target]
  /\ \/ /\ table[TableOf(v)] # None
        /\ free' = left
        /\ UNCHANGED <<table, starved>>
     \/ /\ table[TableOf(v)] = None
        /\ \E f \in left : table' = [table EXCEPT ![TableOf(v)] = f] /\ free' = left \ {f}
        /\ UNCHANGED starved
     \/ /\ table[TableOf(v)] = None /\ left = {}
        /\ starved' = TRUE
        /\ free' = left /\ UNCHANGED table

(* The loops go on with the next page, or return. *)
Advance == job' = IF job.at + 1 = job.end THEN Idle ELSE [job EXCEPT !.at = @ + 1]

(* One turn of the loop of mmap: a frame and its mapping. *)
MmapPage ==
  /\ job.op = "mmap"
  /\ \/ \E f \in free :
          /\ Map(job.at, f, free \ {f})
          /\ lost' = IF job.virt = 0 THEN lost \cup {f} ELSE lost
     \/ free = {} /\ starved' = TRUE /\ UNCHANGED <<free, table, pte, lost>>
  /\ Advance
  /\ UNCHANGED <<space, tlb, user, remains>>

(* One turn of the loop of acpi_os_map_memory, or the one page of          *)
(* pci_express_read, which unmaps it in the same call (PcieUnmap).         *)
DevicePage ==
  /\ job.op \in {"acpi", "pcie"}
  /\ Map(job.at, job.phys + (job.at - job.virt), free)
  /\ IF job.op = "acpi" THEN Advance
     ELSE job' = [job EXCEPT !.op = "read"]
  /\ UNCHANGED <<space, tlb, user, lost, remains>>
-----------------------------------------------------------------------------
(* Mutant: only the first page of the region is invalidated. *)
InvlpgFirst(region) == tlb' = [tlb EXCEPT ![region.start] = None]

Invlpg(region) == tlb' = [v \in Pages |-> IF v \in PagesOf(region) THEN None ELSE tlb[v]]

(* mm_virtual_free of a region one of the users holds.  It leaves the      *)
(* entries as they are.                                                    *)
GiveBack(region) ==
  /\ Free(region)
  /\ Invlpg(region)
  /\ remains' = [v \in Pages |-> IF v \in PagesOf(region) THEN pte'[v] ELSE remains[v]]
  /\ user' = [s \in DOMAIN user \ {region.start} |-> user[s]]

Munmap(region) ==
  /\ job = Idle /\ region \in owned /\ user[region.start] = "mmap"
  /\ job' = [op |-> "munmap", region |-> region, at |-> region.start]
  /\ UNCHANGED <<space, mappings, user, starved, lost, remains>>

(* Mutant: the frame is not given back. *)
MunmapPageLeaks ==
  /\ job.op = "munmap" /\ job.at < End(job.region)
  /\ pte' = [pte EXCEPT ![job.at] = None]
  /\ job' = [job EXCEPT !.at = @ + 1]
  /\ UNCHANGED <<space, free, table, tlb, user, starved, lost, remains>>

(* munmap, page by page: the entry is cleared and its frame given back ... *)
MunmapPage ==
  /\ job.op = "munmap" /\ job.at < End(job.region)
  /\ pte' = [pte EXCEPT ![job.at] = None]
  /\ free' = free \cup {pte[job.at]}
  /\ job' = [job EXCEPT !.at = @ + 1]
  /\ UNCHANGED <<space, table, tlb, user, starved, lost, remains>>

(* ... and then mm_virtual_free. *)
MunmapFree ==
  /\ job.op = "munmap" /\ job.at = End(job.region)
  /\ UNCHANGED <<free, table, pte, starved, lost>>
  /\ GiveBack(job.region)
  /\ job' = Idle

(* acpi_os_unmap_memory: mm_virtual_free only, the entries stay present. *)
AcpiUnmap(region) ==
  /\ job = Idle /\ region \in owned /\ user[region.start] = "acpi"
  /\ UNCHANGED <<free, table, pte, job, starved, lost>>
  /\ GiveBack(region)

(* The end of pci_express_read: the page is mapped with no flags and       *)
(* freed; there is no node to free at the address 0.                       *)
PcieUnmap ==
  /\ job.op = "read"
  /\ pte' = [pte EXCEPT ![job.at] = None]
  /\ IF job.virt = 0 THEN UNCHANGED <<space, tlb, user, remains>>
     ELSE \E region \in owned : region.start = job.virt /\ GiveBack(region)
  /\ job' = Idle
  /\ UNCHANGED <<free, table, starved, lost>>
-----------------------------------------------------------------------------
(* The processor walks the tables on an access or on its own account.  It  *)
(* keeps what it found until it drops it or is told to.                    *)
Fill(v) ==
  /\ tlb[v] = None /\ pte[v] # None
  /\ tlb' = [tlb EXCEPT ![v] = pte[v]]
  /\ UNCHANGED <<space, free, table, pte, user, job, starved, lost, remains>>

Evict(v) ==
  /\ tlb[v] # None
  /\ tlb' = [tlb EXCEPT ![v] = None]
  /\ UNCHANGED <<space, free, table, pte, user, job, starved, lost, remains>>

MapNext ==
  /\ ~panicked /\ ~starved
  /\ \/ BootStep
     \/ \E pages \in 1 .. MaxPages :
          Take("mmap", pages, 0) \/ \E phys \in Device : Take("acpi", pages, phys)
     \/ \E phys \in Device : Take("pcie", 1, phys)
     \/ MmapPage \/ DevicePage \/ MunmapPage \/ MunmapFree \/ PcieUnmap
     \/ \E region \in owned : Munmap(region) \/ AcpiUnmap(region)
     \/ \E v \in Pages : Fill(v) \/ Evict(v)

MapSpec == MapInit /\ [][MapNext]_mapVars
-----------------------------------------------------------------------------
(* Pages of the heap that are mapped: not those a running mmap has still   *)
(* to come to, or a running munmap has done.                               *)
Pending ==
  IF job.op = "mmap" THEN job.at .. job.end - 1
  ELSE IF job.op = "munmap" THEN job.region.start .. job.at - 1 ELSE {}
HeapPages ==
  (UNION {PagesOf(region) : region \in {r \in owned : user[r.start] = "mmap"}}) \ Pending
InTables == {table[t] : t \in DOMAIN table} \ {None}
Backing == {pte[v] : v \in HeapPages}

(* Every frame is free, a page table or behind exactly one page of the     *)
(* heap: munmap gives back what mmap took.  A frame is lost only to an     *)
(* mmap that found no address space and mapped it at address 0.            *)
FramesAccounted ==
  ~starved =>
    /\ Frames = free \cup InTables \cup Backing \cup lost
    /\ free \cap InTables = {}
    /\ (Backing \cup lost) \cap (free \cup InTables) = {}
    /\ Backing \cap lost = {}
    /\ \A v, w \in HeapPages : pte[v] = pte[w] => v = w
    /\ \A s, t \in DOMAIN table : table[s] = table[t] /\ table[s] # None => s = t

HeldPages == UNION {PagesOf(region) : region \in owned}

(* The owner of a page reaches what the page is mapped to, between calls   *)
(* and while pci_express_read reads.  This is what the code does not give: *)
(* acpi_os_unmap_memory leaves its entries present, so the processor may   *)
(* cache one between two owners, and mm_virtual_map does not invalidate.   *)
NoStaleTranslation ==
  job.op \in {"idle", "read"} => \A v \in HeldPages : tlb[v] \in {None, pte[v]}

(* What the invalidation in mm_virtual_free does give: the one stale       *)
(* translation the owner of a page can meet is the entry that was still    *)
(* present when the page was given back, which is never one to a frame.    *)
(* So nobody reads or writes a frame that munmap has given back.           *)
StaleOnlyLeftPresent ==
  job.op \in {"idle", "read"} =>
    \A v \in HeldPages :
      \/ tlb[v] \in {None, pte[v]}
      \/ tlb[v] = remains[v] /\ remains[v] \notin Frames
=============================================================================
