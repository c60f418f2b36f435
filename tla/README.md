# A verification of the vineyard kernel in TLA+

vineyard is a hobby operating system for x86_64. This directory models the parts
of it that keep state and decide something: memory management from frames up to
the heap, the NVMe driver and what is built on it, the ACPI embedded controller,
the interrupt set-up, the PCI walk, and printf with the text terminal. TLC checks
each model on a small instance, and TLAPS proves the safety properties for every size,
except those of the heap and its tries, and what printf prints.

Paths are relative to the repository; `physical.c:121` is a line of
`kernel/mm/physical.c`, and so on. `PROJECT.json` has the lines each definition
stands for, the runs, the mutants, the hazards and the theorems.

## The system

The kernel runs on one processor and has no threads. `main` (`boot/kernel.c`)
initialises the framebuffer, the physical allocator, the address space and ACPI,
then walks the PCI buses; the callback for a device of the NVMe class starts the
NVMe driver, which scans the partition table. What runs *beside* this code is
hardware (the NVMe controller, the embedded controller, the TLB, timers) and,
after `sti`, the SCI handler.

| Part | State | Operations | What makes it hard | Correct when |
|---|---|---|---|---|
| Physical allocator, `mm/physical.c` | chain of page-sized stacks of free frames, linked by address through the pages themselves | `mm_physical_get`, `mm_physical_mark_free`, boot | a free frame turns into a stack when the top one is full; the walk back when it is empty; 0 as end mark | no frame handed out twice, links lead to the root, panic only when empty |
| Slab, `mm/slab.c` | free array, `inuse`, three lists | `mm_slab_alloc`, `mm_slab_free` | order of frees, the last objects | each object free or live, never both; index in bounds |
| Address space, `mm/virtual.c` | ordered list of nodes with start, length, flags | `mm_virtual_range_set`, `_alloc`, `_free` | the cases of splitting a node | nodes tile the space; a region is one node |
| Page tables and TLB, `mm/virtual.c`, `mman/*.c`, `osl/mm.c`, `pci/express` | entries, TLB | `mm_virtual_map`, `mmap`, `munmap`, ACPI and PCIe mappings | the order of free, unmap and invalidate, page by page; `mm_virtual_map` never invalidates; exhaustion | a stale translation never leads to a frame, no frame lost |
| Heap, `lib/stdlib/dlmalloc.c` | boundary tags in memory, bins, `dv`, `top`, list of segments, footprint | `malloc`, `calloc`, `memalign`, `free`, `realloc`, bulk calls, trimming | merging, segments that grow in both directions, records kept in the memory they describe, memory given back in between | tags and bins exact, chunks disjoint, mapped memory all accounted for, no check fires |
| Tries of the large bins, `dlmalloc.c` | binary tries with rings of equal sizes | insert, unlink, best fit | replacement by any leaf, search off the path | like queues by size |
| Lists, `util/list.c` | `head`, `tail`, links | append, insert, remove | ends of the list, stale links of reused nodes | both directions agree |
| NVMe, `driver/nvme` | queue pairs, phase, controller state | bring-up, submit, poll, complete | a controller of any speed, or dead; queues wrapping, or longer than their page | a completion is the caller's, waits end |
| Reads and GPT, `nvme/rw.c`, `fs` | a read in progress, the entry reached | `nvme_read`, `gpt_init`, two checks | batches of a page that overlap the end | exact data, no overrun, each partition once |
| Embedded controller, `acpi/ec.c` | port accesses to make, the controller's buffers | `acpi_ec_handler` | polling against a slow controller that may leave burst mode | bytes exact, none overwritten, every request ends |
| Interrupts, `acpi/tables.c`, `acpi/init.c`, `int` | redirection table, handlers, IRR/ISR, ACPI events | boot steps, dispatch, EOI | interrupts pending at any step of the boot, stray vectors | every vector the kernel routes has a handler, the power button works |
| PCI walk, `pci/walk.c` | recursion over buses | `pci_walk_devices` | nested loops and recursion | each function handled once, the walk ends |
| printf family, `lib/stdio` | position in the format, fixed arrays, buffer of `vasprintf` | conversions, callbacks | flags, width and precision together, array sizes | prints what the C standard says but for known cases |
| Terminal, `driver/graphics` | cursor, screen | `terminal_putc` | delayed wrap, scroll, sizes not in whole cells | shows the last lines, writes inside the buffer |

The heap gets its memory from `mmap`, which takes address space from the list of
nodes and a frame for every page from the physical allocator, and maps them; ACPI,
the drivers and the PCIe reads take address space from the same list. The scan of
the partitions allocates from the heap and reads through the NVMe queues. All of
them print.

### Not modelled

`acpi/irq.c`, which only prints; the ACPICA glue, whose locks and scheduling are
stubs, and ACPICA itself, which is a submodule; `time/pit.c`, a busy wait on
hardware; the BAR sizing of `pci/config.c`; the set-up of the boot page tables;
string functions, loops over bytes; processor set-up, straight-line register
writes; the walk over stack frames in `debug/trace.c`. Of the heap: the calls that only report or
set a parameter, `posix_memalign`, `valloc` and `pvalloc`, which are `memalign`
with other arguments, the case of `independent_calloc` in which the caller brings
the array, and everything `mm/malloc.h` configures out (MORECORE, MREMAP, locks,
footers, mspaces). Of printf: the return value and a width given as `*`.

## Modules

* **FramePool** is the abstract specification of the physical allocator: a set of
  free frames from which one is taken, to which one is added, and from which the
  allocator may take frames for its own use.
* **PhysicalMemory** is `physical.c`. `stacks[p]` is the content of a page that is
  or was a stack, `cur` the page mapped at `STACK_ADDR`. `mm_physical_get` is one
  `GetPrev` step for each emptied stack and a `GetPop` or `GetPanic`; `MarkFree` is
  `PushHere` or `PushNew`. `held` and `unclaimed` record who owns the other frames:
  callers free what they own, as the callers in the kernel do. `ImplementsPool`
  maps `free` to the frames reachable along the chain.
* **Slab** is `slab.c` for the one cache there is; **DList** has the pointer
  manipulations of `util/list.c` and of the list in `virtual.c`; **VmNodes**
  composes them: the nodes of the list are the objects of the slab.
* **AddressSpace** is the list of `virtual.c` as a sequence of nodes. The cases of
  `mm_virtual_range_set` are `StartAligned`, `EndAligned`, `CutStart`, `CutOut` and
  so on; of the slab it keeps the number of nodes.
* **Mapping** extends it with page table entries and a TLB that loads any present
  entry and drops entries at any time, and with the callers:
  `mmap` and `munmap`, `acpi_os_map_memory`, `pci_express_read`. `job` is the call
  in progress, one step for each page. No caller looks at a result of 0 from
  `mm_virtual_alloc`, so exhaustion goes on at address 0. `remains` is a history
  variable: the entry a page had when it was last given back.
* **Bins** is what the heap relies on when it keeps free chunks: queues by size.
  **FreeBins** makes an abstract specification of it, and **TreeBins**, the tries of
  `dlmalloc.c` node by node with `size_t` and `unsigned` in bits, implements it.
* **Heap** is the rest of `dlmalloc.c` as `mm/malloc.h` configures it. Memory is
  the boundary tags in it: `head` and `foot` are functions of addresses, in words,
  and writing a tag drops the tags inside that chunk, which become payload. The
  operators have the names of the C functions and take a heap to a heap; an action
  is a call. `nodes` is the address space below, so that mappings may be adjacent
  or not, and `ForeignMap` takes from it too. `stuck` says where the kernel stopped:
  a check of the allocator, the assertion in `munmap`, or exhaustion.
* **Nvme** is the driver with a controller: bring-up, the two queue pairs, one
  command outstanding at a time. A poll limit stands for the time-out. `& mask` is
  `Masked`, on the bits of an index; `LengthsOK` asks for lengths on which it wraps.
  A submission queue has one page of `PageSqes` entries, whatever its length: what the
  driver writes behind it is not on the queue, and what the controller fetches from
  there is anything. `SqFits` says that this does not come to pass.
* **Gpt** is `nvme_read` in units of a block under `gpt_init` and the two
  file-system checks, each read command one step. **Storage** composes the two: each
  command goes through the queues of Nvme to a controller that writes the page and
  posts the completion, or fails, or does neither. `ImplementsGpt` says that the
  composition behaves like Gpt.
* **Ec** is the driver of the embedded controller: a request is a sequence of calls
  (`Read`, `Write`), each call the sequence of its port accesses and polls, and a step
  makes the access at which `call` and `access` are.
* **Interrupts** is the boot from `idt_init` to `sti` with the two passes over the
  MADT, the redirection table, `isr_dispatch`, the SCI handler and the shutdown. The
  firmware leaves any of `Tables` in the IOAPIC and any of `Leftover` pending; after
  `apic_enable` the local APIC may raise its error and its spurious vector. Those and
  `Leftover` are `Stray`: nobody registers a handler for them.
* **PciWalk** is the recursion of `walk.c` with an explicit stack of calls.
* **Printf** is `vcbprintf`: a format is a sequence of texts and conversions, and
  each becomes the pieces the callback gets. `StandardText` is the reference, what
  the C standard says of the same item, built without arrays or padding loops, and
  `Deviates` names, flag by flag, the conversions for which the two disagree.
* **Terminal** is `terminal.c` with the loops of `printf`, `vprintf`, `panic`, `puts`
  and `asprintf` on those pieces; `paper` is a history variable, an endless roll on
  which the same text is typed.

Hardware, firmware and ACPICA appear as actions marked external in the map, from
how the code uses them. An operator with a comment `Mutant:` is not part of a
model: it is a plausible bug in the definition below it, and each property is
known to fail when the definition is replaced by it.

## Runs

`tlc -config MCX.cfg MCX` runs one; `MCNvmeWrap` and `MCNvmePage` need no module of
their own (`tlc -config MCNvmeWrap.cfg Nvme`). Every bound is a constant of the `.cfg`.

| Run | Properties | Bounds and why they suffice |
|---|---|---|
| `frames` | `TypeOK`, `ChainIntact`, `NoSharedFrame`, `PanicOnlyWhenExhausted`, `LossOnlyByEmptiedStack`, `GetReturns`, `ImplementsPool` | five frames on stacks of two: three stacks exist at once, and fill, empty and fill again |
| `vm_nodes` | `FreeListExact`, `IndexInBounds`, `NodesWellFormed`, `LinkedAreLive` | six objects, four on the list at most before the panic: first, middle and last nodes in every order of removal |
| `mapping` | `Tiling`, `RegionsAreNodes`, `FramesAccounted`, `StaleOnlyLeftPresent` | fourteen pages with the ranges of `mm_virtual_init` scaled down, so that every case of the split occurs; regions of up to two pages, tables of two, four frames, twelve nodes: each of the three runs out |
| `heap` | `RecordsHome`, `TagsIntact`, `BinsExact`, `LiveExact`, `MapsExact`, `ChecksNeverFire` | 224 words of address space, pages of 16, granularity 32, thresholds 40: small, large and directly mapped chunks, several segments, segments that grow at both ends, trimming; every sequence of six calls with up to three chunks held |
| `heap_munmap` | `MunmapTakesSeveral` violated | the same |
| `bins` | `TrieOK`, `ImplementsFreeBins` | five chunks of eight sizes in four bins: tries of depth three, rings, an empty bin between two that are not; sizes cut off by `unsigned` |
| `storage` | `CompletionIsOwn`, `CompletionVisible`, `ReadExact`, `ScanExact`, `ImplementsGpt`, `ScanEnds` | pages of two blocks, a header of one and a half pages, entries used or not, disks that end in the middle of a page, other sector sizes; the admin submission queue of two wraps several times; an I/O submission queue that fills its page; one pass of the I/O completion queue |
| `nvme_wrap` | `CompletionVisible` violated | the driver alone, one read more than its I/O completion queue holds |
| `ec` | `RequestExact`, `QuietWhenIdle`, `RequestEnds` | four registers, requests of one and two bytes and of a width that is refused, at every address |
| `interrupts` | `DevicesHandled`, `PowerButtonHandled` | two processors, overrides for the PIT and the SCI, two ACPI events; a firmware that masked every pin, or left the PIT's or the SCI's routed, with any of its vectors pending |
| `pci_walk` | `WalkComplete`, `WalkEnds` | three buses, two devices of two functions, up to two bridges anywhere |
| `terminal` | `DrawInBuffer`, `ShowsLastLines`, `SerialInStep`, `PrintExact` | seven modes, with and without fractions of a cell in both directions and padding; six characters, of one or two bytes, scroll every one of them; conversions with every flag, an array of five filled to the last byte and past it, one call for each deviation from the standard, a buffer of two that grows. That nothing else deviates is an assumption of `MCTerminal` that TLC evaluates, over some 60 000 conversions of integers |

`CHECK_DEADLOCK FALSE` is in every `.cfg`: each of these systems stops, by a panic,
by powering off, at the end of a scan, or (`heap`, `terminal`) at the bound on calls
or characters.

`storage` is limited to one pass of the I/O completion queue, because after it the
driver is wrong (see below), and to a submission queue that its page holds, for the
same reason; everything said of it holds up to there. In `heap` a
behaviour ends where `munmap` asserts (see below); what is said holds up to there
and wherever memory is given back one mapping at a time.

Nine more configurations each show one disagreement and are kept for that alone:
`MCPhysicalMemoryFrame0`, `MCVmNodesQueue`, `MCMappingDump`, `MCMappingStale`,
`MCNvmePage`, `MCInterruptsSci`, `MCInterruptsStray`, `MCPciWalkHosts` and
`MCTerminalStandard` (see *What the models show*).

### Fairness

* `PhysicalMemory`, `PciWalk`: the code is sequential and runs on, so a call that
  can take a step does.
* `Storage`: only the kernel is fair. The controller may stop at any point, and
  `ScanEnds` holds because the driver counts its polls.
* `Ec`: the driver and the controller. The driver's polls have no limit, so
  without an answer it hangs; `RequestEnds` says that it never waits for an
  answer that the controller does not owe. Leaving burst mode is not fair.
* `Interrupts`: the processor runs on and takes a pending interrupt in the end,
  and the IOAPIC delivers a level that stays asserted. Pressing the button is not fair.

## Proofs

`tlapm XProofs.tla` checks the proofs about module `X`. The table has the results;
each proof module begins with its inductive invariant, and each invariant was checked
by TLC on the run's instance before it was proved.

| Module | Theorems (what they state) | For every |
|---|---|---|
| `PhysicalMemoryProofs` | `TypeCorrect` (`TypeOK`), `ChainCorrect` (`ChainIntact`), `NoSharing` (`NoSharedFrame`), `LossBounded` (`LossOnlyByEmptiedStack`), `PanicSound` (`PanicOnlyWhenExhausted`), `Refinement` (`ImplementsPool`) | set of frames, stack size of at least two |
| `VmNodesProofs` | of `Slab`: `TypeCorrect`, `FreeListCorrect` (`FreeListExact`), `IndexCorrect` (`IndexInBounds`); of `VmNodes`: `NodesWellFormedCorrect`, `LinkedCorrect` (`LinkedAreLive`), `NodesImplementSlab` (`NodesSpec => Spec` of `Slab`), `NodesKeepFreeList` | slab of at least three objects |
| `MappingProofs` | of `AddressSpace`: `SpaceTypeCorrect`, `TilingCorrect`, `RegionsCorrect` (`RegionsAreNodes`) | sequence of boot ranges, request, slab |
| | of `Mapping`: `UsersImplementSpace` (`MapSpec => Spec` of `AddressSpace`), `UsersKeepTiling`, `FramesCorrect` (`FramesAccounted`), `TranslationCorrect` (`StaleOnlyLeftPresent`) | address space, set of frames, table size |
| `StorageProofs` | of `Gpt`: `ReadCorrect` (`ReadExact`), `ScanCorrect` (`ScanExact`) | disk, size of a command, of the header and of an offset |
| | of `Storage`: `StorageCorrect`, `OwnCompletionCorrect` (`CompletionIsOwn`), `VisibleCorrect` (`CompletionVisible`), `ImplementsGptCorrect` (`ImplementsGpt`), `QueuedReadsCorrect` (`ReadExact` and `ScanExact` of reads through the queues), `PageCorrect` | length of the queues for which `SqFits`, see below, time-out, number of reads, as well; `VisibleCorrect` see below |
| `EcProofs` | `EcCorrect`, `RequestCorrect` (`RequestExact`), `QuietCorrect` (`QuietWhenIdle`) | size of EC space, width of a request, content, list of resources, see below |
| `TerminalProofs` | `DrawCorrect` (`DrawInBuffer`), `ShowsCorrect` (`ShowsLastLines`), `SerialCorrect` (`SerialInStep`) | mode that holds two lines, size of a character, text |
| `InterruptsProofs` | `DispatchCorrect` (`DevicesHandled`) | MADT, see below, redirection table left by the firmware |
| `PciWalkProofs` | `WalkCorrect` (`WalkComplete`) | topology, see below, number of devices and functions |

**PhysicalMemory.** The invariant is `TypeOK /\ ChainIntact /\ EntriesDistinct /\
Exclusive`. No part is inductive alone. That a frame is on one stack at most needs
that a freed frame is not on any (`Exclusive`); that building a stack on a frame
destroys no other stack's content needs that a free frame is not a stack page
(`Exclusive`) and that the chain has no repetition (`ChainIntact`); and that dropping
an emptied stack keeps the chain needs the `prev` links. `PopEffect`, `PrevEffect`,
`PushHereEffect` and `PushNewEffect` say what each operation does to the chain and to
the set of free frames; the theorems follow from those sets. `PanicSound` and
`Refinement` assume that 0 is not a usable frame, and must:
`MCPhysicalMemoryFrame0` shows what happens without it. The root stack is never a
usable frame.

**Slab and its nodes.** The invariant of `Slab` adds to `FreeListExact` that `inuse` is
the number of live objects and that two objects are left until the panic; the latter
bounds the index, the former shows that a slot is left for the object that is freed.
`NodesInv` adds the links: place by place, `next` and `prev` of the node at `i` are the
nodes at `i + 1` and `i - 1` of the list they stand for, its nodes are distinct, and
they are the live objects. The last part is what makes the pointer code right: a node
fresh from the slab is on no list, so linking it in overwrites no link in use
(`InsertLinks`), and what `mm_slab_free` gets is live (`NodesImplementSlab`).
`InsertLinks` and `RemoveLinks` hold of any list, first and last place included.

**AddressSpace.** `SpaceInv` adds to `Tiling` and `RegionsAreNodes` where the boot is
(`BootFirst`), that the ranges reserved so far lie below the last node (`CutsBehind`),
and that a region is not reserved and handed out at once (`RegionsApart`). Without
`CutsBehind` the next `mm_virtual_range_set` might cut a reserved range in two. It holds
for boot ranges in any order, because a later call cuts the last node or panics
(`LaterRangeCuts`). `SplitTiles` shows that splitting a node
keeps the tiling; `CutStart`, `CutOut` and `mm_virtual_alloc` are uses of it.

**Mapping.** `MapInv` adds to `SpaceInv` that regions lie apart from each other and
above the pages at address 0 (`OwnedPlaced`), and that the call in progress works on a
region of its own or at 0 (`JobPlaced`). `FramesAccounted` needs all of it: a
frame freed by `munmap` is behind no other page because regions are apart.
`TlbInv` says on top of it, page by page, what the processor may have cached: nothing,
the entry of the page, or the one it had when it was last given back (`remains`), except
in the pages a running `munmap` has cleared, which it invalidates before anybody gets
them. It needs that a page nobody has, or that is about to be mapped, still has the entry
it was given back with, so that a fill in between brings no other; and that this is never
an entry to a frame, because only `mmap` maps frames and `munmap` clears its entries first.
`TranslationCorrect` follows. That the owner always reaches his own page is false, see
`MCMappingStale`.
`UsersImplementSpace` shows every step of the composition to be one of the address
space or to leave it alone, so its results carry over. Assumed of the constants: the
space begins above the largest request (in the kernel it begins in the upper half), so
that a mapping at 0 hits no region.

**Gpt.** `ReadInv` says that whole commands are read and what they brought is in place;
the overlap of the last command with the end of the buffer is arithmetic on it.
`ScanInv` says that the entries behind `part` were in use and are found. Assumed of a
disk: two used entries that start at the same block hold the same file system, since it is
the same block, and there are as many entries as the header counts.

**Storage.** `StorageInv` is `GptInv` with the queues (`NvmeInv`) and the page
(`PageInv`). At most one command is outstanding, and either the controller has not
completed it or the driver has not consumed its completion (`ProgressInv`). Each ring is
seen by two sides, so `SqOK` says that the controller fetches the command that was put
there last and nothing else, and `CqOK` that the completion of the outstanding command
is at the head, or will be written there. The head is the number of completions
consumed (`FirstLap`), which is what tells a fresh entry from an old one while the phase is
1. After the wrap the driver's phase is 254, which matches no entry: it consumes
nothing any more, so `OwnCompletionCorrect` needs no limit on the reads, while
`VisibleCorrect` assumes that the four admin commands fit in the admin completion queue
(256 entries) and that the reads fit in the I/O completion queue. Beyond that it is
false (`nvme_wrap`). `PageInv` says that the command on the queue is the one `nvme_read`
needs next, and that a completion without an error that the driver can see means the
blocks are on the page. With it a successful `ReadDone` is a `ReadBatch` of `Gpt`, an
error or a time-out is its failure, and every other step of the queues is a stutter
(`StorageImplements`). `PageCorrect` is the ordering in the other direction: nothing is
written to the page while `nvme_read` copies from it. Assumed: the lengths are such that
`& mask` wraps (`LengthsOK`), as powers of two are. `NextIndex` shows that the driver's
mask and the controller's modulo are then the same step. Assumed as well, in the
statement of each theorem (`SqFits`): the I/O submission queue is not longer than its
page, or there are no more reads than the page has entries. `TailInv` is what the second
case needs: the tail has not come further than there were reads. The code sees to neither
(`MCNvmePage`).

**Ec.** `EcInv` says, access by access of each call (`Enabling`, `Reading1`, `Writing1`,
`Disabling`), what the two buffers may hold and what the controller takes the next byte
for; that is two cases after each write, before and after the controller has taken the
byte, and the poll that follows leaves the second. With it go the registers
done so far (`ReadSoFar`, `WrittenSoFar`), where the second counts a byte from the moment
the controller stores it. `QuietWhenIdle` alone is not inductive for want of all that
lies between two requests. The burst flag is in the invariant only after the last poll,
since the controller may leave burst mode at any time. `PortsFound` is the walk over
`_CRS`. Assumed of the firmware (`ResourcesAssumption`): the data port is listed first and
the command port next, which `acpi_ec_io_ports` relies on.

**Terminal.** `TermInv` relates the terminal to the roll: the cursor is at a whole
cell or just behind the last one of its line (delayed wrap), a line of pixels is left
below it, the screen holds the last lines and blanks, and the roll is longer only once
the screen is full. `DrawInBuffer` needs the line of pixels: where
the width is no multiple of a cell, the last glyph of a line runs over into the next
scan line. Assumed of a mode: it is a cell wide,
more than a cell high, and a scan line is not shorter than the width.

**Interrupts.** `IntInv` says that between `idt_init` and `sti` interrupts are off and
nothing is in service (`Quiet`), that beside the stray vectors only that of the SCI is
ever pending (`OnlySci`), which follows from what the second pass writes (`Routed`), and
that its handler is there from `acpi_enable_subsystem` on. Assumed of the firmware
(`FirmwareAssumption`): the pins it has left routed lead to vectors of `Leftover`, which is
any set. Assumed of the MADT (`MadtAssumption`): an override leaves the SCI on its own
interrupt, whose vector has a gate in the IDT, and none names the PIT's pin. The last is
needed because `acpi_parse_madt` programs the pin of the *source* of an override:
on a PC the entry written for the PIT is that of pin 0, while its line comes in on pin
2, so the PIT, for which there is no handler, stays as the firmware left it.

**PciWalk.** `WalkInv` says what the stack of calls stands for: a function of a bus that
was entered is handled or ahead of the loop counter of a call (`Covered`), never of two
calls, and never both (`Stack`), and the buses entered are reachable. One lemma
for each step says which functions the loop passes: none, one that is handled, or those
of a device that `pci_walk_device` gets. The walk does not visit a bus twice because
the bridge that leads to it is handled once; at the end the buses
entered are closed under bridges, so they are all that are reachable. Assumed of a
topology (`TopologyAssumption`): a bus lies behind at most one bridge, which firmware sees
to (that the graph has no cycle follows, as none leads to bus 0), a multi-function device
has function 0, and a bridge at another function is in a multi-function device.

### Only model-checked

* Liveness (`GetReturns`, `ScanEnds`, `RequestEnds`, `PowerButtonHandled`, `WalkEnds`) is out
  of the prover's reach.
* The six invariants of `Heap` hold one another up and would have to be proved
  together, and a `free` can reach `release_unused_segments`, which goes on from one
  segment to the next; so do the bulk calls, the tags cut out of a chunk and the sum in
  `MapsExact`. In the model these are folds, and what a fold does to a heap of any number
  of segments is induction over data.
* `TreeBins` (`TrieOK`, `ImplementsFreeBins`) is written with recursive operators (the
  walks down a trie); the prover does not handle them.
* `PrintExact`: the text of a call is a fold over pieces of bytes and the buffer of
  `vasprintf` a recursive function, so it is induction over data again.
* `CompletionVisible` beyond the first lap is false, not unproved.

tlapm misreads `@` in an `EXCEPT` inside another one; the modules proved about have none.
It reads `UNION S \ T` as `UNION (S \ T)`, SANY and TLC as `(UNION S) \ T`; `Mapping`
has the parentheses, so that both mean the same.

## What the models show

Checked by runs that must fail, and recorded as findings:

* `nvme_wrap`: `cq->phase = (uint8_t) ~cq->phase` (`command.c:36`) makes 254 of 1.
  From the first wrap of the I/O completion queue on, no completion is seen and
  reads time out.
* `heap_munmap`: dlmalloc relies on one `munmap` for several adjacent mappings
  (`dlmalloc.h:390`), but `munmap` gives back the node at its start alone and asserts
  that it was all (`munmap.c:23`). A heap that has grown by a second, adjacent
  mapping and gives the segment back hangs.

Shown by the additional configurations:

* `MCPhysicalMemoryFrame0`: with frame 0 usable and made a stack page,
  `prev == 0` (`physical.c:121`) is taken for the end of the chain, and the
  allocator panics with frames left.
* `MCVmNodesQueue`: `queue`, "the list this slab is in" (`slab.c:83`), is not.
* `MCMappingDump`: the piece split off behind a boot range has neither
  `VM_USED` nor `VM_FREE` (`virtual.c:250`): it is dumped as free and never allocated.
* `MCInterruptsSci`: "the SCI interrupt is always active low, level triggered"
  (`tables.c:115`), but the MADT is parsed before `acpi_gbl_FADT` is filled in.
* `MCPciWalkHosts`: the vendor test under "multiple PCI host controllers"
  (`walk.c:57`) is inverted: hosts that are present are skipped.
* `MCMappingStale`: `acpi_os_unmap_memory` leaves the page table entries present
  (`osl/mm.c:20`), so the processor may cache one of them after the invalidation, and
  `mm_virtual_map` does not invalidate: the next owner of the address reaches the
  device's page. It is never a page of memory (`StaleOnlyLeftPresent`).
* `MCNvmePage`: the length of the I/O submission queue is bounded with the size of a
  completion entry (`queues.c:61`), 256, while its one page (`queues.c:31`) holds 64
  entries: from the 65th command on the driver writes behind the page, and the controller
  fetches whatever is there.
* `MCInterruptsStray`: the error vector of the local APIC is unmasked (`apic.c:98`) and
  the spurious vector set (`apic.c:89`), but neither has a handler, nor does what the
  firmware left pending or routed: one such interrupt after `sti`, and `isr_dispatch`
  loops for ever.
* `MCTerminalStandard`: `%#x` of 0 prints `0x0`, where the C standard has no prefix for
  0; so does the `%#010lx` for the error code of an exception (`isr.c:47`), and every
  other `%#x`, `%#lx` and `%#018lx` of the kernel. The rest of `Deviates` and `Overruns`
  is not met by the kernel's own formats: `%-5d` pads on both sides; `%s` and `%c`
  ignore the width; `0` is not ignored with a precision; `+` and space apply to unsigned
  numbers; `%#o` has a 0 too many; 0 is printed with precision 0; `hh` and `h` do not
  narrow; `buf[21]` is too short for an octal number of 64 bits, and `prefix[3]` for
  `%+#x`; and the callbacks of `printf` count bytes down by characters, so that a text
  with a multi-byte character runs on into what follows in the format.

Met while reading, outside what is checked:

* `mm_virtual_free` says that merging nodes "breaks somewhere" (`virtual.c:372`).
  The commented lines free `free->prev` after `mm_virtual_remove(free->prev)` has
  changed it; the mutant `MergeFreesPrev` of `VmNodes` is that bug.
* Emptied stack pages are never reused (`physical.c:121`); the slab panics with one
  object left (`slab.c:99`); `mmap` ignores a result of 0 from `mm_virtual_alloc`
  and returns it, though dlmalloc compares with `MAP_FAILED`.
* `sys_trim` unmaps the end of a segment (`dlmalloc.c:2885`), where no node starts:
  `munmap` asserts. `Heap` has it as `stuck = "part"`; it happens when a first
  `malloc` of more than the trim threshold is freed.
* `dlmalloc_set_footprint_limit(0)` sets no limit instead of the smallest one;
  `compute_tree_index` computes in `unsigned` and cuts sizes off at 2^40 (harmless:
  the trie orders them anyway, see `bins`); a `malloc` larger than memory but less than
  `MAX_REQUEST` panics in `mm_physical_get` instead of returning 0.
* Wrapping with `&` (`command.c:20`) needs queue lengths that are powers of two, and
  `CAP.MQES` may give others.
* `acpi_ec_handler` refuses the last byte of EC space (`ec.c:181`), and an output
  byte left over from before is never drained.
* Only the first IOAPIC is used (`ioapic.c:51`); the first pass over the MADT does not
  guard against an entry of length 0.
* The SCI handler runs ACPICA, and with it the allocator, in interrupt context
  with locks that do nothing.
* `pit_wait` drops what is left of the count below 2^16 (`pit.c:66`).
* The count `vcbprintf` returns leaves out padding and prefix (`vcbprintf.c:343`).
* `vasprintf` asks for half its buffer where double may be meant (`vasprintf.c:16`); it
  works because the length needed is taken when it is larger, which it always is.

## Abstractions

The unit of memory is a page, in `Heap` a word; of a disk a block, of EC space a
register. Left out throughout: logging, the contents of allocated memory,
addresses where only identity matters, debug options. `Interrupts` does not look
at the polarity of a line and has no exceptions. `Mapping` has one level of tables
for three, and a set of free frames for the stacks of `PhysicalMemory`. A call of
the heap is one step: the kernel has one thread, and the SCI handler's use of the
heap is not modelled. `Heap` takes its address space from nodes that are never
merged, as `mm_virtual_free` leaves them, and has no limit on frames. `Gpt` assumes
as many entries as the header counts. `Terminal` starts after `framebuffer_init`,
which `main` calls before anything is printed; an array of `vcbprintf` that overflows
is one garbage character, which stands for anything. In `VmNodes` nodes are removed and
freed although the kernel never does so.

## What is left

To prove, if the prover learns to do induction over data: what `set_free_with_pinuse`
and the other tag operators of `Heap` preserve, then `TagsIntact`; `PrintExact` piece by
piece.

To model: the frame allocator and the heap split at their reads and writes, with
the SCI handler allocating in between; `pit_wait`; the BAR sizing of `pci/config.c`;
more than one level of tables.
