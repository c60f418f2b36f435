-------------------------------- MODULE Heap --------------------------------
(***************************************************************************)
(* The kernel heap, lib/stdlib/dlmalloc.c as kernel/include/mm/malloc.h    *)
(* configures it: no MORECORE and no MREMAP, mmap for everything, no       *)
(* locks, no footers, checks on and every failed check a panic.            *)
(*                                                                         *)
(* One unit is one word (SIZE_T_SIZE, 8 bytes), so an alignment of 16      *)
(* bytes is 2; a request of b bytes pads like one of (b + 7) / 8 words.    *)
(* Page, granularity, thresholds, the border between small and large bins  *)
(* and the width of size_t are scaled down.  A chunk is named by its       *)
(* address; what the caller gets is chunk2mem, 2 words above.              *)
(*                                                                         *)
(* Memory is the boundary tags in it: head and prev_foot of every chunk.   *)
(* Writing a tag makes everything inside that chunk payload, so the tags   *)
(* there are dropped; reading a dropped tag is an error of the run.  The   *)
(* bins are those of Bins, a queue per size (TreeBins has the tries).  The *)
(* allocator's operators take a heap and give the heap after them, alone   *)
(* or as h of a record with mem, the chunk they return, 0 for none.        *)
(***************************************************************************)
EXTENDS Bins, FiniteSets

CONSTANTS
  W,                       \* size_t counts words modulo W
  page_size,
  granularity,
  mmap_threshold,
  trim_threshold,
  MAX_RELEASE_CHECK_RATE,
  MIN_LARGE_SIZE,
  CALLOC_SMALL,            \* 0x10000: below it calloc does not divide
  Space,                   \* words of address space, a bound
  Requests,                \* sizes the callers ask for
  Resizes,                 \* sizes they ask realloc for
  Callocs,                 \* <<n_elements, elem_size>>
  Aligns,                  \* <<alignment, bytes>>
  Independents,            \* sequences of sizes
  Limits,                  \* footprint limits
  Pads,                    \* arguments of malloc_trim
  Foreign,                 \* lengths other users of the address space map
  MaxLive,                 \* chunks the callers hold, a bound
  MaxForeign,              \* regions the others hold, a bound
  MaxCalls                 \* calls, a bound

ASSUME HeapAssumption ==
  /\ page_size % 4 = 0 /\ granularity % page_size = 0 /\ W % granularity = 0
  /\ MIN_LARGE_SIZE > 8 /\ Space % page_size = 0 /\ Space < W
  /\ CALLOC_SMALL * CALLOC_SMALL <= W

MALLOC_ALIGNMENT == 2
CHUNK_ALIGN_MASK == MALLOC_ALIGNMENT - 1
CHUNK_OVERHEAD == 1
MMAP_CHUNK_OVERHEAD == 2
MMAP_FOOT_PAD == 4
SIX_SIZE_T_SIZES == 6
MIN_CHUNK_SIZE == 4
SEGMENT_RECORD_SIZE == 6     \* pad_request(sizeof(struct malloc_segment))
TOP_FOOT_SIZE == SEGMENT_RECORD_SIZE + MIN_CHUNK_SIZE
SYS_ALLOC_PADDING == TOP_FOOT_SIZE + MALLOC_ALIGNMENT
MAX_SIZE_T == W - 1
MAX_REQUEST == W - 4 * MIN_CHUNK_SIZE
MAX_SMALL_REQUEST == MIN_LARGE_SIZE - MALLOC_ALIGNMENT - CHUNK_OVERHEAD

chunk2mem(p) == p + 2
mem2chunk(mem) == mem - 2

(* Rounding up to a power of two, in size_t. *)
AlignUp(s, unit) == (((s + unit - 1) % W) \div unit) * unit
page_align(s) == AlignUp(s, page_size)
granularity_align(s) == AlignUp(s, granularity)

pad_request(req) == ((req + CHUNK_OVERHEAD + CHUNK_ALIGN_MASK) \div 2) * 2
request2size(req) == IF req < 3 THEN MIN_CHUNK_SIZE ELSE pad_request(req)

is_small(s) == s < MIN_LARGE_SIZE

VARIABLES
  heap,    \* malloc_state, the tags in memory and the nodes of the address space
  live,    \* history: size and alignment asked for, of each chunk a caller holds
  others,  \* history: the regions other users of the address space hold
  calls    \* number of calls so far

vars == <<heap, live, others, calls>>

Base == page_size   \* address 0 is never a chunk

(* stuck says why the kernel stands still: "abort" is the panic behind a   *)
(* failed check of dlmalloc, "several" and "part" are the assertion of     *)
(* munmap, for more than one region and for a part of one, "oom" is no     *)
(* frame or (a bound) no address space left.                               *)
Init ==
  /\ heap = [head |-> <<>>, foot |-> <<>>, bins |-> <<>>,
             dv |-> 0, dvsize |-> 0, top |-> 0, topsize |-> 0,
             segs |-> <<>>, least_addr |-> 0, footprint |-> 0, footprint_limit |-> 0,
             trim_check |-> 0, release_checks |-> 0, use_mmap |-> TRUE,
             nodes |-> <<[start |-> Base, len |-> Space, used |-> FALSE]>>,
             stuck |-> "no"]
  /\ live = <<>>
  /\ others = {}
  /\ calls = 0

Stop(h, why) == IF h.stuck = "no" THEN [h EXCEPT !.stuck = why] ELSE h
Running(h) == h.stuck = "no"
Without(f, S) == [a \in DOMAIN f \ S |-> f[a]]
First(S) == IF S = {} THEN 0 ELSE Min(S)
-----------------------------------------------------------------------------
(* Boundary tags *)

Tag(s, c, p) == [size |-> s, cinuse |-> c, pinuse |-> p]
FENCEPOST_HEAD == Tag(1, TRUE, TRUE)
is_inuse(tag) == tag.cinuse \/ ~tag.pinuse
is_mmapped(tag) == ~tag.cinuse /\ ~tag.pinuse
overhead_for(tag) == IF is_mmapped(tag) THEN MMAP_CHUNK_OVERHEAD ELSE CHUNK_OVERHEAD

(* p->head = tag.  The foot below a chunk whose predecessor is in use is   *)
(* that predecessor's payload.                                             *)
SetHead(h, p, tag) ==
  LET inside == p + 1 .. p + tag.size - 1
  IN [h EXCEPT !.head = (p :> tag) @@ Without(@, inside),
               !.foot = Without(@, IF tag.pinuse THEN inside \cup {p} ELSE inside)]

set_foot(h, p, s) == [h EXCEPT !.foot = (p + s :> s) @@ @]

clear_pinuse(h, n) == SetHead(h, n, [h.head[n] EXCEPT !.pinuse = FALSE])

(* head |= PINUSE_BIT.  Where a chunk is being split the word still holds  *)
(* payload, and the next statement writes the rest of it.                  *)
OrPinuse(h, n) ==
  SetHead(h, n, IF n \in DOMAIN h.head THEN [h.head[n] EXCEPT !.pinuse = TRUE]
                                       ELSE Tag(0, FALSE, TRUE))

set_inuse(h, p, s) ==
  OrPinuse(SetHead(h, p, Tag(s, TRUE, p \in DOMAIN h.head /\ h.head[p].pinuse)), p + s)

set_inuse_and_pinuse(h, p, s) == OrPinuse(SetHead(h, p, Tag(s, TRUE, TRUE)), p + s)

set_size_and_pinuse_of_inuse_chunk(h, p, s) == SetHead(h, p, Tag(s, TRUE, TRUE))

set_size_and_pinuse_of_free_chunk(h, p, s) ==
  set_foot(SetHead(h, p, Tag(s, FALSE, TRUE)), p, s)

(* Mutant: the pinuse bit of the next chunk stays set. *)
SetFreeOnly(h, p, s, n) == set_size_and_pinuse_of_free_chunk(h, p, s)

set_free_with_pinuse(h, p, s, n) ==
  set_size_and_pinuse_of_free_chunk(clear_pinuse(h, n), p, s)

SetTop(h, p, s) == [SetHead(h, p, Tag(s, FALSE, TRUE)) EXCEPT !.top = p, !.topsize = s]
SetDv(h, p, s) == [h EXCEPT !.dv = p, !.dvsize = s]

ok_address(h, a) == a >= h.least_addr
-----------------------------------------------------------------------------
(* Bins: the last freed first in a small bin, the first freed first among  *)
(* the chunks of one size of a tree.                                       *)

SmallBins(h) == {s \in DOMAIN h.bins : is_small(s)}
TreeSizes(h) == {s \in DOMAIN h.bins : ~is_small(s)}

insert_chunk(h, p, s) ==
  [h EXCEPT !.bins = IF is_small(s) THEN PutFirst(@, p, s) ELSE PutLast(@, p, s)]

(* The links around a chunk that is not in the bin do not lead back to it: *)
(* CORRUPTION_ERROR_ACTION.                                                *)
unlink_chunk(h, p, s) ==
  IF p \notin ToSet(Queue(h.bins, s)) THEN Stop(h, "abort")
  ELSE [h EXCEPT !.bins = TakeOut(@, p, s)]

replace_dv(h, p, s) ==
  SetDv(IF h.dvsize # 0 THEN insert_chunk(h, h.dv, h.dvsize) ELSE h, p, s)
-----------------------------------------------------------------------------
(* mmap and munmap *)

(* mmap through mm_virtual_alloc: the first free node that is long enough, *)
(* split when it is longer.                                                *)
TakeNode(h, i, len) ==
  LET node == h.nodes[i]
      taken == [node EXCEPT !.len = len, !.used = TRUE]
      rest == [node EXCEPT !.start = @ + len, !.len = @ - len]
      tiles == IF node.len = len THEN <<taken>> ELSE <<taken, rest>>
  IN [h |-> [h EXCEPT !.nodes = SubSeq(@, 1, i - 1) \o tiles \o SubSeq(@, i + 1, Len(@))],
      addr |-> node.start]

Mmap(h, len) ==
  LET i == First({j \in DOMAIN h.nodes : ~h.nodes[j].used /\ h.nodes[j].len >= len})
  IN IF i = 0 THEN [h |-> Stop(h, "oom"), addr |-> 0] ELSE TakeNode(h, i, len)

(* munmap: -1 for a bad argument; afterwards it asserts that the node      *)
(* mm_virtual_free found at addr has the length asked for.  What was       *)
(* there is gone with the pages.                                           *)
Munmap(h, addr, len) ==
  LET gone == addr .. addr + len - 1
      Ends(i) == h.nodes[i].used /\ h.nodes[i].start + h.nodes[i].len = addr + len
      Starts(i) == h.nodes[i].used /\ h.nodes[i].start = addr
      whole == (\E i \in DOMAIN h.nodes : Starts(i)) /\ (\E i \in DOMAIN h.nodes : Ends(i))
  IN IF addr % (page_size \div 4) # 0 \/ len = 0 THEN [h |-> h, ok |-> FALSE]
     ELSE IF ~\E i \in DOMAIN h.nodes :
                 h.nodes[i] = [start |-> addr, len |-> len, used |-> TRUE]
     THEN [h |-> Stop(h, IF whole THEN "several" ELSE "part"), ok |-> TRUE]
     ELSE [h |-> [h EXCEPT !.nodes = [i \in DOMAIN @ |->
                               IF @[i].start = addr THEN [@[i] EXCEPT !.used = FALSE] ELSE @[i]],
                           !.head = Without(@, gone), !.foot = Without(@, gone)],
           ok |-> TRUE]

OverLimit(h, size) ==
  LET fp == (h.footprint + size) % W
  IN h.footprint_limit # 0 /\ (fp <= h.footprint \/ fp > h.footprint_limit)

(* Mutant: least_addr is set once. *)
LowerLeastOnce(h, addr) == [h EXCEPT !.least_addr = IF @ = 0 THEN addr ELSE @]

LowerLeast(h, addr) ==
  [h EXCEPT !.least_addr = IF @ = 0 \/ addr < @ THEN addr ELSE @]

None(h) == [h |-> h, mem |-> 0]
-----------------------------------------------------------------------------
(* Memory from the system *)

(* The region m becomes one chunk, with a fencepost behind it.  Regions    *)
(* start on a page, so the offset kept in prev_foot is 0 until memalign    *)
(* moves the chunk.                                                        *)
MmappedChunk(m, mmsize) ==
  LET psize == mmsize - MMAP_FOOT_PAD
      chunk == SetHead(set_foot(m.h, m.addr, 0), m.addr, Tag(psize, FALSE, FALSE))
      fenced == SetHead(chunk, m.addr + psize, FENCEPOST_HEAD)
  IN IF ~Running(m.h) THEN None(m.h)
     ELSE [h |-> [LowerLeast(fenced, m.addr) EXCEPT !.footprint = @ + mmsize], mem |-> m.addr]

mmap_alloc(h, nb) ==
  LET mmsize == page_align(nb + SIX_SIZE_T_SIZES + CHUNK_ALIGN_MASK)
  IN IF OverLimit(h, mmsize) \/ mmsize <= nb THEN None(h)
     ELSE MmappedChunk(Mmap(h, mmsize), mmsize)

init_top(h, p, psize) ==
  [SetHead(SetTop(h, p, psize), p + psize, Tag(TOP_FOOT_SIZE, FALSE, FALSE))
     EXCEPT !.trim_check = trim_threshold]

segment_holds(s, a) == s.base <= a /\ a < s.base + s.size
segment_holding(h, a) == First({i \in DOMAIN h.segs : segment_holds(h.segs[i], a)})
has_segment_link(h, ss) == \E i \in DOMAIN h.segs : segment_holds(ss, h.segs[i].rec)

(* The lower nb words of top. *)
SplitTop(h, nb) ==
  [h |-> set_size_and_pinuse_of_inuse_chunk(SetTop(h, h.top + nb, h.topsize - nb), h.top, nb),
   mem |-> h.top]

(* The request from the start of a region mapped just below a segment; the *)
(* rest joins the first chunk of the segment.                              *)
prepend_alloc(h, newbase, oldbase, nb) ==
  LET h1 == set_size_and_pinuse_of_inuse_chunk(h, newbase, nb)
      q == newbase + nb
      qsize == oldbase - newbase - nb
      old == h.head[oldbase]
      all == qsize + old.size
  IN [mem |-> newbase,
      h |-> IF oldbase = h.top THEN SetTop(h1, q, h.topsize + qsize)
            ELSE IF oldbase = h.dv
              THEN set_size_and_pinuse_of_free_chunk(SetDv(h1, q, h.dvsize + qsize),
                                                     q, h.dvsize + qsize)
            ELSE IF is_inuse(old)
              THEN insert_chunk(set_free_with_pinuse(h1, q, qsize, oldbase), q, qsize)
            ELSE insert_chunk(set_free_with_pinuse(unlink_chunk(h1, oldbase, old.size),
                                                   q, all, oldbase + old.size), q, all)]

(* Mutant: the new segment is linked behind the current one. *)
PushSegmentBehind(h, tbase, tsize, ss) ==
  <<h.segs[1], [base |-> tbase, size |-> tsize, rec |-> ss]>> \o Tail(h.segs)

(* "Push current record" *)
PushSegment(h, tbase, tsize, ss) ==
  <<[base |-> tbase, size |-> tsize, rec |-> 0], [h.segs[1] EXCEPT !.rec = ss]>> \o Tail(h.segs)

(* A segment that touches none: the record of the one before goes to the   *)
(* end of the segment that holds top, fenceposts behind it, and what is    *)
(* left of top into a bin.                                                 *)
add_segment(h, tbase, tsize) ==
  LET oldsp == h.segs[segment_holding(h, h.top)]
      old_end == oldsp.base + oldsp.size
      asp == old_end - (SEGMENT_RECORD_SIZE + 4)
      csp == IF asp < h.top + MIN_CHUNK_SIZE THEN h.top ELSE asp
      h1 == set_size_and_pinuse_of_inuse_chunk(
              init_top(h, tbase, tsize - TOP_FOOT_SIZE), csp, SEGMENT_RECORD_SIZE)
      fences == csp + SEGMENT_RECORD_SIZE .. old_end - 2
      h2 == [h1 EXCEPT !.segs = PushSegment(h, tbase, tsize, chunk2mem(csp)),
                       !.head = [a \in fences |-> FENCEPOST_HEAD] @@ @]
      psize == csp - h.top
  IN IF psize = 0 THEN h2
     ELSE insert_chunk(set_free_with_pinuse(h2, h.top, psize, csp), h.top, psize)

TakeTop(h, nb) == IF nb < h.topsize THEN SplitTop(h, nb) ELSE None(h)

(* The new region extends the segment that holds top, or another segment   *)
(* at its start, or becomes a segment.                                     *)
Extend(h, tbase, tsize, nb) ==
  LET low == LowerLeast(h, tbase)
      below == First({i \in DOMAIN h.segs : h.segs[i].base + h.segs[i].size = tbase})
      above == First({i \in DOMAIN h.segs : h.segs[i].base = tbase + tsize})
  IN IF h.top = 0
       THEN TakeTop(init_top([low EXCEPT !.release_checks = MAX_RELEASE_CHECK_RATE,
                                         !.segs = <<[base |-> tbase, size |-> tsize, rec |-> 0]>>],
                             tbase, tsize - TOP_FOOT_SIZE), nb)
     ELSE IF below # 0 /\ segment_holds(h.segs[below], h.top)
       THEN TakeTop(init_top([h EXCEPT !.segs[below].size = @ + tsize],
                             h.top, h.topsize + tsize), nb)
     ELSE IF above # 0
       THEN prepend_alloc([low EXCEPT !.segs[above].base = tbase,
                                      !.segs[above].size = @ + tsize],
                          tbase, tbase + tsize, nb)
     ELSE TakeTop(add_segment(low, tbase, tsize), nb)

ExtendBy(m, asize, nb) ==
  IF ~Running(m.h) THEN None(m.h)
  ELSE Extend([m.h EXCEPT !.footprint = @ + asize], m.addr, asize, nb)

(* CALL_MMAP, and what becomes of the region. *)
SegmentAlloc(h, nb) ==
  LET asize == granularity_align(nb + SYS_ALLOC_PADDING)
  IN IF asize <= nb \/ OverLimit(h, asize) THEN None(h)
     ELSE ExtendBy(Mmap(h, asize), asize, nb)

Direct(h, nb) ==
  IF h.use_mmap /\ nb >= mmap_threshold /\ h.topsize # 0 THEN mmap_alloc(h, nb) ELSE None(h)

OrSegment(direct, nb) ==
  IF direct.mem # 0 \/ ~Running(direct.h) THEN direct ELSE SegmentAlloc(direct.h, nb)

sys_alloc(h, nb) == OrSegment(Direct(h, nb), nb)
-----------------------------------------------------------------------------
(* Memory back to the system *)

(* Mutant: footprint still counts the segment. *)
ReleasedNotCounted(acc, out, un, s) ==
  IF un.ok THEN [acc EXCEPT !.h = un.h, !.released = @ + s.size]
  ELSE [acc EXCEPT !.h = insert_chunk(out, s.base, out.head[s.base].size),
                   !.segs = Append(@, s)]

(* The segment s, out of the bins, goes back unless munmap refuses. *)
Released(acc, out, un, s) ==
  IF un.ok THEN [acc EXCEPT !.h = [un.h EXCEPT !.footprint = @ - s.size],
                            !.released = @ + s.size]
  ELSE [acc EXCEPT !.h = insert_chunk(out, s.base, out.head[s.base].size),
                   !.segs = Append(@, s)]

Release(acc, out, s) == Released(acc, out, Munmap(out, s.base, s.size), s)

Unbin(h, p) ==
  IF p = h.dv THEN SetDv(h, 0, 0) ELSE unlink_chunk(h, p, h.head[p].size)

(* "Can unmap if first chunk holds entire segment and not pinned" *)
Unused(h, s) ==
  LET tag == h.head[s.base]
  IN ~is_inuse(tag) /\ s.base + tag.size >= s.base + s.size - TOP_FOOT_SIZE

(* One turn of the loop of release_unused_segments. *)
ReleaseSegment(acc, s) ==
  IF Running(acc.h) /\ Unused(acc.h, s) THEN Release(acc, Unbin(acc.h, s.base), s)
  ELSE [acc EXCEPT !.segs = Append(@, s)]

ResetReleaseChecks(all, nsegs) ==
  [h |-> [all.h EXCEPT !.segs = all.segs,
                       !.release_checks = Max({nsegs, MAX_RELEASE_CHECK_RATE})],
   released |-> all.released]

(* The first segment, which holds top, is not looked at. *)
release_unused_segments(h) ==
  ResetReleaseChecks(FoldLeft(ReleaseSegment,
                              [h |-> h, released |-> 0, segs |-> <<h.segs[1]>>],
                              Tail(h.segs)),
                     Len(h.segs) - 1)

ShrinkTop(h, un, i, extra) ==
  IF un.ok
    THEN [h |-> init_top([un.h EXCEPT !.segs[i].size = @ - extra, !.footprint = @ - extra],
                         h.top, h.topsize - extra),
          released |-> extra]
    ELSE [h |-> h, released |-> 0]

(* The end of top in units of the granularity, keeping at least one. *)
TrimTop(h, pad) ==
  LET extra == ((h.topsize - pad + granularity - 1) \div granularity - 1) * granularity
      i == segment_holding(h, h.top)
      seg == h.segs[i]
  IN IF h.topsize > pad /\ seg.size >= extra /\ ~has_segment_link(h, seg)
       THEN ShrinkTop(h, Munmap(h, seg.base + seg.size - extra, extra), i, extra)
       ELSE [h |-> h, released |-> 0]

(* "On failure, disable autotrim to avoid repeated failed future calls" *)
TrimResult(r, released) ==
  IF released = 0 /\ r.topsize > r.trim_check THEN [r EXCEPT !.trim_check = MAX_SIZE_T] ELSE r

AfterRelease(t, r) == TrimResult(r.h, t.released + r.released)
AfterTrim(t) == AfterRelease(t, release_unused_segments(t.h))

sys_trim(h, pad) ==
  IF pad >= MAX_REQUEST \/ h.top = 0 THEN h ELSE AfterTrim(TrimTop(h, pad + TOP_FOOT_SIZE))

should_trim(h, s) == s > h.trim_check

UnmapRegion(h, un, size) ==
  IF un.ok THEN [un.h EXCEPT !.footprint = @ - size] ELSE h

(* An mmapped chunk, its offset and its foot. *)
UnmapChunk(h, p) ==
  LET size == h.head[p].size + h.foot[p] + MMAP_FOOT_PAD
  IN UnmapRegion(h, Munmap(h, p - h.foot[p], size), size)
-----------------------------------------------------------------------------
(* free *)

(* Mutant: the chunk below stays in its bin. *)
MergeBackStillBinned(h, p, psize) ==
  IF h.head[p].pinuse THEN [h |-> h, p |-> p, size |-> psize]
  ELSE [h |-> h, p |-> p - h.foot[p], size |-> psize + h.foot[p]]

(* Consolidate backward. *)
MergeBack(h, p, psize) ==
  LET prevsize == h.foot[p]
      prev == p - prevsize
      out == IF ~ok_address(h, prev) THEN Stop(h, "abort")
             ELSE IF prev # h.dv THEN unlink_chunk(h, prev, prevsize)
             ELSE h
  IN IF h.head[p].pinuse THEN [h |-> h, p |-> p, size |-> psize]
     ELSE [h |-> out, p |-> prev, size |-> psize + prevsize]

ToBin(h, p, psize) ==
  [kind |-> IF is_small(psize) THEN "small" ELSE "large", h |-> insert_chunk(h, p, psize)]

(* Consolidate forward, p being dv or in no bin: the result is part of top *)
(* or of dv, or goes into a bin.                                           *)
MergeForward(h, p, psize, next) ==
  LET tag == h.head[next]
      all == psize + tag.size
      joined == set_size_and_pinuse_of_free_chunk(unlink_chunk(h, next, tag.size), p, all)
  IN IF tag.cinuse /\ p = h.dv
       THEN [kind |-> "dv", h |-> set_free_with_pinuse(SetDv(h, p, psize), p, psize, next)]
     ELSE IF tag.cinuse
       THEN ToBin(set_free_with_pinuse(h, p, psize, next), p, psize)
     ELSE IF next = h.top
       THEN [kind |-> "top",
             h |-> SetTop(IF p = h.dv THEN SetDv(h, 0, 0) ELSE h, p, h.topsize + psize)]
     ELSE IF next = h.dv
       THEN [kind |-> "dv",
             h |-> set_size_and_pinuse_of_free_chunk(SetDv(h, p, h.dvsize + psize),
                                                     p, h.dvsize + psize)]
     ELSE IF p = h.dv THEN [kind |-> "dv", h |-> SetDv(joined, p, all)]
     ELSE ToBin(joined, p, all)

Merge(b, next) == MergeForward(b.h, b.p, b.size, next)

Consolidate(h, p, psize) == Merge(MergeBack(h, p, psize), p + psize)

dispose_chunk(h, p, psize) ==
  IF is_mmapped(h.head[p]) THEN UnmapChunk(h, p)
  ELSE IF ~ok_address(h, p + psize) THEN Stop(h, "abort")
  ELSE Consolidate(h, p, psize).h

(* Every so many large chunks free looks for segments to give back. *)
CountLarge(h) ==
  IF h.release_checks = 1 THEN release_unused_segments(h).h
  ELSE [h EXCEPT !.release_checks = @ - 1]

AfterFree(c) ==
  IF c.kind = "top" /\ should_trim(c.h, c.h.topsize) THEN sys_trim(c.h, 0)
  ELSE IF c.kind = "large" THEN CountLarge(c.h)
  ELSE c.h

dlfree(h, p) ==
  LET tag == h.head[p]
  IN IF ~ok_address(h, p) \/ ~is_inuse(tag) THEN Stop(h, "abort")
     ELSE IF is_mmapped(tag) THEN UnmapChunk(h, p)
     ELSE IF ~h.head[p + tag.size].pinuse THEN Stop(h, "abort")
     ELSE AfterFree(Consolidate(h, p, tag.size))
-----------------------------------------------------------------------------
(* malloc *)

(* A chunk of s words, out of its bin, serves nb; what it leaves is too    *)
(* small to be a chunk, or becomes dv or goes back into a bin.             *)
Carve(h, p, s, nb, rest(_, _, _)) ==
  LET r == p + nb
      split == set_size_and_pinuse_of_free_chunk(
                 set_size_and_pinuse_of_inuse_chunk(h, p, nb), r, s - nb)
  IN [mem |-> p,
      h |-> IF s - nb < MIN_CHUNK_SIZE THEN set_inuse_and_pinuse(h, p, s)
                                       ELSE rest(split, r, s - nb)]

CarveBinned(h, s, nb, rest(_, _, _)) ==
  LET p == Head(h.bins[s]) IN Carve(unlink_chunk(h, p, s), p, s, nb, rest)

(* The best fitting chunk of the trees, unless dv fits better. *)
tmalloc_large(h, nb) ==
  LET sizes == Fitting(h.bins, nb)
      s == Min(sizes)
  IN IF sizes # {} /\ s - nb < (h.dvsize - nb) % W THEN CarveBinned(h, s, nb, insert_chunk)
     ELSE None(h)

tmalloc_small(h, nb) == CarveBinned(h, Min(TreeSizes(h)), nb, replace_dv)

(* Small requests from the bins: a chunk that fits without a remainder;    *)
(* otherwise, when dv is too small, the next larger one.                   *)
MallocSmall(h, nb) ==
  LET fits == SmallBins(h) \cap {nb, nb + 1}
      larger == {s \in SmallBins(h) : s > nb}
      s == Min(fits)
      p == Head(h.bins[s])
  IN IF fits # {} THEN [h |-> set_inuse_and_pinuse(unlink_chunk(h, p, s), p, s), mem |-> p]
     ELSE IF nb <= h.dvsize THEN None(h)
     ELSE IF larger # {} THEN CarveBinned(h, Min(larger), nb, replace_dv)
     ELSE IF TreeSizes(h) # {} THEN tmalloc_small(h, nb)
     ELSE None(h)

SplitDv(h, nb) ==
  Carve([h EXCEPT !.dv = 0, !.dvsize = 0], h.dv, h.dvsize, nb, SetDv)

(* Without a chunk from the bins: dv, top, the system. *)
OrElse(binned, nb) ==
  LET h == binned.h
  IN IF binned.mem # 0 THEN binned
     ELSE IF nb <= h.dvsize THEN SplitDv(h, nb)
     ELSE IF nb < h.topsize THEN SplitTop(h, nb)
     ELSE sys_alloc(h, nb)

dlmalloc(h, bytes) ==
  IF bytes <= MAX_SMALL_REQUEST THEN OrElse(MallocSmall(h, request2size(bytes)), request2size(bytes))
  ELSE IF bytes >= MAX_REQUEST THEN OrElse(None(h), MAX_SIZE_T)
  ELSE OrElse(tmalloc_large(h, pad_request(bytes)), pad_request(bytes))

(* Mutant: the product is taken as it is. *)
CallocSizeWrapped(n, elem_size) == (n * elem_size) % W

CallocSize(n, elem_size) ==
  LET req == (n * elem_size) % W
  IN IF n # 0 /\ (n >= CALLOC_SMALL \/ elem_size >= CALLOC_SMALL) /\ req \div n # elem_size
       THEN MAX_SIZE_T ELSE req

dlcalloc(h, n, elem_size) == dlmalloc(h, CallocSize(n, elem_size))
-----------------------------------------------------------------------------
(* realloc, memalign and the calls on several chunks *)

(* p keeps nb of its words, the rest is disposed of. *)
SplitOff(h, p, nb) ==
  LET rsize == h.head[p].size - nb
  IN dispose_chunk(set_inuse(set_inuse(h, p, nb), p + nb, rsize), p + nb, rsize)

(* Without mremap a region keeps its size: it serves while it is large     *)
(* enough and not much too large.                                          *)
mmap_resize(h, p, nb) ==
  LET oldsize == h.head[p].size
  IN IF ~is_small(nb) /\ oldsize >= nb + 1 /\ oldsize - nb <= 2 * granularity
       THEN [h |-> h, mem |-> p] ELSE None(h)

ExtendIntoDv(h, p, nb) ==
  LET all == h.head[p].size + h.dvsize
      dsize == all - nb
      r == p + nb
  IN IF dsize >= MIN_CHUNK_SIZE
       THEN SetDv(clear_pinuse(set_size_and_pinuse_of_free_chunk(set_inuse(h, p, nb), r, dsize),
                               r + dsize), r, dsize)
       ELSE SetDv(set_inuse(h, p, all), 0, 0)

ExtendIntoFree(h, p, nb) ==
  LET oldsize == h.head[p].size
      next == p + oldsize
      all == oldsize + h.head[next].size
      whole == set_inuse(unlink_chunk(h, next, h.head[next].size), p, all)
  IN IF all - nb < MIN_CHUNK_SIZE THEN whole ELSE SplitOff(whole, p, nb)

ExtendIntoTop(h, p, nb) ==
  SetTop(set_inuse(h, p, nb), p + nb, h.head[p].size + h.topsize - nb)

(* In place, or nothing. *)
try_realloc_chunk(h, p, nb) ==
  LET tag == h.head[p]
      next == p + tag.size
      In(hh) == [h |-> hh, mem |-> p]
  IN IF ~(ok_address(h, p) /\ is_inuse(tag) /\ h.head[next].pinuse) THEN None(Stop(h, "abort"))
     ELSE IF is_mmapped(tag) THEN mmap_resize(h, p, nb)
     ELSE IF tag.size >= nb
       THEN In(IF tag.size - nb >= MIN_CHUNK_SIZE THEN SplitOff(h, p, nb) ELSE h)
     ELSE IF next = h.top
       THEN IF tag.size + h.topsize > nb THEN In(ExtendIntoTop(h, p, nb)) ELSE None(h)
     ELSE IF next = h.dv
       THEN IF tag.size + h.dvsize >= nb THEN In(ExtendIntoDv(h, p, nb)) ELSE None(h)
     ELSE IF ~h.head[next].cinuse /\ tag.size + h.head[next].size >= nb
       THEN In(ExtendIntoFree(h, p, nb))
     ELSE None(h)

(* When the chunk cannot grow where it is: malloc, copy, free. *)
ReallocFree(moved, p) ==
  IF moved.mem = 0 \/ ~Running(moved.h) THEN moved ELSE [moved EXCEPT !.h = dlfree(@, p)]

OrMove(in_place, p, bytes) ==
  IF in_place.mem # 0 \/ ~Running(in_place.h) THEN in_place
  ELSE ReallocFree(dlmalloc(in_place.h, bytes), p)

dlrealloc(h, p, bytes) ==
  IF bytes >= MAX_REQUEST THEN None(h)
  ELSE OrMove(try_realloc_chunk(h, p, request2size(bytes)), p, bytes)

dlrealloc_in_place(h, p, bytes) ==
  IF bytes >= MAX_REQUEST THEN None(h) ELSE try_realloc_chunk(h, p, request2size(bytes))

(* The first aligned place that leaves a leader of at least a chunk. *)
AlignedSpot(p, alignment) ==
  LET br == mem2chunk(AlignUp(chunk2mem(p), alignment))
  IN IF br - p >= MIN_CHUNK_SIZE THEN br ELSE br + alignment

(* p moves up to an aligned place. *)
GiveLeader(h, p, newp) ==
  LET lead == newp - p
      newsize == h.head[p].size - lead
  IN IF is_mmapped(h.head[p])
       THEN LET moved == SetHead(h, newp, Tag(newsize, FALSE, FALSE))
            IN [moved EXCEPT !.foot = (newp :> h.foot[p] + lead) @@ Without(@, {p}),
                             !.head = Without(@, {p})]
       ELSE dispose_chunk(set_inuse(set_inuse(h, newp, newsize), p, lead), p, lead)

(* "Give back spare room at the end" *)
GiveTail(h, p, nb) ==
  IF Running(h) /\ ~is_mmapped(h.head[p]) /\ h.head[p].size > nb + MIN_CHUNK_SIZE
    THEN [h |-> SplitOff(h, p, nb), mem |-> p]
    ELSE [h |-> h, mem |-> p]

Placed(r, alignment, nb) ==
  LET newp == AlignedSpot(r.mem, alignment)
  IN IF r.mem = 0 \/ ~Running(r.h) THEN r
     ELSE IF chunk2mem(r.mem) % alignment = 0 THEN GiveTail(r.h, r.mem, nb)
     ELSE GiveTail(GiveLeader(r.h, r.mem, newp), newp, nb)

internal_memalign(h, align, bytes) ==
  LET alignment == Max({align, MIN_CHUNK_SIZE})
      nb == request2size(bytes)
  IN IF bytes >= MAX_REQUEST - alignment THEN None(h)
     ELSE Placed(dlmalloc(h, nb + alignment + MIN_CHUNK_SIZE - CHUNK_OVERHEAD), alignment, nb)

dlmemalign(h, align, bytes) ==
  IF align <= MALLOC_ALIGNMENT THEN dlmalloc(h, bytes) ELSE internal_memalign(h, align, bytes)

(* Sizes of the chunks ialloc cuts its one chunk into: the elements and    *)
(* behind them the array of pointers, which takes what is over.            *)
Cuts(sizes) ==
  Append([i \in DOMAIN sizes |-> request2size(sizes[i])], request2size(Len(sizes)))

Offset(cuts, i) == FoldLeft(+, 0, SubSeq(cuts, 1, i - 1))

CutUp(h, p, cuts) ==
  LET n == Len(cuts)
      size(i) == IF i = n THEN h.head[p].size - Offset(cuts, n) ELSE cuts[i]
      Cut(hh, i) == set_size_and_pinuse_of_inuse_chunk(hh, p + Offset(cuts, i), size(i))
  IN [h |-> FoldLeft(Cut, h, [i \in 1 .. n |-> i]),
      mem |-> [i \in 1 .. n |-> p + Offset(cuts, i)]]

Segregate(r, mflag, cuts) ==
  LET h == [r.h EXCEPT !.use_mmap = mflag]
  IN IF r.mem = 0 THEN [h |-> h, mem |-> <<>>] ELSE CutUp(h, r.mem, cuts)

(* independent_comalloc of some elements that also makes the array         *)
(* (independent_calloc is the case of equal sizes).  Direct mapping is off *)
(* during the malloc.                                                      *)
ialloc(h, sizes) ==
  LET cuts == Cuts(sizes)
  IN Segregate(dlmalloc([h EXCEPT !.use_mmap = FALSE],
                        Offset(cuts, Len(cuts) + 1) - CHUNK_OVERHEAD),
               h.use_mmap, cuts)

(* Chunks that are next to each other in the array and in memory are       *)
(* joined before they are disposed of.                                     *)
BulkStep(array, acc, i) ==
  LET p == IF acc.carry # 0 THEN acc.carry ELSE array[i]
      tag == acc.h.head[p]
      next == p + tag.size
  IN IF ~Running(acc.h) THEN acc
     ELSE IF ~ok_address(acc.h, p) \/ ~is_inuse(tag)
       THEN [h |-> Stop(acc.h, "abort"), carry |-> 0]
     ELSE IF i < Len(array) /\ array[i + 1] = next
       THEN [h |-> set_inuse(acc.h, p, tag.size + acc.h.head[next].size), carry |-> p]
     ELSE [h |-> dispose_chunk(acc.h, p, tag.size), carry |-> 0]

BulkTrim(h) == IF Running(h) /\ should_trim(h, h.topsize) THEN sys_trim(h, 0) ELSE h

internal_bulk_free(h, array) ==
  BulkTrim(FoldLeft(LAMBDA acc, i : BulkStep(array, acc, i),
                    [h |-> h, carry |-> 0], [i \in DOMAIN array |-> i]).h)

dlmalloc_set_footprint_limit(h, bytes) ==
  [h EXCEPT !.footprint_limit = IF bytes = MAX_SIZE_T THEN 0 ELSE granularity_align(bytes)]
-----------------------------------------------------------------------------
(* A call returns, or the kernel stops in it. *)
Commit(h, held) ==
  IF Running(h) THEN heap' = h /\ live' = held /\ UNCHANGED others
  ELSE heap' = [heap EXCEPT !.stuck = h.stuck] /\ UNCHANGED <<live, others>>

Asked(size, align) == [size |-> size, align |-> align]
Hold(held, p, asked) == IF p = 0 THEN held ELSE (p :> asked) @@ held

MayHold(n) == Cardinality(DOMAIN live) + n <= MaxLive

Allocated(r, size, align) == Commit(r.h, Hold(live, r.mem, Asked(size, align)))

Malloc ==
  /\ MayHold(1)
  /\ \E bytes \in Requests : Allocated(dlmalloc(heap, bytes), bytes, MALLOC_ALIGNMENT)

(* The caller expects room for the product as the numbers stand. *)
Calloc ==
  /\ MayHold(1)
  /\ \E c \in Callocs :
       Allocated(dlcalloc(heap, c[1], c[2]), c[1] * c[2], MALLOC_ALIGNMENT)

Memalign ==
  /\ MayHold(1)
  /\ \E a \in Aligns : Allocated(dlmemalign(heap, a[1], a[2]), a[2], a[1])

Free == \E p \in DOMAIN live : Commit(dlfree(heap, p), Without(live, {p}))

(* The old chunk stays when there is no new one. *)
Resized(r, p, bytes) ==
  Commit(r.h, IF r.mem = 0 THEN live
              ELSE Hold(Without(live, {p}), r.mem, Asked(bytes, MALLOC_ALIGNMENT)))

Realloc ==
  \E p \in DOMAIN live, bytes \in Resizes : Resized(dlrealloc(heap, p, bytes), p, bytes)

ReallocInPlace ==
  \E p \in DOMAIN live, bytes \in Resizes :
    Resized(dlrealloc_in_place(heap, p, bytes), p, bytes)

(* The caller holds the elements and the array of n pointers. *)
AllocatedAll(r, sizes) ==
  LET n == Len(r.mem)
      asked == Append(sizes, Len(sizes))
      index(p) == CHOOSE i \in 1 .. n : r.mem[i] = p
  IN Commit(r.h, [p \in ToSet(r.mem) |-> Asked(asked[index(p)], MALLOC_ALIGNMENT)] @@ live)

Independent ==
  \E sizes \in Independents :
    MayHold(Len(sizes) + 1) /\ AllocatedAll(ialloc(heap, sizes), sizes)

(* Two chunks in either order. *)
BulkFree ==
  \E p, q \in DOMAIN live :
    p # q /\ Commit(internal_bulk_free(heap, <<p, q>>), Without(live, {p, q}))

MallocTrim == \E pad \in Pads : Commit(sys_trim(heap, pad), live)

SetFootprintLimit ==
  \E bytes \in Limits : Commit(dlmalloc_set_footprint_limit(heap, bytes), live)

(* Other callers of mm_virtual_alloc and mm_virtual_free: ACPI tables,     *)
(* device registers, page by page reads of the configuration space.        *)
ForeignMap ==
  /\ Cardinality(others) < MaxForeign
  /\ \E len \in Foreign :
       LET m == Mmap(heap, len)
       IN /\ Running(m.h)
          /\ heap' = m.h
          /\ others' = others \cup {[start |-> m.addr, len |-> len]}
          /\ UNCHANGED live

ForeignUnmap ==
  \E r \in others :
    /\ heap' = Munmap(heap, r.start, r.len).h
    /\ others' = others \ {r}
    /\ UNCHANGED live

Next ==
  /\ Running(heap)
  /\ calls < MaxCalls
  /\ calls' = calls + 1
  /\ \/ Malloc \/ Calloc \/ Memalign \/ Free \/ Realloc \/ ReallocInPlace
     \/ Independent \/ BulkFree \/ MallocTrim \/ SetFootprintLimit
     \/ ForeignMap \/ ForeignUnmap

Spec == Init /\ [][Next]_vars
-----------------------------------------------------------------------------
InSegments(p) == segment_holding(heap, p) # 0
Chunks == {p \in DOMAIN heap.head : heap.head[p] # FENCEPOST_HEAD}
TopFoot == heap.top + heap.topsize

(* Chunks of the segments, without top and the fake chunk behind it, and   *)
(* the chunks with a region of their own.                                  *)
SegmentChunks == {p \in Chunks : InSegments(p)} \ {heap.top, TopFoot}
MmappedChunks == {p \in Chunks : ~InSegments(p)}
FreeChunks == {p \in SegmentChunks : ~heap.head[p].cinuse}
Records == {mem2chunk(heap.segs[i].rec) : i \in DOMAIN heap.segs \ {1}}

(* do_check_malloc_state's walk over the segments.  From its base on, a    *)
(* segment is covered by its chunks without a gap up to the fenceposts or  *)
(* top; each chunk's pinuse bit says whether the one below is in use, a    *)
(* free one repeats its size in its foot, and no two free ones are         *)
(* neighbours.                                                             *)
TagsIntact ==
  /\ \A i \in DOMAIN heap.segs : heap.segs[i].base \in DOMAIN heap.head
  /\ \A p \in SegmentChunks :
       LET tag == heap.head[p]
           next == p + tag.size
       IN /\ next \in DOMAIN heap.head
          /\ heap.head[next].pinuse = tag.cinuse
          /\ ~tag.cinuse => /\ tag.pinuse
                            /\ next \in DOMAIN heap.foot /\ heap.foot[next] = tag.size
                            /\ next # heap.top
  /\ heap.top # 0 => /\ heap.head[heap.top] = Tag(heap.topsize, FALSE, TRUE)
                     /\ LET s == heap.segs[1]
                        IN TopFoot + TOP_FOOT_SIZE = s.base + s.size

(* Every free chunk can be found again: it is dv, or it is in the bin of   *)
(* its size, once; nothing else is in a bin.                               *)
BinsExact ==
  /\ UNION {ToSet(heap.bins[s]) : s \in DOMAIN heap.bins}
       = FreeChunks \ {heap.dv}
  /\ heap.dv # 0 => heap.dv \in FreeChunks /\ heap.head[heap.dv].size = heap.dvsize
  /\ heap.dv = 0 <=> heap.dvsize = 0
  /\ \A s \in DOMAIN heap.bins :
       /\ \A i \in DOMAIN heap.bins[s] : heap.head[heap.bins[s][i]].size = s
       /\ \A i, j \in DOMAIN heap.bins[s] : i # j => heap.bins[s][i] # heap.bins[s][j]

(* What a caller holds is a chunk of its own, in use, aligned as memalign  *)
(* was asked to and with room for what was asked; no chunk in use is       *)
(* without an owner but the segment records.                               *)
LiveExact ==
  /\ DOMAIN live \cap Records = {}
  /\ DOMAIN live \cup Records = MmappedChunks \cup (SegmentChunks \ FreeChunks)
  /\ \A p \in DOMAIN live :
       /\ heap.head[p].size - overhead_for(heap.head[p]) >= live[p].size
       /\ chunk2mem(p) % live[p].align = 0 /\ chunk2mem(p) % MALLOC_ALIGNMENT = 0

Region(a, n) == [start |-> a, len |-> n]
DirectRegions ==
  {Region(p - heap.foot[p], heap.head[p].size + heap.foot[p] + MMAP_FOOT_PAD) : p \in MmappedChunks}
SegmentRegions == {Region(heap.segs[i].base, heap.segs[i].size) : i \in DOMAIN heap.segs}
HeapRegions == DirectRegions \cup SegmentRegions
Words(R) == UNION {r.start .. r.start + r.len - 1 : r \in R}

(* The heap and the other users of the address space own exactly the pages *)
(* that are mapped, no page twice, and footprint counts the heap's.        *)
MapsExact ==
  /\ Words({Region(heap.nodes[i].start, heap.nodes[i].len) :
              i \in {j \in DOMAIN heap.nodes : heap.nodes[j].used}})
       = Words(HeapRegions \cup others)
  /\ \A r, s \in HeapRegions \cup others : r # s => Words({r}) \cap Words({s}) = {}
  /\ DirectRegions \cap SegmentRegions = {}
  /\ heap.footprint = MapThenSumSet(LAMBDA r : r.len, HeapRegions)

(* The record of a segment lies in that segment (release_unused_segments   *)
(* asserts it) as a chunk in use, and top in the first one: otherwise      *)
(* giving a segment back takes the list of the segments with it.           *)
RecordsHome ==
  /\ \A i \in DOMAIN heap.segs \ {1} : segment_holds(heap.segs[i], heap.segs[i].rec)
  /\ heap.top # 0 => segment_holds(heap.segs[1], heap.top)

(* The checks of dlmalloc never fire for callers that free what they hold, *)
(* once: CORRUPTION_ERROR_ACTION and USAGE_ERROR_ACTION panic.             *)
ChecksNeverFire == heap.stuck # "abort"

(* dlmalloc.h of MUNMAP: one call is "able to unmap memory that may have   *)
(* be allocated using multiple calls to MMAP, so long as they are          *)
(* adjacent".                                                              *)
MunmapTakesSeveral == heap.stuck # "several"
=============================================================================
