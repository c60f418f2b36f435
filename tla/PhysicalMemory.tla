--------------------------- MODULE PhysicalMemory ---------------------------
(***************************************************************************)
(* The physical page allocator, kernel/mm/physical.c.                      *)
(*                                                                         *)
(* Free frames are kept on a chain of page-sized stacks.  Only the newest  *)
(* stack is mapped (pml1[511]); a full stack makes mark_free turn one free *)
(* frame into a new stack, an empty one makes get go back to the previous  *)
(* stack.  A stack page is linked by its physical address, and the value 0 *)
(* stands for "no previous stack".                                         *)
(*                                                                         *)
(* Left out: the entries of data[] above `used', which are never read (a   *)
(* new stack's are whatever the frame held), the page-table set-up of the  *)
(* stack window (mm_physical_init_stack up to the root stack), and the     *)
(* debug print-outs.                                                       *)
(***************************************************************************)
EXTENDS Integers, SequencesExt

CONSTANTS
  Frames,      \* frames the EFI memory map reports as usable
  Root,        \* root_stack_phys, inside the kernel image
  STACK_SIZE   \* entries of one stack (509)

ASSUME FramesAssumption ==
  /\ Frames \subseteq Nat
  /\ Root \in (Nat \ {0}) \ Frames

ASSUME SizeAssumption == STACK_SIZE \in Nat \ {0, 1}

VARIABLES
  stacks,     \* contents of the pages that serve, or served, as stacks
  cur,        \* frame mapped at STACK_ADDR: the current stack
  getting,    \* a call of mm_physical_get is walking the chain
  panicked,   \* panic("out of physical memory")
  held,       \* frames returned by get and not yet freed by their owner
  unclaimed,  \* usable frames mm_physical_init has not come to
  chain       \* history: the stack pages from the root to the current one

vars == <<stacks, cur, getting, panicked, held, unclaimed, chain>>

Pages == Frames \cup {Root}

(* struct mm_physical_stack, with data[0 .. used - 1] as a sequence. *)
Stack == [prev : Pages \cup {0}, next : Pages \cup {0}, data : Seq(Frames)]

(* Mutant: the link to the previous stack is cleared with the header. *)
EmptyStackUnlinked(prev) == [prev |-> 0, next |-> 0, data |-> <<>>]

(* The 24-byte header mm_physical_create_stack clears, prev set. *)
EmptyStack(prev) == [prev |-> prev, next |-> 0, data |-> <<>>]

Init ==
  /\ stacks = [p \in Pages |-> EmptyStack(0)]
  /\ cur = Root
  /\ getting = FALSE
  /\ panicked = FALSE
  /\ held = {}
  /\ unclaimed = Frames
  /\ chain = <<Root>>

-----------------------------------------------------------------------------
top == stacks[cur]

(* A caller enters mm_physical_get. *)
CallGet ==
  /\ ~getting
  /\ getting' = TRUE
  /\ UNCHANGED <<stacks, cur, panicked, held, unclaimed, chain>>

(* Mutant: stack->used is not decremented. *)
GetPopNoDecrement ==
  /\ getting
  /\ top.data # <<>>
  /\ held' = held \cup {Last(top.data)}
  /\ getting' = FALSE
  /\ UNCHANGED <<stacks, cur, panicked, unclaimed, chain>>

(* stack->used > 0: the caller receives the topmost frame. *)
GetPop ==
  /\ getting
  /\ top.data # <<>>
  /\ held' = held \cup {Last(top.data)}
  /\ stacks' = [stacks EXCEPT ![cur].data = Front(@)]
  /\ getting' = FALSE
  /\ UNCHANGED <<cur, panicked, unclaimed, chain>>

(* Mutant: the walk stops before the root stack. *)
GetPrevNotRoot ==
  /\ getting
  /\ top.data = <<>>
  /\ top.prev # 0 /\ stacks[top.prev].prev # 0
  /\ cur' = top.prev
  /\ chain' = Front(chain)
  /\ UNCHANGED <<stacks, getting, panicked, held, unclaimed>>

(* The stack is empty and has a predecessor: map it and call get again. *)
GetPrev ==
  /\ getting
  /\ top.data = <<>>
  /\ top.prev # 0
  /\ cur' = top.prev
  /\ chain' = Front(chain)
  /\ UNCHANGED <<stacks, getting, panicked, held, unclaimed>>

(* Mutant: an empty stack panics at once. *)
GetPanicEarly ==
  /\ getting
  /\ top.data = <<>>
  /\ panicked' = TRUE
  /\ getting' = FALSE
  /\ UNCHANGED <<stacks, cur, held, unclaimed, chain>>

GetPanic ==
  /\ getting
  /\ top.data = <<>>
  /\ top.prev = 0
  /\ panicked' = TRUE
  /\ getting' = FALSE
  /\ UNCHANGED <<stacks, cur, held, unclaimed, chain>>

(* Mutant: the test for a full stack is off by one. *)
PushHereOneMore(f) ==
  /\ Len(top.data) <= STACK_SIZE
  /\ stacks' = [stacks EXCEPT ![cur].data = Append(@, f)]
  /\ UNCHANGED <<cur, chain>>

(* mm_physical_mark_free with room on the current stack. *)
PushHere(f) ==
  /\ Len(top.data) < STACK_SIZE
  /\ stacks' = [stacks EXCEPT ![cur].data = Append(@, f)]
  /\ UNCHANGED <<cur, chain>>

(* Mutant: the freed frame is not put on the new stack. *)
PushNewDropped(f) ==
  /\ Len(top.data) >= STACK_SIZE
  /\ LET new == Last(top.data)
     IN /\ stacks' = [stacks EXCEPT
                        ![cur].data = Front(@),
                        ![cur].next = new,
                        ![new] = EmptyStack(cur)]
        /\ cur' = new
        /\ chain' = Append(chain, new)

(* mm_physical_mark_free on a full stack: mm_physical_get takes the topmost *)
(* frame, create_stack writes the header of a stack on it, and the freed    *)
(* frame is the new stack's first entry.                                    *)
PushNew(f) ==
  /\ Len(top.data) >= STACK_SIZE
  /\ LET new == Last(top.data)
     IN /\ stacks' = [stacks EXCEPT
                        ![cur].data = Front(@),
                        ![cur].next = new,
                        ![new] = [EmptyStack(cur) EXCEPT !.data = <<f>>]]
        /\ cur' = new
        /\ chain' = Append(chain, new)

MarkFree(f) == PushHere(f) \/ PushNew(f)

(* One iteration of the loops of mm_physical_init, in any order of the map. *)
BootFree(f) ==
  /\ ~getting
  /\ f \in unclaimed
  /\ MarkFree(f)
  /\ unclaimed' = unclaimed \ {f}
  /\ UNCHANGED <<getting, panicked, held>>

(* The owner of a frame gives it back. *)
Free(f) ==
  /\ ~getting
  /\ f \in held
  /\ MarkFree(f)
  /\ held' = held \ {f}
  /\ UNCHANGED <<getting, panicked, unclaimed>>

GetStep == ~panicked /\ (GetPop \/ GetPrev \/ GetPanic)

Next ==
  \/ GetStep
  \/ /\ ~panicked
     /\ CallGet \/ \E f \in Frames : BootFree(f) \/ Free(f)

(* The kernel is single threaded, so a call of get runs to its end. *)
Spec == Init /\ [][Next]_vars /\ WF_vars(GetStep)
-----------------------------------------------------------------------------
Chain == ToSet(chain)
Entries(p) == ToSet(stacks[p].data)

(* Frames mm_physical_get can still reach. *)
FreeFrames == UNION {Entries(p) : p \in Chain}

(* Frames that are in no one's hands: stack pages that were emptied. *)
Lost == Frames \ (FreeFrames \cup held \cup unclaimed \cup Chain)

TypeOK ==
  /\ stacks \in [Pages -> Stack]
  /\ cur \in Pages
  /\ getting \in BOOLEAN
  /\ panicked \in BOOLEAN
  /\ held \subseteq Frames
  /\ unclaimed \subseteq Frames
  /\ chain \in Seq(Pages)
  /\ \A p \in Pages : Len(stacks[p].data) <= STACK_SIZE

(* The prev links lead from the current stack to the root through pages     *)
(* that are all different: mm_physical_get never walks into a page that is  *)
(* not a stack, and never in a circle.                                      *)
ChainIntact ==
  /\ chain # <<>>
  /\ chain[1] = Root
  /\ chain[Len(chain)] = cur
  /\ stacks[Root].prev = 0
  /\ \A i \in DOMAIN chain \ {1} : stacks[chain[i]].prev = chain[i - 1]
  /\ IsInjective(chain)

(* No frame is on a stack twice, neither on one nor on two. *)
EntriesDistinct ==
  \A p, q \in Chain :
    \A i \in DOMAIN stacks[p].data, j \in DOMAIN stacks[q].data :
      stacks[p].data[i] = stacks[q].data[j] => p = q /\ i = j

(* A free frame has no owner, is not still to be handed over, and is not a *)
(* page the allocator keeps a stack on; nor is any owned frame.  So        *)
(* mm_physical_get never returns a frame that is in use, and mark_free     *)
(* never builds a stack over a page that someone owns.                     *)
Exclusive ==
  /\ FreeFrames \cap (held \cup unclaimed \cup Chain) = {}
  /\ Chain \cap (held \cup unclaimed) = {}
  /\ held \cap unclaimed = {}

NoSharedFrame == EntriesDistinct /\ Exclusive

(* The panic "out of physical memory" means what it says: no free frame is *)
(* left on any stack.                                                      *)
PanicOnlyWhenExhausted == panicked => FreeFrames = {}

(* A frame is lost only when get leaves an emptied stack behind: no other  *)
(* step drops a frame, and a lost frame never comes back (nothing ever     *)
(* returns the page of an emptied stack to the pool).                      *)
LossOnlyByEmptiedStack ==
  [][/\ Lost \subseteq Lost'
     /\ Lost' # Lost => Lost' \ Lost = {cur} /\ Entries(cur) = {}]_vars

(* A call of mm_physical_get returns a frame or panics. *)
GetReturns == getting ~> ~getting

Pool == INSTANCE FramePool WITH free <- FreeFrames

(* The stacks implement the abstract pool of frames. *)
ImplementsPool == Pool!Spec
=============================================================================
