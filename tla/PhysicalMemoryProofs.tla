------------------------ MODULE PhysicalMemoryProofs ------------------------
(***************************************************************************)
(* Proofs about kernel/mm/physical.c for every set of frames and every     *)
(* stack size.                                                             *)
(***************************************************************************)
EXTENDS PhysicalMemory, SequenceTheorems, TLAPS

(* Popping a stack that is not empty removes its last entry only. *)
LEMMA FrontFacts ==
  ASSUME NEW S, NEW s \in Seq(S), s # <<>>
  PROVE  /\ Len(s) \in Nat /\ Len(s) >= 1
         /\ DOMAIN s = 1 .. Len(s)
         /\ Last(s) = s[Len(s)]
         /\ Last(s) \in S
         /\ Front(s) \in Seq(S)
         /\ Len(Front(s)) = Len(s) - 1
         /\ DOMAIN Front(s) = 1 .. Len(s) - 1
         /\ \A i \in 1 .. Len(s) - 1 : Front(s)[i] = s[i]
<1>1. Len(s) \in Nat /\ Len(s) >= 1 /\ \A i \in 1 .. Len(s) : s[i] \in S
  OBVIOUS
<1>2. /\ Front(s) \in Seq(S)
      /\ Len(Front(s)) = Len(s) - 1
      /\ \A i \in 1 .. Len(s) - 1 : Front(s)[i] = s[i]
  <2> DEFINE n == Len(s) - 1
             t == SubSeq(s, 1, n)
  <2>1. n \in Nat /\ n = Len(s) - 1 /\ \A i \in 1 .. n : s[i] \in S
    BY <1>1
  <2>2. Front(s) = t
    BY DEF Front
  <2> HIDE DEF n
  <2>3. /\ t \in Seq(S)
        /\ Len(t) = IF 1 <= n THEN n - 1 + 1 ELSE 0
        /\ \A i \in 1 .. n - 1 + 1 : t[i] = s[1 + i - 1]
    BY <2>1, SubSeqProperties
  <2> HIDE DEF t
  <2>4. Len(t) = n /\ \A i \in 1 .. n : t[i] = s[i]
    BY <2>1, <2>3
  <2>5. QED
    BY <2>1, <2>2, <2>3, <2>4
<1>3. QED
  BY <1>1, <1>2 DEF Last

(* Pushing adds one entry at the end. *)
LEMMA AppendFacts ==
  ASSUME NEW S, NEW s \in Seq(S), NEW e \in S
  PROVE  /\ Len(s) \in Nat
         /\ DOMAIN s = 1 .. Len(s)
         /\ Append(s, e) \in Seq(S)
         /\ Len(Append(s, e)) = Len(s) + 1
         /\ DOMAIN Append(s, e) = 1 .. Len(s) + 1
         /\ \A i \in 1 .. Len(s) : Append(s, e)[i] = s[i]
         /\ Append(s, e)[Len(s) + 1] = e
OBVIOUS

-----------------------------------------------------------------------------
(* The inductive invariant: no property below needs more than these parts. *)
IInv == TypeOK /\ ChainIntact /\ EntriesDistinct /\ Exclusive

(* What TypeOK and ChainIntact say about the current stack. *)
LEMMA CurrentStack ==
  ASSUME TypeOK, ChainIntact
  PROVE  /\ Len(chain) \in Nat /\ Len(chain) >= 1
         /\ DOMAIN chain = 1 .. Len(chain)
         /\ \A i \in DOMAIN chain : chain[i] \in Pages
         /\ chain[Len(chain)] = cur
         /\ cur \in Chain
         /\ top \in Stack
         /\ top.data \in Seq(Frames)
         /\ \A p \in Chain : p \in Pages /\ stacks[p].data \in Seq(Frames)
<1>1. /\ Len(chain) \in Nat /\ Len(chain) >= 1
      /\ DOMAIN chain = 1 .. Len(chain)
      /\ \A i \in DOMAIN chain : chain[i] \in Pages
  BY DEF TypeOK, ChainIntact
<1>2. chain[Len(chain)] = cur
  BY DEF ChainIntact
<1>3. cur \in Chain
  BY <1>1, <1>2 DEF Chain, ToSet
<1>4. top \in Stack /\ top.data \in Seq(Frames)
  BY DEF TypeOK, top, Stack
<1>5. \A p \in Chain : p \in Pages /\ stacks[p].data \in Seq(Frames)
  BY <1>1 DEF Chain, ToSet, TypeOK, Stack
<1>6. QED
  BY <1>1, <1>2, <1>3, <1>4, <1>5

(* get takes exactly one frame off the stacks and leaves the links alone. *)
LEMMA PopEffect ==
  ASSUME TypeOK, ChainIntact, EntriesDistinct, top.data # <<>>,
         stacks' = [stacks EXCEPT ![cur].data = Front(@)],
         UNCHANGED <<cur, chain>>
  PROVE  /\ Last(top.data) \in FreeFrames
         /\ FreeFrames' = FreeFrames \ {Last(top.data)}
         /\ Chain' = Chain
         /\ stacks' \in [Pages -> Stack]
         /\ \A p \in Pages : Len(stacks'[p].data) <= STACK_SIZE
         /\ ChainIntact'
         /\ EntriesDistinct'
<1> DEFINE f == Last(top.data)
<1>1. /\ cur \in Chain /\ cur \in Pages
      /\ \A p \in Chain : p \in Pages /\ stacks[p].data \in Seq(Frames)
      /\ Chain' = Chain
  BY CurrentStack DEF Chain
<1>2. /\ Len(top.data) \in Nat /\ Len(top.data) >= 1
      /\ DOMAIN top.data = 1 .. Len(top.data)
      /\ f = top.data[Len(top.data)]
      /\ f \in Frames
      /\ Front(top.data) \in Seq(Frames)
      /\ Len(Front(top.data)) = Len(top.data) - 1
      /\ DOMAIN Front(top.data) = 1 .. Len(top.data) - 1
      /\ \A i \in 1 .. Len(top.data) - 1 : Front(top.data)[i] = top.data[i]
  BY CurrentStack, FrontFacts
<1>3. /\ \A p \in Pages : p # cur => stacks'[p] = stacks[p]
      /\ stacks'[cur].data = Front(top.data)
      /\ \A p \in Pages : stacks'[p].prev = stacks[p].prev
      /\ stacks' \in [Pages -> Stack]
  BY <1>1, <1>2 DEF TypeOK, Stack, top
<1>4. \A p \in Pages : Len(stacks'[p].data) <= STACK_SIZE
  BY <1>1, <1>2, <1>3, SizeAssumption DEF TypeOK, top
<1>5. ChainIntact'
  BY <1>1, <1>3, CurrentStack, FramesAssumption DEF ChainIntact, Pages
<1>6. \A p \in Chain : \A i \in DOMAIN stacks'[p].data :
        i \in DOMAIN stacks[p].data /\ stacks'[p].data[i] = stacks[p].data[i]
  BY <1>1, <1>2, <1>3, SMTT(30) DEF top
<1>7. EntriesDistinct'
  BY <1>1, <1>6 DEF EntriesDistinct
<1>8. f \in FreeFrames
  BY <1>1, <1>2 DEF FreeFrames, Entries, ToSet, top
<1>9. \A p \in Chain : \A i \in DOMAIN stacks[p].data :
        IF stacks[p].data[i] = f THEN p = cur /\ i = Len(top.data)
                                 ELSE i \in DOMAIN stacks'[p].data
  BY <1>1, <1>2, <1>3 DEF EntriesDistinct, top
<1>10. \A i \in DOMAIN stacks'[cur].data : stacks'[cur].data[i] # f
  BY <1>1, <1>2, <1>3, <1>6, <1>9
<1>11. FreeFrames' = FreeFrames \ {f}
  BY <1>1, <1>3, <1>6, <1>9, <1>10 DEF FreeFrames, Entries, ToSet
<1>12. QED
  BY <1>1, <1>3, <1>4, <1>5, <1>7, <1>8, <1>11

(* Going back to the previous stack drops the current page from the chain *)
(* and no frame: it is the empty one.                                      *)
LEMMA PrevEffect ==
  ASSUME TypeOK, ChainIntact, EntriesDistinct,
         top.data = <<>>, top.prev # 0,
         cur' = top.prev, chain' = Front(chain), UNCHANGED stacks
  PROVE  /\ FreeFrames' = FreeFrames
         /\ Chain' = Chain \ {cur}
         /\ cur' \in Pages
         /\ chain' \in Seq(Pages)
         /\ ChainIntact'
         /\ EntriesDistinct'
<1> DEFINE n == Len(chain)
<1>1. /\ n \in Nat /\ n >= 1
      /\ DOMAIN chain = 1 .. n
      /\ chain[n] = cur
      /\ chain # <<>> /\ chain \in Seq(Pages)
  BY CurrentStack DEF TypeOK, ChainIntact
<1>2. n >= 2
  BY <1>1 DEF ChainIntact, top
<1>3. /\ chain' \in Seq(Pages)
      /\ Len(chain') = n - 1
      /\ DOMAIN chain' = 1 .. n - 1
      /\ \A i \in 1 .. n - 1 : chain'[i] = chain[i]
  BY <1>1, FrontFacts
<1>4. cur' = chain[n - 1] /\ cur' \in Pages
  BY <1>1, <1>2, CurrentStack DEF ChainIntact, top
<1>5. \A i, j \in 1 .. n : chain[i] = chain[j] => i = j
  BY <1>1 DEF ChainIntact, IsInjective
<1>6. Chain' = Chain \ {cur}
  BY <1>1, <1>3, <1>5 DEF Chain, ToSet
<1>7. ChainIntact'
  <2>1. chain' # <<>> /\ chain'[1] = Root /\ chain'[Len(chain')] = cur'
    BY <1>1, <1>2, <1>3, <1>4 DEF ChainIntact
  <2>2. stacks'[Root].prev = 0
    BY DEF ChainIntact
  <2>3. \A i \in DOMAIN chain' \ {1} : stacks'[chain'[i]].prev = chain'[i - 1]
    BY <1>1, <1>3 DEF ChainIntact
  <2>4. IsInjective(chain')
    BY <1>3, <1>5 DEF IsInjective
  <2>5. QED
    BY <2>1, <2>2, <2>3, <2>4 DEF ChainIntact
<1>8. Entries(cur) = {}
  BY DEF Entries, ToSet, top
<1>9. \A p : Entries(p)' = Entries(p)
  BY DEF Entries
<1>10. FreeFrames' = FreeFrames
  BY <1>6, <1>8, <1>9 DEF FreeFrames
<1>11. EntriesDistinct'
  BY <1>6 DEF EntriesDistinct
<1>12. QED
  BY <1>3, <1>4, <1>6, <1>7, <1>10, <1>11

(* mark_free with room adds exactly the freed frame. *)
LEMMA PushHereEffect ==
  ASSUME TypeOK, ChainIntact, EntriesDistinct,
         NEW f \in Frames, f \notin FreeFrames, PushHere(f)
  PROVE  /\ FreeFrames' = FreeFrames \cup {f}
         /\ Chain' = Chain
         /\ stacks' \in [Pages -> Stack]
         /\ \A p \in Pages : Len(stacks'[p].data) <= STACK_SIZE
         /\ ChainIntact'
         /\ EntriesDistinct'
<1>1. /\ cur \in Chain /\ cur \in Pages
      /\ \A p \in Chain : p \in Pages /\ stacks[p].data \in Seq(Frames)
      /\ Chain' = Chain /\ UNCHANGED <<cur, chain>>
  BY CurrentStack DEF Chain, PushHere
<1> DEFINE n == Len(top.data)
           d == Append(top.data, f)
<1>2. /\ n \in Nat /\ n + 1 <= STACK_SIZE
      /\ DOMAIN top.data = 1 .. n
      /\ d \in Seq(Frames)
      /\ Len(d) = n + 1
      /\ DOMAIN d = 1 .. n + 1
      /\ \A i \in 1 .. n : d[i] = top.data[i]
      /\ d[n + 1] = f
  BY CurrentStack, AppendFacts, SizeAssumption DEF PushHere
<1>3. /\ \A p \in Pages : p # cur => stacks'[p] = stacks[p]
      /\ stacks'[cur].data = d
      /\ \A p \in Pages : stacks'[p].prev = stacks[p].prev
      /\ stacks' \in [Pages -> Stack]
  BY <1>1, <1>2 DEF TypeOK, Stack, top, PushHere
<1> HIDE DEF d
<1>4. \A p \in Pages : Len(stacks'[p].data) <= STACK_SIZE
  BY <1>1, <1>2, <1>3 DEF TypeOK
<1>5. ChainIntact'
  BY <1>1, <1>3, CurrentStack, FramesAssumption DEF ChainIntact, Pages
<1>6. \A p \in Chain : \A i \in DOMAIN stacks[p].data : stacks[p].data[i] # f
  BY DEF FreeFrames, Entries, ToSet
<1>7. \A p \in Chain : \A i \in DOMAIN stacks'[p].data :
        \/ /\ i \in DOMAIN stacks[p].data
           /\ stacks'[p].data[i] = stacks[p].data[i]
           /\ stacks'[p].data[i] # f
        \/ p = cur /\ i = n + 1 /\ stacks'[p].data[i] = f
  BY <1>1, <1>2, <1>3, <1>6 DEF top
<1>8. EntriesDistinct'
  BY <1>1, <1>7 DEF EntriesDistinct
<1>9. \A p \in Chain : \A i \in DOMAIN stacks[p].data :
        i \in DOMAIN stacks'[p].data /\ stacks'[p].data[i] = stacks[p].data[i]
  BY <1>1, <1>2, <1>3, SMTT(30) DEF top
<1>10. n + 1 \in DOMAIN stacks'[cur].data /\ stacks'[cur].data[n + 1] = f
  BY <1>2, <1>3
<1>11. FreeFrames' = FreeFrames \cup {f}
  BY <1>1, <1>7, <1>9, <1>10 DEF FreeFrames, Entries, ToSet
<1>12. QED
  BY <1>1, <1>3, <1>4, <1>5, <1>8, <1>11

(* mark_free on a full stack turns one free frame into the new current     *)
(* stack, with the freed frame as its only entry.                          *)
LEMMA PushNewEffect ==
  ASSUME TypeOK, ChainIntact, EntriesDistinct, FreeFrames \cap Chain = {},
         NEW f \in Frames, f \notin FreeFrames, f \notin Chain, PushNew(f)
  PROVE  \E new \in FreeFrames :
           /\ FreeFrames' = (FreeFrames \ {new}) \cup {f}
           /\ Chain' = Chain \cup {new}
           /\ cur' \in Pages
           /\ chain' \in Seq(Pages)
           /\ stacks' \in [Pages -> Stack]
           /\ \A p \in Pages : Len(stacks'[p].data) <= STACK_SIZE
           /\ ChainIntact'
           /\ EntriesDistinct'
<1> DEFINE n == Len(chain)
           new == Last(top.data)
           m == Len(top.data)
<1>1. /\ n \in Nat /\ n >= 1
      /\ DOMAIN chain = 1 .. n
      /\ \A i \in 1 .. n : chain[i] \in Pages
      /\ chain[n] = cur
      /\ cur \in Chain /\ cur \in Pages
      /\ chain \in Seq(Pages)
      /\ \A p \in Chain : p \in Pages /\ stacks[p].data \in Seq(Frames)
  BY CurrentStack DEF TypeOK
<1>2. top.data # <<>>
  BY CurrentStack, SizeAssumption DEF PushNew
<1>3. /\ m \in Nat /\ m >= 1
      /\ DOMAIN top.data = 1 .. m
      /\ new = top.data[m]
      /\ new \in Frames
      /\ Front(top.data) \in Seq(Frames)
      /\ Len(Front(top.data)) = m - 1
      /\ DOMAIN Front(top.data) = 1 .. m - 1
      /\ \A i \in 1 .. m - 1 : Front(top.data)[i] = top.data[i]
  <2>1. top.data \in Seq(Frames)
    BY CurrentStack
  <2>2. QED
    BY <1>2, <2>1, FrontFacts
<1>4. new \in FreeFrames /\ new \notin Chain /\ new \in Pages /\ new # cur
  BY <1>1, <1>3 DEF FreeFrames, Entries, ToSet, top, Pages
<1>5. /\ stacks' = [stacks EXCEPT
                      ![cur].data = Front(@),
                      ![cur].next = new,
                      ![new] = [EmptyStack(cur) EXCEPT !.data = <<f>>]]
      /\ cur' = new /\ chain' = Append(chain, new)
  BY DEF PushNew
<1>6. /\ chain' \in Seq(Pages)
      /\ Len(chain') = n + 1
      /\ DOMAIN chain' = 1 .. n + 1
      /\ \A i \in 1 .. n : chain'[i] = chain[i]
      /\ chain'[n + 1] = new
  BY <1>1, <1>4, <1>5, AppendFacts
<1>7. Chain' = Chain \cup {new}
  BY <1>1, <1>6 DEF Chain, ToSet
<1> HIDE DEF new
<1>8. [EmptyStack(cur) EXCEPT !.data = <<f>>] = [prev |-> cur, next |-> 0, data |-> <<f>>]
  BY DEF EmptyStack
<1>9. /\ \A p \in Pages : p # cur /\ p # new => stacks'[p] = stacks[p]
      /\ stacks'[cur] = [top EXCEPT !.data = Front(@), !.next = new]
      /\ stacks'[new] = [prev |-> cur, next |-> 0, data |-> <<f>>]
      /\ DOMAIN stacks' = Pages
  BY <1>1, <1>4, <1>5, <1>8 DEF TypeOK, top
<1>10. /\ stacks'[cur].data = Front(top.data)
       /\ stacks'[cur].prev = stacks[cur].prev
       /\ stacks'[new].data = <<f>>
       /\ stacks'[new].prev = cur
       /\ stacks'[cur] \in Stack
       /\ stacks'[new] \in Stack
       /\ Len(<<f>>) = 1 /\ DOMAIN <<f>> = 1 .. 1 /\ <<f>>[1] = f
  <2>1. <<f>> \in Seq(Frames) /\ Len(<<f>>) = 1 /\ DOMAIN <<f>> = 1 .. 1 /\ <<f>>[1] = f
    OBVIOUS
  <2>2. stacks'[new].data = <<f>> /\ stacks'[new].prev = cur
    BY <1>9
  <2>3. stacks'[new] \in Stack
    BY <2>1, <1>1, <1>9 DEF Stack
  <2>4. top \in [prev : Pages \cup {0}, next : Pages \cup {0}, data : Seq(Frames)]
    BY CurrentStack DEF Stack
  <2>5. /\ stacks'[cur].data = Front(top.data)
        /\ stacks'[cur].prev = top.prev
        /\ stacks'[cur] \in Stack
    BY <2>4, <1>3, <1>4, <1>9 DEF Stack
  <2>6. QED
    BY <2>1, <2>2, <2>3, <2>5 DEF top
<1>11. stacks' \in [Pages -> Stack]
  <2>1. stacks' = [p \in Pages |-> stacks'[p]]
    BY <1>1, <1>4, <1>5 DEF TypeOK
  <2>2. \A p \in Pages : stacks'[p] \in Stack
    BY <1>9, <1>10 DEF TypeOK
  <2>3. QED
    BY <2>1, <2>2
<1>12. \A p \in Pages : Len(stacks'[p].data) <= STACK_SIZE
  <2>1. m <= STACK_SIZE
    BY <1>1 DEF TypeOK, top
  <2>2. Len(stacks'[cur].data) <= STACK_SIZE /\ Len(stacks'[new].data) <= STACK_SIZE
    BY <2>1, <1>3, <1>10, SizeAssumption
  <2>3. QED
    BY <2>2, <1>9 DEF TypeOK
<1>13. ChainIntact'
  <2>1. \A i \in 1 .. n : chain[i] # new
    BY <1>1, <1>4 DEF Chain, ToSet
  <2>2. chain' # <<>> /\ chain'[1] = Root /\ chain'[Len(chain')] = cur'
    BY <1>1, <1>5, <1>6 DEF ChainIntact, new
  <2>3. Root \in Pages /\ chain[1] = Root /\ stacks[Root].prev = 0 /\ Root # new
    BY <1>1, <2>1 DEF Pages, ChainIntact
  <2>4. \A p \in Pages \ {new} : stacks'[p].prev = stacks[p].prev
    BY <1>9, <1>10
  <2>5. stacks'[Root].prev = 0
    BY <2>3, <2>4
  <2>6. \A i \in 1 .. n + 1 : i # 1 => stacks'[chain'[i]].prev = chain'[i - 1]
    <3> SUFFICES ASSUME NEW i \in 1 .. n + 1, i # 1
                 PROVE  stacks'[chain'[i]].prev = chain'[i - 1]
      OBVIOUS
    <3>1. CASE i = n + 1
      BY <3>1, <1>1, <1>6, <1>10
    <3>2. CASE i \in 1 .. n
      <4>1. stacks[chain[i]].prev = chain[i - 1]
        BY <3>2, <1>1 DEF ChainIntact
      <4>2. chain[i] \in Pages \ {new} /\ chain'[i] = chain[i] /\ chain'[i - 1] = chain[i - 1]
        BY <3>2, <1>1, <1>6, <2>1
      <4>3. QED
        BY <4>1, <4>2, <2>4
    <3>3. QED
      BY <3>1, <3>2, <1>1
  <2>7. IsInjective(chain')
    BY <1>1, <1>6, <2>1 DEF ChainIntact, IsInjective
  <2>8. QED
    BY <1>6, <2>2, <2>5, <2>6, <2>7 DEF ChainIntact
<1>14. f # new
  BY <1>4
<1>15. \A p \in Chain' : \A i \in DOMAIN stacks'[p].data :
         \/ /\ p \in Chain /\ p # new
            /\ i \in DOMAIN stacks[p].data
            /\ stacks'[p].data[i] = stacks[p].data[i]
            /\ stacks[p].data[i] # f
            /\ ~(p = cur /\ i = m)
         \/ p = new /\ i = 1 /\ stacks'[p].data[i] = f
  <2>1. \A p \in Chain : \A i \in DOMAIN stacks[p].data : stacks[p].data[i] # f
    BY DEF FreeFrames, Entries, ToSet
  <2>2. ASSUME NEW p \in Chain, p # cur
        PROVE  p # new /\ stacks'[p].data = stacks[p].data
    BY <2>2, <1>1, <1>4, <1>9
  <2>3. \A i \in DOMAIN stacks'[cur].data :
          /\ i \in DOMAIN stacks[cur].data /\ i # m
          /\ stacks'[cur].data[i] = stacks[cur].data[i]
    BY <1>3, <1>10 DEF top
  <2>4. \A i \in DOMAIN stacks'[new].data : i = 1 /\ stacks'[new].data[i] = f
    BY <1>10
  <2>5. QED
    BY <1>1, <1>4, <1>7, <2>1, <2>2, <2>3, <2>4
<1>16. EntriesDistinct'
  BY <1>15 DEF EntriesDistinct
<1>17. \A p \in Chain : \A i \in DOMAIN stacks[p].data :
         IF stacks[p].data[i] = new
           THEN p = cur /\ i = m
           ELSE i \in DOMAIN stacks'[p].data /\ stacks'[p].data[i] = stacks[p].data[i]
  <2>1. ASSUME NEW p \in Chain, NEW i \in DOMAIN stacks[p].data,
               stacks[p].data[i] = new
        PROVE  p = cur /\ i = m
    BY <2>1, <1>1, <1>3 DEF EntriesDistinct, top
  <2>2. ASSUME NEW p \in Chain, p # cur
        PROVE  stacks'[p].data = stacks[p].data
    BY <2>2, <1>1, <1>4, <1>9
  <2>3. \A i \in DOMAIN stacks[cur].data : i # m =>
          i \in DOMAIN stacks'[cur].data /\ stacks'[cur].data[i] = stacks[cur].data[i]
    BY <1>3, <1>10 DEF top
  <2>4. stacks[cur].data[m] = new
    BY <1>3 DEF top
  <2>5. QED
    BY <2>1, <2>2, <2>3, <2>4
<1>18. 1 \in DOMAIN stacks'[new].data /\ stacks'[new].data[1] = f
  BY <1>10
<1>19. FreeFrames' = (FreeFrames \ {new}) \cup {f}
  <2>1. ASSUME NEW g \in FreeFrames' PROVE g \in (FreeFrames \ {new}) \cup {f}
    <3>1. PICK p \in Chain' : \E i \in DOMAIN stacks'[p].data : g = stacks'[p].data[i]
      BY <2>1 DEF FreeFrames, Entries, ToSet
    <3>2. CASE p = new
      BY <3>1, <3>2, <1>4, <1>15
    <3>3. CASE p # new
      <4>1. PICK i \in DOMAIN stacks[p].data :
              p \in Chain /\ g = stacks[p].data[i] /\ ~(p = cur /\ i = m)
        BY <3>1, <3>3, <1>15
      <4>2. g \in FreeFrames
        BY <4>1 DEF FreeFrames, Entries, ToSet
      <4>3. QED
        BY <4>1, <4>2, <1>17
    <3>4. QED
      BY <3>2, <3>3
  <2>2. ASSUME NEW g \in (FreeFrames \ {new}) \cup {f} PROVE g \in FreeFrames'
    BY <2>2, <1>7, <1>17, <1>18 DEF FreeFrames, Entries, ToSet
  <2>3. QED
    BY <2>1, <2>2
<1>20. cur' \in Pages
  BY <1>4, <1>5 DEF new
<1>21. QED
  BY <1>4, <1>6, <1>7, <1>11, <1>12, <1>13, <1>16, <1>19, <1>20

-----------------------------------------------------------------------------
(* What every step does to the sets the properties speak about. *)
Step(free2, chain2, held2, unclaimed2) ==
  /\ FreeFrames' = free2
  /\ Chain' = chain2
  /\ held' = held2
  /\ unclaimed' = unclaimed2

StackInv == TypeOK /\ ChainIntact /\ EntriesDistinct

(* The first step of get keeps the invariant of the stacks, and the frame  *)
(* it hands out moves from the pool to the caller.                         *)
LEMMA GetPopStep ==
  ASSUME IInv, GetPop
  PROVE  /\ StackInv'
         /\ \E f \in FreeFrames :
              Step(FreeFrames \ {f}, Chain, held \cup {f}, unclaimed)
<1>1. /\ Last(top.data) \in FreeFrames
      /\ FreeFrames' = FreeFrames \ {Last(top.data)}
      /\ Chain' = Chain
      /\ stacks' \in [Pages -> Stack]
      /\ \A p \in Pages : Len(stacks'[p].data) <= STACK_SIZE
      /\ ChainIntact' /\ EntriesDistinct'
  BY PopEffect DEF IInv, GetPop
<1>2. Last(top.data) \in Frames
  BY CurrentStack, FrontFacts DEF IInv, GetPop
<1>3. StackInv'
  BY <1>1, <1>2 DEF StackInv, IInv, TypeOK, GetPop
<1>4. QED
  BY <1>1, <1>3 DEF Step, GetPop

(* The step of get back to the stack below keeps the invariant of the      *)
(* stacks and hands out nothing.                                           *)
LEMMA GetPrevStep ==
  ASSUME IInv, GetPrev
  PROVE  StackInv' /\ Step(FreeFrames, Chain \ {cur}, held, unclaimed)
<1>1. /\ FreeFrames' = FreeFrames
      /\ Chain' = Chain \ {cur}
      /\ cur' \in Pages
      /\ chain' \in Seq(Pages)
      /\ ChainIntact' /\ EntriesDistinct'
  BY PrevEffect DEF IInv, GetPrev
<1>2. StackInv'
  BY <1>1 DEF StackInv, IInv, TypeOK, GetPrev
<1>3. QED
  BY <1>1, <1>2 DEF Step, GetPrev

(* A freed frame that is on no stack and is no stack page goes into the    *)
(* pool; at most one free frame becomes a stack page.                      *)
LEMMA MarkFreeStep ==
  ASSUME IInv, NEW f \in Frames, f \notin FreeFrames, f \notin Chain, MarkFree(f),
         getting' \in BOOLEAN, panicked' \in BOOLEAN,
         held' \subseteq Frames, unclaimed' \subseteq Frames
  PROVE  /\ StackInv'
         /\ \/ Step(FreeFrames \cup {f}, Chain, held', unclaimed')
            \/ \E b \in FreeFrames :
                 Step((FreeFrames \ {b}) \cup {f}, Chain \cup {b}, held', unclaimed')
<1>1. CASE PushHere(f)
  <2>1. /\ FreeFrames' = FreeFrames \cup {f}
        /\ Chain' = Chain
        /\ stacks' \in [Pages -> Stack]
        /\ \A p \in Pages : Len(stacks'[p].data) <= STACK_SIZE
        /\ ChainIntact' /\ EntriesDistinct'
    BY <1>1, PushHereEffect DEF IInv
  <2>2. StackInv'
    BY <1>1, <2>1 DEF StackInv, IInv, TypeOK, PushHere
  <2>3. QED
    BY <2>1, <2>2 DEF Step
<1>2. CASE PushNew(f)
  <2>1. PICK b \in FreeFrames :
          /\ FreeFrames' = (FreeFrames \ {b}) \cup {f}
          /\ Chain' = Chain \cup {b}
          /\ cur' \in Pages
          /\ chain' \in Seq(Pages)
          /\ stacks' \in [Pages -> Stack]
          /\ \A p \in Pages : Len(stacks'[p].data) <= STACK_SIZE
          /\ ChainIntact' /\ EntriesDistinct'
    <3>1. TypeOK /\ ChainIntact /\ EntriesDistinct /\ FreeFrames \cap Chain = {}
      BY DEF IInv, Exclusive
    <3>2. QED
      BY <1>2, <3>1, PushNewEffect
  <2>2. StackInv'
    BY <2>1 DEF StackInv, TypeOK
  <2>3. QED
    BY <2>1, <2>2 DEF Step
<1>3. QED
  BY <1>1, <1>2 DEF MarkFree

(* A caller that frees a frame it owns: the hypotheses of MarkFreeStep     *)
(* hold, because an owned frame is neither on a stack nor a stack page.    *)
LEMMA FreeStep ==
  ASSUME IInv, NEW f \in Frames, BootFree(f) \/ Free(f)
  PROVE  /\ StackInv'
         /\ f \notin FreeFrames /\ f \notin Chain /\ f \in held \cup unclaimed
         /\ \/ Step(FreeFrames \cup {f}, Chain, held', unclaimed')
            \/ \E b \in FreeFrames :
                 Step((FreeFrames \ {b}) \cup {f}, Chain \cup {b}, held', unclaimed')
         /\ \/ f \in held /\ held' = held \ {f} /\ unclaimed' = unclaimed
            \/ f \in unclaimed /\ held' = held /\ unclaimed' = unclaimed \ {f}
<1>1. f \in held \cup unclaimed
  BY DEF BootFree, Free
<1>2. f \notin FreeFrames /\ f \notin Chain
  BY <1>1 DEF IInv, Exclusive
<1>3. /\ MarkFree(f)
      /\ getting' \in BOOLEAN /\ panicked' \in BOOLEAN
      /\ held' \subseteq Frames /\ unclaimed' \subseteq Frames
  BY DEF IInv, TypeOK, BootFree, Free
<1>4. \/ f \in held /\ held' = held \ {f} /\ unclaimed' = unclaimed
      \/ f \in unclaimed /\ held' = held /\ unclaimed' = unclaimed \ {f}
  BY DEF BootFree, Free
<1>5. QED
  BY <1>1, <1>2, <1>3, <1>4, MarkFreeStep

(* Steps that touch no stack. *)
LEMMA IdleStep ==
  ASSUME IInv, UNCHANGED <<stacks, cur, held, unclaimed, chain>>,
         getting' \in BOOLEAN, panicked' \in BOOLEAN
  PROVE  IInv' /\ Step(FreeFrames, Chain, held, unclaimed)
<1>1. Chain' = Chain /\ \A p : Entries(p)' = Entries(p)
  BY DEF Chain, Entries
<1>2. FreeFrames' = FreeFrames
  BY <1>1 DEF FreeFrames
<1>3. TypeOK' /\ ChainIntact' /\ EntriesDistinct' /\ Exclusive'
  BY <1>1, <1>2 DEF IInv, TypeOK, ChainIntact, EntriesDistinct, Exclusive
<1>4. QED
  BY <1>1, <1>2, <1>3 DEF IInv, Step

(* mm_physical_init_stack establishes the inductive invariant.             *)
LEMMA InitIInv == Init => IInv
<1> SUFFICES ASSUME Init PROVE IInv
  OBVIOUS
<1>1. Root \in Pages /\ <<Root>> \in Seq(Pages) /\ <<>> \in Seq(Frames)
  BY DEF Pages
<1>2. stacks \in [Pages -> Stack]
  BY <1>1 DEF Init, EmptyStack, Stack
<1>3. \A p \in Pages : stacks[p].data = <<>> /\ stacks[p].prev = 0
  BY DEF Init, EmptyStack
<1>4. Chain = {Root} /\ DOMAIN chain = {1} /\ Len(chain) = 1 /\ chain[1] = Root
  BY DEF Init, Chain, ToSet
<1>5. \A p \in Chain : Entries(p) = {} /\ DOMAIN stacks[p].data = {}
  BY <1>1, <1>3, <1>4 DEF Entries, ToSet
<1>6. FreeFrames = {}
  BY <1>5 DEF FreeFrames
<1>7. TypeOK
  <2>1. \A p \in Pages : Len(stacks[p].data) <= STACK_SIZE
    BY <1>3, SizeAssumption
  <2>2. QED
    BY <1>1, <1>2, <2>1 DEF TypeOK, Init
<1>8. ChainIntact
  BY <1>1, <1>3, <1>4 DEF ChainIntact, Init, IsInjective
<1>9. EntriesDistinct /\ Exclusive
  BY <1>4, <1>5, <1>6, FramesAssumption DEF EntriesDistinct, Exclusive, Init
<1>10. QED
  BY <1>7, <1>8, <1>9 DEF IInv

(* Every operation of the allocator, and every step inside mm_physical_get, *)
(* preserves the inductive invariant.                                      *)
LEMMA NextIInv == IInv /\ [Next]_vars => IInv'
<1> SUFFICES ASSUME IInv, [Next]_vars PROVE IInv'
  OBVIOUS
<1>1. CASE GetPop
  <2>1. PICK f \in FreeFrames : Step(FreeFrames \ {f}, Chain, held \cup {f}, unclaimed)
    BY <1>1, GetPopStep
  <2>2. Exclusive'
    BY <2>1 DEF IInv, Exclusive, Step
  <2>3. QED
    BY <1>1, <2>2, GetPopStep DEF IInv, StackInv
<1>2. CASE GetPrev
  <2>1. StackInv' /\ Step(FreeFrames, Chain \ {cur}, held, unclaimed)
    BY <1>2, GetPrevStep
  <2>2. QED
    BY <2>1 DEF IInv, Exclusive, Step, StackInv
<1>3. CASE CallGet \/ GetPanic
  <2>1. /\ UNCHANGED <<stacks, cur, held, unclaimed, chain>>
        /\ getting' \in BOOLEAN /\ panicked' \in BOOLEAN
    BY <1>3 DEF CallGet, GetPanic, IInv, TypeOK
  <2>2. QED
    BY <2>1, IdleStep
<1>4. ASSUME NEW f \in Frames, BootFree(f) \/ Free(f)
      PROVE  IInv'
  <2>1. /\ StackInv'
        /\ f \notin FreeFrames /\ f \notin Chain /\ f \in held \cup unclaimed
        /\ \/ Step(FreeFrames \cup {f}, Chain, held', unclaimed')
           \/ \E b \in FreeFrames :
                Step((FreeFrames \ {b}) \cup {f}, Chain \cup {b}, held', unclaimed')
        /\ \/ f \in held /\ held' = held \ {f} /\ unclaimed' = unclaimed
           \/ f \in unclaimed /\ held' = held /\ unclaimed' = unclaimed \ {f}
    BY <1>4, FreeStep
  <2>2. Exclusive'
    BY <2>1 DEF IInv, Exclusive, Step
  <2>3. QED
    BY <2>1, <2>2 DEF IInv, StackInv
<1>5. CASE UNCHANGED vars
  BY <1>5, IdleStep DEF vars, IInv, TypeOK
<1>6. QED
  BY <1>1, <1>2, <1>3, <1>4, <1>5 DEF Next, GetStep

(* The inductive invariant holds in every reachable state.                 *)
LEMMA Inductive == Spec => []IInv
BY InitIInv, NextIInv, PTL DEF Spec

(* The variables of the allocator keep their types; a stack never holds    *)
(* more than STACK_SIZE entries (it never writes past its page).           *)
THEOREM TypeCorrect == Spec => []TypeOK
<1>1. IInv => TypeOK
  BY DEF IInv
<1>2. QED
  BY <1>1, Inductive, PTL

(* mm_physical_get's walk along the prev links stays on the stack pages    *)
(* and ends at the root stack.                                             *)
THEOREM ChainCorrect == Spec => []ChainIntact
<1>1. IInv => ChainIntact
  BY DEF IInv
<1>2. QED
  BY <1>1, Inductive, PTL

(* mm_physical_get never hands out a frame twice, nor one that holds a     *)
(* stack, as long as callers free only frames they own.                    *)
THEOREM NoSharing == Spec => []NoSharedFrame
<1>1. IInv => NoSharedFrame
  BY DEF IInv, NoSharedFrame
<1>2. QED
  BY <1>1, Inductive, PTL

-----------------------------------------------------------------------------
(* A frame leaves circulation only as the page of a stack get has emptied. *)
THEOREM LossBounded == Spec => LossOnlyByEmptiedStack
<1> DEFINE A == /\ Lost \subseteq Lost'
                /\ Lost' # Lost => Lost' \ Lost = {cur} /\ Entries(cur) = {}
<1>1. IInv /\ [Next]_vars => [A]_vars
  <2> SUFFICES ASSUME IInv, Next PROVE A
    BY DEF vars
  <2>1. CASE GetPop
    <3>1. PICK f \in FreeFrames : Step(FreeFrames \ {f}, Chain, held \cup {f}, unclaimed)
      BY <2>1, GetPopStep
    <3>2. Lost' = Lost
      BY <3>1 DEF Lost, Step
    <3>3. QED
      BY <3>2
  <2>2. CASE GetPrev
    <3>1. Step(FreeFrames, Chain \ {cur}, held, unclaimed)
      BY <2>2, GetPrevStep
    <3>2. Entries(cur) = {}
      BY <2>2 DEF GetPrev, Entries, ToSet, top
    <3>3. Lost \subseteq Lost' /\ Lost' \subseteq Lost \cup {cur}
      BY <3>1 DEF Lost, Step
    <3>4. QED
      BY <3>2, <3>3
  <2>3. CASE CallGet \/ GetPanic
    <3>1. Step(FreeFrames, Chain, held, unclaimed)
      <4>1. /\ UNCHANGED <<stacks, cur, held, unclaimed, chain>>
            /\ getting' \in BOOLEAN /\ panicked' \in BOOLEAN
        BY <2>3 DEF CallGet, GetPanic, IInv, TypeOK
      <4>2. QED
        BY <4>1, IdleStep
    <3>2. Lost' = Lost
      BY <3>1 DEF Lost, Step
    <3>3. QED
      BY <3>2
  <2>4. ASSUME NEW f \in Frames, BootFree(f) \/ Free(f)
        PROVE  A
    <3>1. /\ f \notin FreeFrames /\ f \notin Chain /\ f \in held \cup unclaimed
          /\ \/ Step(FreeFrames \cup {f}, Chain, held', unclaimed')
             \/ \E b \in FreeFrames :
                  Step((FreeFrames \ {b}) \cup {f}, Chain \cup {b}, held', unclaimed')
          /\ \/ f \in held /\ held' = held \ {f} /\ unclaimed' = unclaimed
             \/ f \in unclaimed /\ held' = held /\ unclaimed' = unclaimed \ {f}
      BY <2>4, FreeStep
    <3>2. Lost' = Lost
      BY <3>1 DEF Lost, Step
    <3>3. QED
      BY <3>2
  <2>5. QED
    BY <2>1, <2>2, <2>3, <2>4 DEF Next, GetStep
<1>2. QED
  BY <1>1, Inductive, PTL DEF Spec, LossOnlyByEmptiedStack

-----------------------------------------------------------------------------
(* When 0 is no usable frame, a prev field of 0 marks the root stack only, *)
(* so an empty stack without predecessor means an empty pool.              *)
LEMMA PanicMeansEmpty ==
  ASSUME 0 \notin Frames, IInv, GetPanic
  PROVE  FreeFrames = {}
<1>1. Len(chain) = 1
  <2> SUFFICES ASSUME Len(chain) # 1 PROVE FALSE
    OBVIOUS
  <2>1. Len(chain) \in DOMAIN chain \ {1} /\ Len(chain) - 1 \in DOMAIN chain
    BY CurrentStack DEF IInv
  <2>2. top.prev = chain[Len(chain) - 1]
    BY <2>1 DEF IInv, ChainIntact, top
  <2>3. chain[Len(chain) - 1] # 0
    BY <2>1, CurrentStack, FramesAssumption DEF IInv, Pages
  <2>4. QED
    BY <2>2, <2>3 DEF GetPanic
<1>2. Chain = {cur}
  BY <1>1, CurrentStack DEF IInv, Chain, ToSet
<1>3. Entries(cur) = {}
  BY DEF GetPanic, Entries, ToSet, top
<1>4. QED
  BY <1>2, <1>3 DEF FreeFrames

(* Provided the firmware does not report frame 0 as usable memory, the     *)
(* panic "out of physical memory" is raised only with no frame left.       *)
THEOREM PanicSound ==
  ASSUME 0 \notin Frames
  PROVE  Spec => []PanicOnlyWhenExhausted
<1>1. Init => PanicOnlyWhenExhausted
  BY DEF Init, PanicOnlyWhenExhausted
<1>2. IInv /\ PanicOnlyWhenExhausted /\ [Next]_vars => PanicOnlyWhenExhausted'
  <2> SUFFICES ASSUME IInv, PanicOnlyWhenExhausted, [Next]_vars, panicked'
               PROVE  FreeFrames' = {}
    BY DEF PanicOnlyWhenExhausted
  <2>1. CASE panicked
    <3>1. UNCHANGED vars
      BY <2>1 DEF Next, GetStep
    <3>2. Step(FreeFrames, Chain, held, unclaimed)
      BY <3>1, IdleStep DEF vars, IInv, TypeOK
    <3>3. QED
      BY <2>1, <3>2 DEF PanicOnlyWhenExhausted, Step
  <2>2. CASE ~panicked
    <3>1. GetPanic
      BY <2>2 DEF Next, GetStep, GetPop, GetPrev, CallGet, BootFree, Free, vars
    <3>2. Step(FreeFrames, Chain, held, unclaimed)
      BY <3>1, IdleStep DEF GetPanic, IInv, TypeOK
    <3>3. QED
      BY <3>1, <3>2, PanicMeansEmpty DEF Step
  <2>3. QED
    BY <2>1, <2>2
<1>3. QED
  BY <1>1, <1>2, Inductive, PTL DEF Spec

(* Under the same condition the stacks of frames implement the abstract    *)
(* pool: every step takes one free frame, adds one, gives up on an empty   *)
(* pool, or changes nothing a caller can see.                              *)
THEOREM Refinement ==
  ASSUME 0 \notin Frames
  PROVE  Spec => ImplementsPool
<1>1. Init => Pool!Init
  <2> SUFFICES ASSUME Init PROVE Pool!Init
    OBVIOUS
  <2>1. Chain = {Root} /\ stacks[Root].data = <<>>
    BY DEF Init, Chain, ToSet, Pages, EmptyStack
  <2>2. Entries(Root) = {}
    BY <2>1 DEF Entries, ToSet
  <2>3. FreeFrames = {}
    BY <2>1, <2>2 DEF FreeFrames
  <2>4. QED
    BY <2>3 DEF Init, Pool!Init
<1>2. IInv /\ [Next]_vars => [Pool!Next]_(Pool!vars)
  <2> SUFFICES ASSUME IInv, [Next]_vars PROVE [Pool!Next]_(Pool!vars)
    OBVIOUS
  <2>1. CASE ~panicked /\ GetPop
    <3>1. PICK f \in FreeFrames : Step(FreeFrames \ {f}, Chain, held \cup {f}, unclaimed)
      BY <2>1, GetPopStep
    <3>2. Pool!Alloc
      BY <2>1, <3>1 DEF Pool!Alloc, Step, GetPop
    <3>3. QED
      BY <2>1, <3>2 DEF Pool!Next
  <2>2. CASE GetPrev
    <3>1. Step(FreeFrames, Chain \ {cur}, held, unclaimed)
      BY <2>2, GetPrevStep
    <3>2. QED
      BY <2>2, <3>1 DEF Pool!vars, Step, GetPrev
  <2>3. CASE ~panicked /\ GetPanic
    <3>1. Step(FreeFrames, Chain, held, unclaimed)
      BY <2>3, IdleStep DEF GetPanic, IInv, TypeOK
    <3>2. Pool!OutOfMemory
      BY <2>3, <3>1, PanicMeansEmpty DEF Pool!OutOfMemory, Step, GetPanic
    <3>3. QED
      BY <2>3, <3>2 DEF Pool!Next
  <2>4. CASE CallGet \/ UNCHANGED vars
    <3>1. Step(FreeFrames, Chain, held, unclaimed) /\ panicked' = panicked
      BY <2>4, IdleStep DEF CallGet, IInv, TypeOK, vars
    <3>2. QED
      BY <3>1 DEF Pool!vars, Step
  <2>5. ASSUME ~panicked, NEW f \in Frames, BootFree(f) \/ Free(f)
        PROVE  Pool!Next
    <3>1. /\ \/ Step(FreeFrames \cup {f}, Chain, held', unclaimed')
             \/ \E b \in FreeFrames :
                  Step((FreeFrames \ {b}) \cup {f}, Chain \cup {b}, held', unclaimed')
          /\ \/ f \in held /\ held' = held \ {f} /\ unclaimed' = unclaimed
             \/ f \in unclaimed /\ held' = held /\ unclaimed' = unclaimed \ {f}
      BY <2>5, FreeStep
    <3>2. Pool!Release(f)
      BY <3>1 DEF Pool!Release, Pool!Remainders, Step
    <3>3. panicked' = panicked
      BY <2>5 DEF BootFree, Free
    <3>4. Pool!Claim \/ Pool!GiveBack
      BY <3>1, <3>2, <3>3 DEF Pool!Claim, Pool!GiveBack
    <3>5. QED
      BY <2>5, <3>4 DEF Pool!Next
  <2>6. QED
    BY <2>1, <2>2, <2>3, <2>4, <2>5 DEF Next, GetStep
<1>3. QED
  BY <1>1, <1>2, Inductive, PTL DEF Spec, ImplementsPool, Pool!Spec
=============================================================================
