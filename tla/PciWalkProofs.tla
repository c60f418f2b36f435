---------------------------- MODULE PciWalkProofs ----------------------------
(***************************************************************************)
(* The walk of kernel/pci/walk.c calls its handler for every function      *)
(* behind the host bridge, for each once: proofs for every topology that   *)
(* firmware can set up, every number of devices and functions.             *)
(***************************************************************************)
EXTENDS PciWalk, TLAPS

(* The functions the walk can get to on its buses. *)
Walkable(p) == {f \in p.present : f[3] = 0 \/ <<f[1], f[2]>> \in p.multi}

(* The bus behind a function, 0 if it is no bridge. *)
Behind(p, f) == IF f \in DOMAIN p.secondary THEN p.secondary[f] ELSE 0

(* The functions a call has still to come to by its own loop. *)
Ahead(p, c) ==
  {f \in Walkable(p) :
     /\ f[1] = c.bus
     /\ c.walk = "bus" => f[2] >= c.device
     /\ c.walk = "device" => f[2] = c.device /\ f[3] >= c.function}

(* The buses the walk has entered when the functions in h are handled. *)
Entered(p, h) == {0} \cup {Behind(p, f) : f \in h}

(* A call of pci_walk_bus or pci_walk_device. *)
Call == [walk : {"bus", "device"}, bus : Nat, device : Nat, function : Nat]

IsCall(p, c) ==
  /\ c \in Call
  /\ c.walk = "bus" => c.function = 0
  /\ c.walk = "device" => <<c.bus, c.device>> \in p.multi

(* The calls on the stack: on buses that were entered, and what is ahead   *)
(* of one is neither handled nor ahead of another.                         *)
Stack(p, s, h, e) ==
  /\ s \in Seq(Call)
  /\ \A k \in 1 .. Len(s) : IsCall(p, s[k]) /\ s[k].bus \in e
  /\ \A k \in 1 .. Len(s) : Ahead(p, s[k]) \cap h = {}
  /\ \A k, l \in 1 .. Len(s) : k # l => Ahead(p, s[k]) \cap Ahead(p, s[l]) = {}

(* No function of these buses is forgotten. *)
Covered(p, s, h, e) ==
  \A f \in Walkable(p) :
    f[1] \in e => f \in h \/ \E k \in 1 .. Len(s) : f \in Ahead(p, s[k])

Walking(p, s, list) ==
  LET h == ToSet(list)
      e == Entered(p, h)
  IN /\ list \in Seq(Walkable(p)) /\ IsInjective(list)
     /\ \A f \in h : f[1] \in e
     /\ Stack(p, s, h, e) /\ Covered(p, s, h, e)

(* Where device 0 of bus 0 is a single host bridge: pci_walk_devices has   *)
(* not begun, or walks bus 0.                                              *)
WalkInv ==
  /\ pci \in Topologies
  /\ ~MultiFunction(0, 0) =>
       \/ roots = <<0>> /\ calls = <<>> /\ handled = <<>>
       \/ /\ roots = <<>>
          /\ Walking(pci, calls, handled)
          /\ Entered(pci, ToSet(handled)) \subseteq Reachable({0})
-----------------------------------------------------------------------------
(* What is known of a topology. *)
TopologyOK(p) ==
  /\ \A f \in p.present : /\ f = <<f[1], f[2], f[3]>>
                          /\ f[2] \in 0 .. LastDevice /\ f[3] \in 0 .. LastFunction
  /\ \A f \in p.present : <<f[1], f[2]>> \in p.multi => <<f[1], f[2], 0>> \in p.present
  /\ \A f \in p.present : Behind(p, f) # 0 => f \in Walkable(p)
  /\ \A f, g \in p.present : Behind(p, f) = Behind(p, g) /\ Behind(p, f) # 0 => f = g

LEMMA TopologyFacts ==
  ASSUME NEW p \in Topologies
  PROVE  TopologyOK(p)
<1>1. \A f \in p.present : /\ f = <<f[1], f[2], f[3]>>
                           /\ f[2] \in 0 .. LastDevice /\ f[3] \in 0 .. LastFunction
  BY TopologyAssumption
<1>2. \A f \in p.present : <<f[1], f[2]>> \in p.multi => <<f[1], f[2], 0>> \in p.present
  BY TopologyAssumption
<1>3. \A f \in p.present : Behind(p, f) # 0 => f \in Walkable(p)
  BY TopologyAssumption DEF Behind, Walkable
<1>4. \A f, g \in p.present : Behind(p, f) = Behind(p, g) /\ Behind(p, f) # 0 => f = g
  BY TopologyAssumption DEF Behind
<1> QED
  BY <1>1, <1>2, <1>3, <1>4 DEF TopologyOK

(* A call is made: what is ahead of it was not ahead of any other. *)
LEMMA Pushed ==
  ASSUME NEW p, NEW t, NEW h, NEW e, Stack(p, t, h, e),
         NEW c, IsCall(p, c), c.bus \in e,
         Ahead(p, c) \cap h = {},
         \A k \in 1 .. Len(t) : Ahead(p, t[k]) \cap Ahead(p, c) = {}
  PROVE  /\ Stack(p, Append(t, c), h, e)
         /\ \A f : f \in Ahead(p, c) \/ (\E k \in 1 .. Len(t) : f \in Ahead(p, t[k])) =>
              \E k \in 1 .. Len(Append(t, c)) : f \in Ahead(p, Append(t, c)[k])
<1> DEFINE u == Append(t, c)
<1>1. t \in Seq(Call) /\ Len(t) \in Nat /\ c \in Call
  BY DEF Stack, IsCall
<1>2. /\ Len(u) = Len(t) + 1 /\ u[Len(t) + 1] = c
      /\ \A k \in 1 .. Len(t) : u[k] = t[k]
  BY <1>1
<1>3. u \in Seq(Call)
  BY <1>1
<1> HIDE DEF u
<1>4. \A k \in 1 .. Len(u) : \/ k \in 1 .. Len(t) /\ u[k] = t[k]
                             \/ k = Len(t) + 1 /\ u[k] = c
  <2>1. \A k \in 1 .. Len(u) : k \in 1 .. Len(t) \/ k = Len(t) + 1
    BY <1>1, <1>2
  <2> QED
    BY <1>2, <2>1
<1>5. \A k \in 1 .. Len(u) : IsCall(p, u[k]) /\ u[k].bus \in e /\ Ahead(p, u[k]) \cap h = {}
  BY <1>4 DEF Stack
<1>6. \A k, l \in 1 .. Len(u) : k # l => Ahead(p, u[k]) \cap Ahead(p, u[l]) = {}
  <2> SUFFICES ASSUME NEW k \in 1 .. Len(u), NEW l \in 1 .. Len(u), k # l
               PROVE  Ahead(p, u[k]) \cap Ahead(p, u[l]) = {}
    OBVIOUS
  <2>1. CASE k \in 1 .. Len(t) /\ l \in 1 .. Len(t)
    BY <1>2, <2>1 DEF Stack
  <2>2. CASE k \in 1 .. Len(t) /\ l = Len(t) + 1
    BY <1>2, <2>2
  <2>3. CASE k = Len(t) + 1 /\ l \in 1 .. Len(t)
    BY <1>2, <2>3
  <2> QED
    BY <1>4, <2>1, <2>2, <2>3
<1>7. ASSUME NEW f, f \in Ahead(p, c) \/ (\E k \in 1 .. Len(t) : f \in Ahead(p, t[k]))
      PROVE  \E k \in 1 .. Len(u) : f \in Ahead(p, u[k])
  <2>1. CASE f \in Ahead(p, c)
    <3>1. Len(t) + 1 \in 1 .. Len(u)
      BY <1>1, <1>2
    <3> QED
      BY <1>2, <2>1, <3>1
  <2>2. CASE \E k \in 1 .. Len(t) : f \in Ahead(p, t[k])
    <3>1. \A k \in 1 .. Len(t) : k \in 1 .. Len(u)
      BY <1>1, <1>2
    <3> QED
      BY <1>2, <2>2, <3>1
  <2> QED
    BY <1>7, <2>1, <2>2
<1> QED
  BY <1>3, <1>5, <1>6, <1>7 DEF Stack, u

(* A call returns when nothing is ahead of it. *)
LEMMA Popped ==
  ASSUME NEW p, NEW s, NEW h, NEW e, Stack(p, s, h, e), Covered(p, s, h, e), s # <<>>,
         Ahead(p, s[Len(s)]) = {},
         NEW t, t = Front(s)
  PROVE  Stack(p, t, h, e) /\ Covered(p, t, h, e)
<1>1. s \in Seq(Call) /\ Len(s) \in Nat \ {0}
  BY DEF Stack
<1>2. t \in Seq(Call) /\ Len(t) = Len(s) - 1
      /\ \A k \in 1 .. Len(t) : t[k] = s[k] /\ k \in 1 .. Len(s)
  <2>1. t = [k \in 1 .. Len(s) - 1 |-> s[k]]
    BY <1>1 DEF Front
  <2>2. \A k \in 1 .. Len(s) - 1 : s[k] \in Call /\ k \in 1 .. Len(s)
    BY <1>1
  <2>3. t \in [1 .. Len(s) - 1 -> Call] /\ Len(s) - 1 \in Nat
    BY <1>1, <2>1, <2>2
  <2>4. t \in Seq(Call) /\ Len(t) = Len(s) - 1
    BY <2>3
  <2> QED
    BY <2>1, <2>2, <2>4
<1>3. Stack(p, t, h, e)
  BY <1>2 DEF Stack
<1>4. Covered(p, t, h, e)
  <2> SUFFICES ASSUME NEW f \in Walkable(p), f[1] \in e, f \notin h
               PROVE  \E k \in 1 .. Len(t) : f \in Ahead(p, t[k])
    BY DEF Covered
  <2>1. PICK k \in 1 .. Len(s) : f \in Ahead(p, s[k])
    BY DEF Covered
  <2>2. k # Len(s)
    BY <2>1
  <2>3. k \in 1 .. Len(t)
    BY <1>1, <1>2, <2>2
  <2> QED
    BY <1>2, <2>1, <2>3
<1> QED
  BY <1>3, <1>4

-----------------------------------------------------------------------------
(* What is ahead of a call whose loop has ended: nothing. *)
LEMMA FinishedAhead ==
  ASSUME NEW p, TopologyOK(p), NEW c, IsCall(p, c),
         IF c.walk = "bus" THEN c.device > LastDevice ELSE c.function > LastFunction
  PROVE  Ahead(p, c) = {}
<1> SUFFICES ASSUME NEW f \in Ahead(p, c) PROVE FALSE
  OBVIOUS
<1>1. f \in p.present /\ f[2] \in 0 .. LastDevice /\ f[3] \in 0 .. LastFunction
  BY DEF Ahead, Walkable, TopologyOK
<1>2. c.device \in Nat /\ c.function \in Nat /\ c.walk \in {"bus", "device"}
  BY DEF IsCall, Call
<1>3. CASE c.walk = "bus"
  BY <1>1, <1>2, <1>3, WalkAssumption DEF Ahead
<1>4. CASE c.walk = "device"
  BY <1>1, <1>2, <1>4, WalkAssumption DEF Ahead
<1> QED
  BY <1>2, <1>3, <1>4

(* The functions the loop passes when it advances. *)
Passed(p, c) ==
  {f \in Walkable(p) :
     /\ f[1] = c.bus /\ f[2] = c.device
     /\ c.walk = "device" => f[3] = c.function}

LEMMA StepAhead ==
  ASSUME NEW p, TopologyOK(p), NEW c, IsCall(p, c)
  PROVE  /\ IsCall(p, Step(c)) /\ Step(c).bus = c.bus
         /\ Passed(p, c) \subseteq Ahead(p, c)
         /\ Ahead(p, Step(c)) = Ahead(p, c) \ Passed(p, c)
<1>1. c.device \in Nat /\ c.function \in Nat /\ c.walk \in {"bus", "device"}
  BY DEF IsCall, Call
<1>2. \A f \in Walkable(p) : f[2] \in Nat /\ f[3] \in Nat
  BY WalkAssumption DEF Walkable, TopologyOK
<1>3. CASE c.walk = "bus"
  <2>1. /\ Step(c) \in Call /\ Step(c).walk = "bus" /\ Step(c).bus = c.bus
        /\ Step(c).device = c.device + 1 /\ Step(c).function = c.function
    BY <1>3 DEF Step, IsCall, Call
  <2>2. IsCall(p, Step(c))
    BY <1>3, <2>1 DEF IsCall
  <2>3. \A f \in Walkable(p) : f[2] >= c.device + 1 <=> f[2] >= c.device /\ f[2] # c.device
    BY <1>1, <1>2
  <2> HIDE DEF Step
  <2>4. Ahead(p, Step(c)) = Ahead(p, c) \ Passed(p, c)
    BY <1>3, <2>1, <2>3 DEF Ahead, Passed
  <2>5. Passed(p, c) \subseteq Ahead(p, c)
    BY <1>1, <1>3 DEF Ahead, Passed
  <2> QED
    BY <2>1, <2>2, <2>4, <2>5
<1>4. CASE c.walk = "device"
  <2>1. /\ Step(c) \in Call /\ Step(c).walk = "device" /\ Step(c).bus = c.bus
        /\ Step(c).device = c.device /\ Step(c).function = c.function + 1
    BY <1>4 DEF Step, IsCall, Call
  <2>2. IsCall(p, Step(c))
    BY <1>4, <2>1 DEF IsCall
  <2>3. \A f \in Walkable(p) :
          f[3] >= c.function + 1 <=> f[3] >= c.function /\ f[3] # c.function
    BY <1>1, <1>2
  <2> HIDE DEF Step
  <2>4. Ahead(p, Step(c)) = Ahead(p, c) \ Passed(p, c)
    BY <1>4, <2>1, <2>3 DEF Ahead, Passed
  <2>5. Passed(p, c) \subseteq Ahead(p, c)
    BY <1>1, <1>4 DEF Ahead, Passed
  <2> QED
    BY <2>1, <2>2, <2>4, <2>5
<1> QED
  BY <1>1, <1>3, <1>4

(* The three things a running call can find.  No vendor id: it passes no   *)
(* function, also of a multi-function device.                              *)
LEMMA PassedNothing ==
  ASSUME NEW p, TopologyOK(p), NEW c, IsCall(p, c),
         <<c.bus, c.device, c.function>> \notin p.present
  PROVE  Passed(p, c) = {}
<1> SUFFICES ASSUME NEW f \in Passed(p, c) PROVE FALSE
  OBVIOUS
<1>1. f \in p.present /\ f = <<f[1], f[2], f[3]>> /\ f[1] = c.bus /\ f[2] = c.device
  BY DEF Passed, Walkable, TopologyOK
<1>2. CASE c.walk = "device"
  BY <1>1, <1>2 DEF Passed
<1>3. CASE c.walk = "bus"
  <2>1. <<f[1], f[2], 0>> \in p.present
    BY <1>1 DEF Passed, Walkable, TopologyOK
  <2>2. c.function = 0
    BY <1>3 DEF IsCall
  <2> QED
    BY <1>1, <2>1, <2>2
<1> QED
  BY <1>2, <1>3 DEF IsCall, Call

(* A function to be handled: it passes this one alone. *)
LEMMA PassedOne ==
  ASSUME NEW p, TopologyOK(p), NEW c, IsCall(p, c),
         <<c.bus, c.device, c.function>> \in p.present,
         c.walk = "device" \/ <<c.bus, c.device>> \notin p.multi
  PROVE  Passed(p, c) = {<<c.bus, c.device, c.function>>}
<1> DEFINE g == <<c.bus, c.device, c.function>>
<1>1. g[1] = c.bus /\ g[2] = c.device /\ g[3] = c.function
  OBVIOUS
<1> HIDE DEF g
<1>2. g \in Passed(p, c)
  BY <1>1 DEF Passed, Walkable, IsCall, Call, g
<1>3. ASSUME NEW f \in Passed(p, c) PROVE f = g
  <2>1. f = <<f[1], f[2], f[3]>> /\ f[1] = c.bus /\ f[2] = c.device
    BY DEF Passed, Walkable, TopologyOK
  <2>2. f[3] = c.function
    <3>1. CASE c.walk = "device"
      BY <3>1 DEF Passed
    <3>2. CASE c.walk = "bus"
      BY <2>1, <3>2 DEF Passed, Walkable, IsCall
    <3> QED
      BY <3>1, <3>2 DEF IsCall, Call
  <2> QED
    BY <2>1, <2>2 DEF g
<1> QED
  BY <1>2, <1>3 DEF g

(* A multi-function device: pci_walk_device gets what is passed. *)
LEMMA PassedDevice ==
  ASSUME NEW p, TopologyOK(p), NEW c, IsCall(p, c), c.walk = "bus",
         <<c.bus, c.device>> \in p.multi
  PROVE  /\ IsCall(p, WalkDevice(c.bus, c.device))
         /\ WalkDevice(c.bus, c.device).bus = c.bus
         /\ Ahead(p, WalkDevice(c.bus, c.device)) = Passed(p, c)
<1> DEFINE d == WalkDevice(c.bus, c.device)
<1>1. /\ d.walk = "device" /\ d.bus = c.bus /\ d.device = c.device /\ d.function = 0
      /\ d \in Call
  BY DEF WalkDevice, IsCall, Call
<1> HIDE DEF d
<1>2. \A f \in Walkable(p) : f[3] >= 0
  BY WalkAssumption DEF Walkable, TopologyOK
<1>3. Ahead(p, d) = Passed(p, c)
  BY <1>1, <1>2 DEF Ahead, Passed
<1>4. IsCall(p, d)
  BY <1>1 DEF IsCall
<1> QED
  BY <1>1, <1>3, <1>4 DEF d

(* pci_walk_bus has all functions of its bus ahead of it. *)
LEMMA BusAhead ==
  ASSUME NEW p, TopologyOK(p), NEW b \in Nat
  PROVE  /\ IsCall(p, WalkBus(b)) /\ WalkBus(b).bus = b
         /\ Ahead(p, WalkBus(b)) = {f \in Walkable(p) : f[1] = b}
<1> DEFINE c == WalkBus(b)
<1>1. c.walk = "bus" /\ c.bus = b /\ c.device = 0 /\ c.function = 0 /\ c \in Call
  BY DEF WalkBus, Call
<1> HIDE DEF c
<1>2. \A f \in Walkable(p) : f[2] >= 0
  BY WalkAssumption DEF Walkable, TopologyOK
<1>3. IsCall(p, c) /\ Ahead(p, c) = {f \in Walkable(p) : f[1] = b}
  BY <1>1, <1>2 DEF IsCall, Ahead
<1> QED
  BY <1>1, <1>3 DEF c

(* The list of the functions handled, with one more. *)
LEMMA HandledMore ==
  ASSUME NEW W, NEW list \in Seq(W), IsInjective(list), NEW g \in W, g \notin ToSet(list)
  PROVE  /\ Append(list, g) \in Seq(W) /\ IsInjective(Append(list, g))
         /\ ToSet(Append(list, g)) = ToSet(list) \cup {g}
<1> DEFINE u == Append(list, g)
           n == Len(list)
<1>1. n \in Nat /\ DOMAIN list = 1 .. n /\ u \in Seq(W) /\ DOMAIN u = 1 .. n + 1
      /\ u[n + 1] = g /\ \A k \in 1 .. n : u[k] = list[k]
  OBVIOUS
<1> HIDE DEF u, n
<1>2. \A k \in 1 .. n + 1 : k \in 1 .. n \/ k = n + 1
  BY <1>1
<1>3. n + 1 \in 1 .. n + 1 /\ \A k \in 1 .. n : k \in 1 .. n + 1
  BY <1>1
<1>4. \A k \in 1 .. n : list[k] # g
  BY <1>1 DEF ToSet
<1>5. IsInjective(u)
  BY <1>1, <1>2, <1>4 DEF IsInjective
<1>6. ToSet(u) = ToSet(list) \cup {g}
  BY <1>1, <1>2, <1>3 DEF ToSet
<1> QED
  BY <1>1, <1>5, <1>6 DEF u

(* A stack stays one when more functions are handled that are ahead of no  *)
(* call, and more buses entered.                                           *)
LEMMA StackMore ==
  ASSUME NEW p, NEW s, NEW h, NEW e, Stack(p, s, h, e), NEW x, NEW e2, e \subseteq e2,
         \A k \in 1 .. Len(s) : Ahead(p, s[k]) \cap x = {}
  PROVE  Stack(p, s, h \cup x, e2)
BY DEF Stack

(* pci_walk_devices begins with bus 0. *)
LEMMA WalkBegins ==
  ASSUME NEW p, TopologyOK(p)
  PROVE  Walking(p, <<WalkBus(0)>>, <<>>) /\ Entered(p, ToSet(<<>>)) = {0}
<1> DEFINE c == WalkBus(0)
           s == <<c>>
<1>1. ToSet(<<>>) = {} /\ IsInjective(<<>>) /\ <<>> \in Seq(Walkable(p))
  BY DEF ToSet, IsInjective
<1>2. Entered(p, {}) = {0}
  BY DEF Entered
<1>3. IsCall(p, c) /\ c.bus = 0 /\ Ahead(p, c) = {f \in Walkable(p) : f[1] = 0}
  BY BusAhead
<1>4. c \in Call
  BY <1>3 DEF IsCall
<1> HIDE DEF c
<1>5. s \in Seq(Call) /\ Len(s) = 1 /\ s[1] = c
  BY <1>4
<1> HIDE DEF s
<1>6. \A k \in 1 .. Len(s) : k = 1
  BY <1>5
<1>7. Stack(p, s, {}, {0})
  BY <1>3, <1>5, <1>6 DEF Stack
<1>8. Covered(p, s, {}, {0})
  <2>1. 1 \in 1 .. Len(s)
    BY <1>5
  <2> QED
    BY <1>3, <1>5, <2>1 DEF Covered
<1> QED
  BY <1>1, <1>2, <1>7, <1>8 DEF Walking, s, c

(* The walk after a return. *)
LEMMA WalkReturns ==
  ASSUME NEW p, TopologyOK(p), NEW s, NEW list, Walking(p, s, list), s # <<>>,
         LET c == s[Len(s)]
         IN IF c.walk = "bus" THEN c.device > LastDevice ELSE c.function > LastFunction
  PROVE  Walking(p, Front(s), list)
<1> DEFINE h == ToSet(list)
           e == Entered(p, h)
<1>1. Stack(p, s, h, e) /\ Covered(p, s, h, e)
  BY DEF Walking
<1>2. Len(s) \in 1 .. Len(s)
  BY <1>1 DEF Stack
<1>3. IsCall(p, s[Len(s)])
  BY <1>1, <1>2 DEF Stack
<1>4. Ahead(p, s[Len(s)]) = {}
  BY <1>3, FinishedAhead
<1>5. Stack(p, Front(s), h, e) /\ Covered(p, Front(s), h, e)
  BY <1>1, <1>4, Popped
<1> QED
  BY <1>5 DEF Walking

(* The stack with the loop of the running call advanced. *)
Onward(s) == [s EXCEPT ![Len(s)] = Step(s[Len(s)])]

(* The running call goes on past some functions, which are ahead of no     *)
(* call then; nothing else changes.                                        *)
LEMMA OnwardFacts ==
  ASSUME NEW p, TopologyOK(p), NEW s, NEW h, NEW e, Stack(p, s, h, e), Covered(p, s, h, e),
         s # <<>>
  PROVE  LET x == Passed(p, s[Len(s)])
             t == Onward(s)
         IN /\ IsCall(p, s[Len(s)]) /\ s[Len(s)].bus \in e
            /\ Stack(p, t, h, e) /\ Covered(p, t, h \cup x, e)
            /\ \A k \in 1 .. Len(t) : Ahead(p, t[k]) \cap x = {}
            /\ x \cap h = {}
<1>1. Len(s) \in 1 .. Len(s)
  BY DEF Stack
<1>2. IsCall(p, s[Len(s)]) /\ s[Len(s)].bus \in e
  BY <1>1 DEF Stack
<1>3. PICK c, x : /\ c = Step(s[Len(s)]) /\ x = Passed(p, s[Len(s)])
                  /\ IsCall(p, c) /\ c.bus \in e
                  /\ x \subseteq Ahead(p, s[Len(s)])
                  /\ Ahead(p, c) = Ahead(p, s[Len(s)]) \ x
  BY <1>2, StepAhead
<1>4. PICK t : t = [s EXCEPT ![Len(s)] = c]
  OBVIOUS
<1>5. Len(s) \in Nat \ {0} /\ DOMAIN s = 1 .. Len(s)
  BY DEF Stack
<1>6. /\ t \in Seq(Call) /\ Len(t) = Len(s)
      /\ t[Len(s)] = c /\ \A k \in 1 .. Len(s) : k # Len(s) => t[k] = s[k]
  <2>1. s \in Seq(Call) /\ c \in Call
    BY <1>3 DEF Stack, IsCall
  <2> QED
    BY <1>5, <1>4, <2>1
<1>7. \A k \in 1 .. Len(t) : Ahead(p, t[k]) \subseteq Ahead(p, s[k])
  BY <1>3, <1>5, <1>6
<1>8. Stack(p, t, h, e)
  <2>1. \A k \in 1 .. Len(t) : IsCall(p, t[k]) /\ t[k].bus \in e
    BY <1>3, <1>5, <1>6 DEF Stack
  <2>2. \A k \in 1 .. Len(t) : Ahead(p, t[k]) \cap h = {}
    BY <1>6, <1>7 DEF Stack
  <2>3. \A k, l \in 1 .. Len(t) : k # l => Ahead(p, t[k]) \cap Ahead(p, t[l]) = {}
    BY <1>6, <1>7 DEF Stack
  <2> QED
    BY <1>6, <2>1, <2>2, <2>3 DEF Stack
<1>9. Covered(p, t, h \cup x, e)
  <2> SUFFICES ASSUME NEW f \in Walkable(p), f[1] \in e, f \notin h \cup x
               PROVE  \E k \in 1 .. Len(t) : f \in Ahead(p, t[k])
    BY DEF Covered
  <2>1. PICK k \in 1 .. Len(s) : f \in Ahead(p, s[k])
    BY DEF Covered
  <2>2. f \in Ahead(p, t[k])
    BY <1>3, <1>5, <1>6, <2>1
  <2> QED
    BY <1>6, <2>1, <2>2
<1>10. \A k \in 1 .. Len(t) : Ahead(p, t[k]) \cap x = {}
  <2> SUFFICES ASSUME NEW k \in 1 .. Len(t) PROVE Ahead(p, t[k]) \cap x = {}
    OBVIOUS
  <2>1. CASE k = Len(s)
    BY <1>3, <1>6, <2>1
  <2>2. CASE k # Len(s)
    <3>1. k \in 1 .. Len(s) /\ Len(s) \in 1 .. Len(s)
      <4>1. Len(t) = Len(s)
        BY <1>6
      <4> QED
        BY <1>5, <4>1
    <3>2. Ahead(p, s[k]) \cap Ahead(p, s[Len(s)]) = {}
      BY <2>2, <3>1 DEF Stack
    <3>3. t[k] = s[k]
      BY <1>6, <2>2, <3>1
    <3> QED
      BY <1>3, <3>2, <3>3
  <2> QED
    BY <2>1, <2>2
<1>11. x \cap h = {}
  BY <1>1, <1>3 DEF Stack
<1> QED
  BY <1>2, <1>3, <1>4, <1>8, <1>9, <1>10, <1>11 DEF Onward

(* The walk after a function that is absent. *)
LEMMA WalkSkips ==
  ASSUME NEW p, TopologyOK(p), NEW s, NEW list, Walking(p, s, list), s # <<>>,
         LET c == s[Len(s)] IN <<c.bus, c.device, c.function>> \notin p.present
  PROVE  Walking(p, Onward(s), list)
<1> DEFINE h == ToSet(list)
           e == Entered(p, h)
           x == Passed(p, s[Len(s)])
<1>1. Stack(p, s, h, e) /\ Covered(p, s, h, e)
  BY DEF Walking
<1>2. /\ IsCall(p, s[Len(s)])
      /\ Stack(p, Onward(s), h, e) /\ Covered(p, Onward(s), h \cup x, e)
  BY <1>1, OnwardFacts
<1>3. x = {}
  BY <1>2, PassedNothing
<1>4. Covered(p, Onward(s), h, e)
  BY <1>2, <1>3
<1> QED
  BY <1>2, <1>4 DEF Walking

(* The walk inside a multi-function device. *)
LEMMA WalkEnters ==
  ASSUME NEW p, TopologyOK(p), NEW s, NEW list, Walking(p, s, list), s # <<>>,
         s[Len(s)].walk = "bus",
         <<s[Len(s)].bus, s[Len(s)].device>> \in p.multi
  PROVE  Walking(p, Append(Onward(s), WalkDevice(s[Len(s)].bus, s[Len(s)].device)), list)
<1> DEFINE h == ToSet(list)
           e == Entered(p, h)
           c == s[Len(s)]
           d == WalkDevice(c.bus, c.device)
           t == Onward(s)
           u == Append(t, d)
           x == Passed(p, c)
<1>1. Stack(p, s, h, e) /\ Covered(p, s, h, e)
  BY DEF Walking
<1>2. /\ IsCall(p, c) /\ c.bus \in e
      /\ Stack(p, t, h, e) /\ Covered(p, t, h \cup x, e)
      /\ \A k \in 1 .. Len(t) : Ahead(p, t[k]) \cap x = {}
      /\ x \cap h = {}
  BY <1>1, OnwardFacts
<1>3. IsCall(p, d) /\ d.bus = c.bus /\ Ahead(p, d) = x
  BY <1>2, PassedDevice
<1> HIDE DEF x, t, d, c, h, e
<1>4. /\ Stack(p, u, h, e)
      /\ \A f : f \in x \/ (\E k \in 1 .. Len(t) : f \in Ahead(p, t[k])) =>
           \E k \in 1 .. Len(u) : f \in Ahead(p, u[k])
  BY <1>2, <1>3, Pushed
<1>5. Covered(p, u, h, e)
  BY <1>2, <1>4 DEF Covered
<1> QED
  BY <1>4, <1>5 DEF Walking, t, d, c, h, e

(* The function a call is at. *)
Position(c) == <<c.bus, c.device, c.function>>

(* It is the only one its loop stands for: the walk handles it. *)
Single(p, c) == c.walk = "device" \/ <<c.bus, c.device>> \notin p.multi

(* The state after a function is handled. *)
HandledBy(p, s, list, g) ==
  /\ g[1] \in Entered(p, ToSet(list))
  /\ ToSet(Append(list, g)) = ToSet(list) \cup {g}
  /\ Behind(p, g) = 0 => Walking(p, Onward(s), Append(list, g))
  /\ Behind(p, g) # 0 =>
       Walking(p, Append(Onward(s), WalkBus(Behind(p, g))), Append(list, g))

(* The walk after a function that is handled: if it is a bridge, its bus   *)
(* has not been entered before, because no other bridge leads to it.       *)
LEMMA WalkHandles ==
  ASSUME NEW p, TopologyOK(p), NEW s, NEW list, Walking(p, s, list), s # <<>>,
         NEW g, g = Position(s[Len(s)]), g \in p.present,
         Single(p, s[Len(s)]), Behind(p, g) \in Nat
  PROVE  HandledBy(p, s, list, g)
<1> DEFINE h == ToSet(list)
           e == Entered(p, h)
           c == s[Len(s)]
           t == Onward(s)
           x == Passed(p, c)
           b == Behind(p, g)
           h2 == h \cup {g}
           e2 == Entered(p, h2)
<1>1. /\ Stack(p, s, h, e) /\ Covered(p, s, h, e)
      /\ list \in Seq(Walkable(p)) /\ IsInjective(list)
      /\ \A f \in h : f[1] \in e
  BY DEF Walking
<1>2. /\ IsCall(p, c) /\ c.bus \in e
      /\ Stack(p, t, h, e) /\ Covered(p, t, h \cup x, e)
      /\ \A k \in 1 .. Len(t) : Ahead(p, t[k]) \cap x = {}
      /\ x \cap h = {}
  BY <1>1, OnwardFacts
<1>3. x = {g}
  BY <1>2, PassedOne DEF Position, Single
<1>4. g \in Walkable(p) /\ g \notin h /\ g[1] \in e
  <2>1. g \in Walkable(p)
    BY <1>3 DEF Passed
  <2>2. g[1] = c.bus
    BY DEF Position
  <2> QED
    BY <1>2, <1>3, <2>1, <2>2
<1> HIDE DEF h, e, t, x, c
<1>5. Append(list, g) \in Seq(Walkable(p)) /\ IsInjective(Append(list, g))
      /\ ToSet(Append(list, g)) = h2
  BY <1>1, <1>4, HandledMore DEF h
<1>6. e2 = e \cup {b}
  BY DEF Entered, e
<1> HIDE DEF h2, e2, b
<1>7. e \subseteq e2 /\ 0 \in e
  BY <1>6 DEF e, Entered
<1>8. \A f \in h2 : f[1] \in e2
  BY <1>1, <1>4, <1>7 DEF h2
<1>9. Stack(p, t, h2, e2)
  <2>1. \A k \in 1 .. Len(t) : Ahead(p, t[k]) \cap {g} = {}
    BY <1>2, <1>3
  <2> QED
    BY <1>2, <1>7, <2>1, StackMore DEF h2
<1>10. Covered(p, t, h2, e)
  BY <1>2, <1>3 DEF h2
<1>11. ASSUME b = 0 PROVE Walking(p, t, Append(list, g))
  <2>1. e2 = e
    BY <1>6, <1>7, <1>11
  <2>2. Covered(p, t, h2, e2)
    BY <1>10, <2>1
  <2> QED
    BY <1>5, <1>8, <1>9, <2>2 DEF Walking, e2
<1>12. ASSUME b # 0 PROVE Walking(p, Append(t, WalkBus(b)), Append(list, g))
  <2> DEFINE w == WalkBus(b)
             u == Append(t, w)
  <2>1. b \notin e
    <3>1. SUFFICES ASSUME NEW f \in h, Behind(p, f) = b PROVE FALSE
      BY <1>12 DEF e, Entered
    <3>2. f \in Walkable(p)
      BY <1>1 DEF h, ToSet
    <3>3. f \in p.present
      BY <3>2 DEF Walkable
    <3>4. f = g
      BY <1>12, <3>1, <3>3 DEF TopologyOK, b
    <3> QED
      BY <1>4, <3>4
  <2>2. IsCall(p, w) /\ w.bus = b /\ Ahead(p, w) = {f \in Walkable(p) : f[1] = b}
    BY BusAhead DEF b
  <2> HIDE DEF w
  <2>3. w.bus \in e2
    BY <1>6, <2>2
  <2>4. Ahead(p, w) \cap h2 = {}
    BY <1>1, <1>4, <2>1, <2>2 DEF h2
  <2>5. \A k \in 1 .. Len(t) : Ahead(p, t[k]) \cap Ahead(p, w) = {}
    <3>1. \A k \in 1 .. Len(t) : t[k].bus \in e
      BY <1>2 DEF Stack
    <3>2. \A k \in 1 .. Len(t) : \A f \in Ahead(p, t[k]) : f[1] \in e
      BY <3>1 DEF Ahead
    <3> QED
      BY <2>1, <2>2, <3>2
  <2>6. /\ Stack(p, u, h2, e2)
        /\ \A f : f \in Ahead(p, w) \/ (\E k \in 1 .. Len(t) : f \in Ahead(p, t[k])) =>
             \E k \in 1 .. Len(u) : f \in Ahead(p, u[k])
    BY <1>9, <2>2, <2>3, <2>4, <2>5, Pushed
  <2> HIDE DEF u
  <2>7. Covered(p, u, h2, e2)
    <3> SUFFICES ASSUME NEW f \in Walkable(p), f[1] \in e2, f \notin h2
                 PROVE  \E k \in 1 .. Len(u) : f \in Ahead(p, u[k])
      BY DEF Covered
    <3>1. CASE f[1] \in e
      BY <1>10, <2>6, <3>1 DEF Covered
    <3>2. CASE f[1] = b
      BY <2>2, <2>6, <3>2
    <3> QED
      BY <1>6, <3>1, <3>2
  <2> QED
    BY <1>5, <1>8, <2>6, <2>7 DEF Walking, e2, u, w
<1> QED
  BY <1>4, <1>5, <1>11, <1>12 DEF HandledBy, h, e, t, b, h2

-----------------------------------------------------------------------------
(* A bus that lies behind a function of a reachable bus is reachable. *)
LEMMA ReachableOn ==
  ASSUME NEW g \in pci.present, g[1] \in Reachable({0})
  PROVE  Behind(pci, g) \in Reachable({0})
<1> DEFINE All == {0} \cup AllBuses
           b == Behind(pci, g)
<1>1. CASE b = 0
  BY <1>1 DEF Reachable
<1>2. CASE b # 0
  <2>1. g \in DOMAIN pci.secondary /\ b = pci.secondary[g]
    BY <1>2 DEF Behind
  <2>2. b \in AllBuses
    BY <2>1 DEF AllBuses
  <2> HIDE DEF b
  <2>3. ASSUME NEW s \in SUBSET All, {0} \subseteq s, Closed(s) PROVE b \in s
    <3>1. g[1] \in s
      BY <2>3 DEF Reachable
    <3> QED
      BY <1>2, <2>1, <2>3, <3>1 DEF Closed
  <2> QED
    BY <2>2, <2>3 DEF Reachable, b
<1> QED
  BY <1>1, <1>2

(* The invariant holds when pci_walk_devices is called. *)
LEMMA InitWalk == Init => WalkInv
BY DEF Init, WalkInv, Roots

(* The buses behind bridges are numbers. *)
LEMMA BehindNat ==
  ASSUME NEW p \in Topologies, NEW f
  PROVE  Behind(p, f) \in Nat
BY TopologyAssumption DEF Behind

(* Every step of the walk keeps the invariant. *)
LEMMA NextWalk == WalkInv /\ [Next]_vars => WalkInv'
<1> SUFFICES ASSUME WalkInv, [Next]_vars PROVE WalkInv'
  OBVIOUS
<1>1. pci' = pci /\ pci \in Topologies
  BY DEF WalkInv, Next, NextRoot, Return, Skip, EnterDevice, HandleFunction, vars
<1>2. Reachable({0})' = Reachable({0})
  BY <1>1 DEF Reachable, Closed, AllBuses, Buses
<1>3. MultiFunction(0, 0)' = MultiFunction(0, 0)
  BY <1>1 DEF MultiFunction
<1>4. CASE MultiFunction(0, 0)
  BY <1>1, <1>3, <1>4 DEF WalkInv
<1>5. ASSUME ~MultiFunction(0, 0) PROVE WalkInv'
  <2> DEFINE e == Entered(pci, ToSet(handled))
  <2>1. TopologyOK(pci)
    BY <1>1, TopologyFacts
  <2>2. SUFFICES \/ roots' = <<0>> /\ calls' = <<>> /\ handled' = <<>>
                 \/ /\ roots' = <<>> /\ Walking(pci, calls', handled')
                    /\ Entered(pci, ToSet(handled')) \subseteq Reachable({0})
    BY <1>1, <1>2, <1>3 DEF WalkInv
  <2>3. CASE UNCHANGED vars
    BY <1>5, <2>3 DEF WalkInv, vars
  <2>4. CASE NextRoot
    <3>1. roots = <<0>> /\ handled = <<>>
      BY <1>5, <2>4 DEF NextRoot, WalkInv
    <3>2. roots' = <<>> /\ calls' = <<WalkBus(0)>> /\ handled' = <<>>
      BY <2>4, <3>1 DEF NextRoot
    <3>3. 0 \in Reachable({0})
      BY DEF Reachable
    <3> QED
      BY <2>1, <3>2, <3>3, WalkBegins
  <2>5. ASSUME calls # <<>>
        PROVE  /\ roots = <<>> /\ Walking(pci, calls, handled)
               /\ e \subseteq Reachable({0})
    BY <1>5, <2>5 DEF WalkInv
  <2>6. Advanced = Onward(calls)
    BY DEF Advanced, Onward
  <2>7. CASE Return
    <3>1. Walking(pci, Front(calls), handled)
      BY <2>1, <2>5, <2>7, WalkReturns DEF Return, Finished, call, Last
    <3> QED
      BY <2>5, <2>7, <3>1 DEF Return
  <2>8. CASE Skip
    <3>1. Walking(pci, Onward(calls), handled)
      BY <2>1, <2>5, <2>8, WalkSkips DEF Skip, Running, Vendor, call, Last
    <3> QED
      BY <2>5, <2>6, <2>8, <3>1 DEF Skip, Running
  <2>9. CASE EnterDevice
    <3>1. Walking(pci, Append(Onward(calls), WalkDevice(call.bus, call.device)), handled)
      BY <2>1, <2>5, <2>9, WalkEnters DEF EnterDevice, Running, MultiFunction, call, Last
    <3> QED
      BY <2>5, <2>6, <2>9, <3>1 DEF EnterDevice, Running
  <2>10. CASE HandleFunction
    <3> DEFINE g == <<call.bus, call.device, call.function>>
               b == Behind(pci, g)
    <3>1. /\ g \in pci.present /\ calls # <<>> /\ roots' = roots
          /\ call.walk = "device" \/ <<call.bus, call.device>> \notin pci.multi
          /\ handled' = Append(handled, g)
      BY <2>10 DEF HandleFunction, Running, Vendor, MultiFunction
    <3>2. calls' = IF b # 0 THEN Append(Onward(calls), WalkBus(b)) ELSE Onward(calls)
      BY <2>6, <2>10 DEF HandleFunction, Secondary, Behind
    <3>3. b \in Nat
      BY <1>1, BehindNat
    <3>4. g = Position(calls[Len(calls)]) /\ Single(pci, calls[Len(calls)])
      BY <3>1 DEF call, Last, Position, Single
    <3> HIDE DEF g
    <3>5. /\ g[1] \in e /\ ToSet(handled') = ToSet(handled) \cup {g}
          /\ b = 0 => Walking(pci, Onward(calls), handled')
          /\ b # 0 => Walking(pci, Append(Onward(calls), WalkBus(b)), handled')
      <4>1. Walking(pci, calls, handled)
        BY <2>5, <3>1
      <4>2. calls # <<>> /\ g \in pci.present
        BY <3>1
      <4>3. HandledBy(pci, calls, handled, g)
        BY <2>1, <3>3, <3>4, <4>1, <4>2, WalkHandles
      <4> QED
        BY <3>1, <4>3 DEF HandledBy
    <3>6. Walking(pci, calls', handled')
      BY <3>2, <3>5
    <3>7. b \in Reachable({0})
      BY <2>5, <3>1, <3>5, ReachableOn
    <3>8. Entered(pci, ToSet(handled')) \subseteq Reachable({0})
      BY <2>5, <3>1, <3>5, <3>7 DEF Entered
    <3> QED
      BY <2>5, <3>1, <3>6, <3>8
  <2> QED
    BY <2>3, <2>4, <2>7, <2>8, <2>9, <2>10 DEF Next
<1> QED
  BY <1>4, <1>5

(* The inductive invariant of the walk. *)
THEOREM WalkInvCorrect == Spec => []WalkInv
BY InitWalk, NextWalk, PTL DEF Spec

(* When the walk is over, the buses it has entered are all that can be     *)
(* reached, and every function on them was handled.                        *)
LEMMA WalkOver == WalkInv => WalkComplete
<1> SUFFICES ASSUME WalkInv, Done, ~MultiFunction(0, 0)
             PROVE  ToSet(handled) = On(Reachable({0})) /\ IsInjective(handled)
  BY DEF WalkComplete
<1> DEFINE h == ToSet(handled)
           e == Entered(pci, h)
           R == Reachable({0})
<1>1. roots = <<>> /\ calls = <<>>
  BY DEF Done
<1>2. Walking(pci, calls, handled) /\ e \subseteq R
  BY <1>1 DEF WalkInv
<1>3. TopologyOK(pci)
  BY TopologyFacts DEF WalkInv
<1>4. \A f \in Walkable(pci) : f[1] \in e => f \in h
  BY <1>1, <1>2 DEF Walking, Covered
<1>5. \A f \in h : f \in Walkable(pci) /\ f[1] \in e
  BY <1>2 DEF Walking, ToSet
<1> HIDE DEF h
<1>6. R \subseteq e
  <2>1. 0 \in e
    BY DEF Entered
  <2>2. e \subseteq {0} \cup AllBuses
    BY <1>2 DEF Reachable
  <2>3. Closed(e)
    <3> SUFFICES ASSUME NEW f \in DOMAIN pci.secondary, f \in pci.present, f[1] \in e,
                        pci.secondary[f] # 0
                 PROVE  pci.secondary[f] \in e
      BY DEF Closed
    <3>1. Behind(pci, f) = pci.secondary[f]
      BY DEF Behind
    <3>2. f \in h
      BY <1>3, <1>4, <3>1 DEF TopologyOK
    <3> QED
      BY <3>1, <3>2 DEF Entered
  <2> HIDE DEF e
  <2> QED
    BY <2>1, <2>2, <2>3 DEF Reachable
<1>7. e = R
  BY <1>2, <1>6
<1>8. \A f : f \in On(R) <=> f \in Walkable(pci) /\ f[1] \in R
  BY DEF On, Walkable, MultiFunction
<1> HIDE DEF R, e
<1>9. h = On(R)
  BY <1>4, <1>5, <1>7, <1>8
<1>10. IsInjective(handled)
  BY <1>2 DEF Walking
<1> QED
  BY <1>9, <1>10 DEF h, R

(* pci_walk_devices calls the handler for every function behind the host   *)
(* bridge, through bridges at any depth, for each once and for nothing     *)
(* else.                                                                   *)
THEOREM WalkCorrect == Spec => []WalkComplete
BY WalkInvCorrect, WalkOver, PTL
==============================================================================
