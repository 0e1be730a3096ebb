-------------------------- MODULE PageFrames_proofs --------------------------
(***************************************************************************)
(* Theorems about PageFrames for every memory map, every size of a page    *)
(* and of the zones, and every number of CPUs.                             *)
(***************************************************************************)
EXTENDS PageFrames, TLAPS

-----------------------------------------------------------------------------
(* Lists as the kernel uses them: append at the tail, unlink at the front. *)

(* list_add_tail() adds exactly its entry, and keeps a list free of         *)
(* repetitions if the entry is not on it.                                   *)
LEMMA AppendFacts ==
  ASSUME NEW S, NEW s \in Seq(S), NEW e \in S
  PROVE  /\ Append(s, e) \in Seq(S)
         /\ Len(Append(s, e)) = Len(s) + 1
         /\ ToSet(Append(s, e)) = ToSet(s) \cup {e}
         /\ IsInjective(s) /\ e \notin ToSet(s) => IsInjective(Append(s, e))
  <1> DEFINE t == Append(s, e)
  <1>1. t \in Seq(S) /\ Len(t) = Len(s) + 1 /\ Len(s) \in Nat
    OBVIOUS
  <1>2. t[Len(s) + 1] = e /\ \A i \in 1 .. Len(s) : t[i] = s[i]
    OBVIOUS
  <1>3. DOMAIN t = 1 .. Len(s) + 1 /\ DOMAIN s = 1 .. Len(s)
    OBVIOUS
  <1> HIDE DEF t
  <1>4. ToSet(t) = ToSet(s) \cup {e}
    <2>1. ToSet(t) \subseteq ToSet(s) \cup {e}
      <3>1. \A i \in 1 .. Len(s) + 1 : i \in 1 .. Len(s) \/ i = Len(s) + 1
        BY <1>1
      <3> QED BY <3>1, <1>2, <1>3 DEF ToSet
    <2>2. ToSet(s) \cup {e} \subseteq ToSet(t)
      <3>1. Len(s) + 1 \in 1 .. Len(s) + 1 /\ \A i \in 1 .. Len(s) : i \in 1 .. Len(s) + 1
        BY <1>1
      <3> QED BY <3>1, <1>2, <1>3 DEF ToSet
    <2> QED BY <2>1, <2>2
  <1>5. IsInjective(s) /\ e \notin ToSet(s) => IsInjective(t)
    <2> SUFFICES ASSUME IsInjective(s), e \notin ToSet(s),
                        NEW i \in 1 .. Len(s) + 1, NEW j \in 1 .. Len(s) + 1,
                        t[i] = t[j]
                 PROVE  i = j
      BY <1>3 DEF IsInjective
    <2>1. \A k \in 1 .. Len(s) : t[k] # e
      BY <1>2, <1>3 DEF ToSet
    <2>2. CASE i \in 1 .. Len(s) /\ j \in 1 .. Len(s)
      BY <2>2, <1>2, <1>3 DEF IsInjective
    <2>3. CASE i = Len(s) + 1 \/ j = Len(s) + 1
      BY <2>3, <2>1, <1>1, <1>2
    <2> QED BY <2>2, <2>3, <1>1
  <1> QED BY <1>1, <1>4, <1>5 DEF t

(* list_del() of the first entry removes exactly that entry.               *)
LEMMA UnlinkFacts ==
  ASSUME NEW S, NEW s \in Seq(S), s # <<>>, IsInjective(s)
  PROVE  /\ Unlink(s) \in Seq(S)
         /\ Head(s) \in S /\ Head(s) \in ToSet(s)
         /\ Len(Unlink(s)) = Len(s) - 1
         /\ ToSet(Unlink(s)) = ToSet(s) \ {Head(s)}
         /\ IsInjective(Unlink(s))
  <1>1. Unlink(s) \in Seq(S) /\ Len(Unlink(s)) = Len(s) - 1 /\ Head(s) \in S
        /\ Len(s) \in Nat \ {0} /\ Head(s) = s[1]
    BY DEF Unlink
  <1>2. \A i \in 1 .. Len(s) - 1 : Unlink(s)[i] = s[i + 1]
    BY DEF Unlink
  <1>3. Head(s) \in ToSet(s)
    BY <1>1 DEF ToSet
  <1>4. ToSet(Unlink(s)) = ToSet(s) \ {Head(s)}
    <2>1. \A i \in 1 .. Len(s) - 1 : s[i + 1] # s[1]
      BY <1>1 DEF IsInjective
    <2>2. ToSet(Unlink(s)) = {s[i + 1] : i \in 1 .. Len(s) - 1}
      BY <1>1, <1>2 DEF ToSet
    <2>3. \A i \in 1 .. Len(s) : i = 1 \/ (i - 1 \in 1 .. Len(s) - 1
                                            /\ (i - 1) + 1 = i)
      BY <1>1
    <2>4. \A i \in 1 .. Len(s) - 1 : i + 1 \in 1 .. Len(s)
      BY <1>1
    <2>5. ToSet(s) = {s[i] : i \in 1 .. Len(s)}
      BY <1>1 DEF ToSet
    <2>6. ToSet(s) \ {s[1]} \subseteq ToSet(Unlink(s))
      BY <2>2, <2>3, <2>5
    <2>7. ToSet(Unlink(s)) \subseteq ToSet(s) \ {s[1]}
      BY <2>1, <2>2, <2>4, <2>5
    <2> QED BY <1>1, <2>6, <2>7
  <1>5. IsInjective(Unlink(s))
    <2> SUFFICES ASSUME NEW i \in 1 .. Len(s) - 1, NEW j \in 1 .. Len(s) - 1,
                        Unlink(s)[i] = Unlink(s)[j]
                 PROVE  i = j
      BY <1>1 DEF IsInjective
    <2>1. s[i + 1] = s[j + 1] /\ i + 1 \in 1 .. Len(s) /\ j + 1 \in 1 .. Len(s)
      BY <1>1, <1>2
    <2>2. i + 1 = j + 1
      BY <1>1, <2>1 DEF IsInjective
    <2> QED BY <2>2
  <1> QED BY <1>1, <1>3, <1>4, <1>5

(* No two list heads of the allocator are the same.                         *)
LEMMA HeadsDistinct ==
  /\ \A z \in Zones : PagesOf(z) \in ListHeads /\ ReservedOf(z) \in ListHeads
  /\ \A c \in Cpus : CacheOf(c) \in ListHeads
  /\ \A z, y \in Zones : PagesOf(z) # ReservedOf(y)
  /\ \A z, y \in Zones : PagesOf(z) = PagesOf(y) => z = y
  /\ \A z, y \in Zones : ReservedOf(z) = ReservedOf(y) => z = y
  /\ \A z \in Zones, c \in Cpus : /\ PagesOf(z) # CacheOf(c)
                                  /\ ReservedOf(z) # CacheOf(c)
  /\ \A c, d \in Cpus : CacheOf(c) = CacheOf(d) => c = d
  /\ \A h \in ListHeads : \/ \E z \in Zones : h = PagesOf(z) \/ h = ReservedOf(z)
                          \/ \E c \in Cpus : h = CacheOf(c)
  BY DEF PagesOf, ReservedOf, CacheOf, ListHeads

(* Rounding a record bound down to a page leaves a natural number.          *)
LEMMA MaskDownNat == \A a \in Nat : MaskDown(a) \in Nat
  BY SizesAssumption DEF MaskDown

(* The two zones differ, and CPU 0, whose cache alloc_page() uses, exists. *)
LEMMA ZonesAndCpus ==
  /\ ZONE_DMA \in Zones /\ ZONE_NORMAL \in Zones
  /\ \A f \in Nat : ZoneOf(f) \in Zones
  /\ 0 \in Cpus /\ Cpus \subseteq Nat /\ NrCpus \in Nat
  BY SizesAssumption DEF Zones, ZONE_DMA, ZONE_NORMAL, ZoneOf, Cpus

-----------------------------------------------------------------------------
(* The inductive invariant *)

(* What the loops of build_page_array() have not come to yet is empty, and *)
(* the record count is that of the table once the table was accepted.      *)
BootInv ==
  /\ pc \in {"detect", "zones", "panic"} =>
       pageIdx = 0 /\ \A h \in ListHeads : lists[h] = <<>>
  /\ pc = "scan" => \A c \in Cpus : lists[CacheOf(c)] = <<>>
  /\ pc = "cache" => \A c \in Cpus : c >= cpu => lists[CacheOf(c)] = <<>>
  /\ pc = "move" => \A c \in Cpus : c > cpu => lists[CacheOf(c)] = <<>>
  /\ pc \notin {"ready", "halted", "wild"} => owned = {}
  /\ e820count \in {Len(e820), NoE820}
  /\ pc \notin {"detect", "panic"} => e820count = Len(e820)

(* A frame becomes fit for the pool when the scan links it to the list of  *)
(* the normal zone.                                                        *)
NormalFramesFit ==
  \A f \in FramesOn(NormalPages) :
    f < pageIdx /\ f >= DmaPages /\ ~IsKernelPage(f)

(* No page that initialize_page_array() reserved for the kernel, and none  *)
(* of the DMA zone, ever enters a cache.                                   *)
PoolUnreserved ==
  \A f \in Pool : f < pageIdx /\ f >= DmaPages /\ ~IsKernelPage(f)

Inv == /\ TypeOK
       /\ FramesPartitioned
       /\ ZoneCountersExact
       /\ CounterCoversCache
       /\ BootInv
       /\ NormalFramesFit
       /\ PoolUnreserved

(* The invariant holds before build_page_array() has begun. *)
LEMMA InitInv == Init => Inv
  <1> SUFFICES ASSUME Init PROVE Inv
    OBVIOUS
  <1> USE DEF Init
  <1>1. \A h \in ListHeads : lists[h] = <<>> /\ FramesOn(h) = {}
    BY DEF FramesOn, ToSet
  <1>2. TypeOK
    <2>1. e820 \in Seq(E820Record)
      BY MapsAssumption
    <2>2. e820count \in Nat
      BY <2>1 DEF NoE820
    <2>3. frames \in Seq([zone : Zones, reserved : BOOLEAN])
      OBVIOUS
    <2>4. lists \in [ListHeads -> Seq(Nat)]
      OBVIOUS
    <2> QED BY <2>1, <2>2, <2>3, <2>4, ZonesAndCpus DEF TypeOK, NoResult
  <1>3. FramesPartitioned
    BY <1>1 DEF FramesPartitioned, IsInjective
  <1>4. ZoneCountersExact
    BY <1>1, HeadsDistinct DEF ZoneCountersExact
  <1>5. CounterCoversCache
    BY <1>1, HeadsDistinct DEF CounterCoversCache
  <1>6. BootInv
    BY <1>1, HeadsDistinct DEF BootInv
  <1>7. NormalFramesFit /\ PoolUnreserved
    BY <1>1, HeadsDistinct, ZonesAndCpus
       DEF NormalFramesFit, NormalPages, PoolUnreserved, Pool
  <1> QED BY <1>2, <1>3, <1>4, <1>5, <1>6, <1>7 DEF Inv

-----------------------------------------------------------------------------
(* An iteration of the scan that places a frame keeps the invariant: the   *)
(* frame is new to every list, and the counters follow the list it joins.  *)
LEMMA PlaceFrameInv ==
  ASSUME Inv, Scanning, NEW u \in BOOLEAN, PlaceFrame(u), justLeft' \in BOOLEAN
  PROVE  Inv'
  <1> USE DEF Inv
  <1>0. pageIdx \in Nat /\ ZoneOf(pageIdx) \in Zones
    BY ZonesAndCpus DEF TypeOK
  <1> PICK n \in Nat : n = pageIdx
    BY <1>0
  <1> PICK z \in Zones : z = ZoneOf(n)
    BY <1>0
  <1> PICK res \in BOOLEAN : res <=> u \/ IsKernelPage(n)
    OBVIOUS
  <1> PICK head \in ListHeads : head = IF res THEN ReservedOf(z) ELSE PagesOf(z)
    BY HeadsDistinct
  <1>b. /\ frames' = Append(frames, [zone |-> z, reserved |-> res])
        /\ lists' = [lists EXCEPT ![head] = Append(@, n)]
        /\ zone' = [zone EXCEPT ![z] =
                     [total    |-> @.total + 1,
                      free     |-> IF res THEN @.free ELSE @.free + 1,
                      reserved |-> IF res THEN @.reserved + 1
                                          ELSE @.reserved]]
        /\ pageIdx' = n + 1
    BY DEF PlaceFrame
  <1>c. UNCHANGED <<pc, e820, e820count, maxPhys, e820id, window, cpu, cpupages,
                    p, numFree, cacheHead, owned, result>>
    BY DEF PlaceFrame, cacheVars, allocVars
  <1>d. pc = "scan" /\ owned = {}
    BY DEF Scanning, BootInv
  <1>e. \A h \in ListHeads : lists[h] \in Seq(Nat)
    BY DEF TypeOK
  <1>f. \A h \in ListHeads : n \notin FramesOn(h)
    BY DEF FramesPartitioned
  <1>g. /\ lists'[head] = Append(lists[head], n)
        /\ \A h \in ListHeads : h # head => lists'[h] = lists[h]
        /\ lists' \in [ListHeads -> Seq(Nat)]
    <2>1. Append(lists[head], n) \in Seq(Nat)
      BY <1>e
    <2>2. lists \in [ListHeads -> Seq(Nat)]
      BY DEF TypeOK
    <2>3. lists' = [lists EXCEPT ![head] = Append(lists[head], n)]
      BY <1>b
    <2> HIDE DEF Inv
    <2> QED BY <2>1, <2>2, <2>3
  <1>h. /\ FramesOn(head)' = FramesOn(head) \cup {n}
        /\ \A h \in ListHeads : h # head => FramesOn(h)' = FramesOn(h)
        /\ IsInjective(lists[head]) => IsInjective(lists'[head])
        /\ Len(lists'[head]) = Len(lists[head]) + 1
    <2>1. lists[head] \in Seq(Nat) /\ n \notin ToSet(lists[head])
      BY <1>e, <1>f DEF FramesOn
    <2>2. /\ ToSet(lists'[head]) = ToSet(lists[head]) \cup {n}
          /\ IsInjective(lists[head]) => IsInjective(lists'[head])
          /\ Len(lists'[head]) = Len(lists[head]) + 1
      BY <1>g, <2>1, AppendFacts
    <2> QED BY <1>g, <2>2 DEF FramesOn
  <1>i. \A c \in Cpus : CacheOf(c) \in ListHeads /\ CacheOf(c) # head
    BY HeadsDistinct
  <1>1. TypeOK'
    <2>1. frames' \in Seq([zone : Zones, reserved : BOOLEAN])
      BY <1>b DEF TypeOK
    <2>2. zone' \in [Zones -> [total : Nat, free : Nat, reserved : Nat]]
      <3>1. zone \in [Zones -> [total : Nat, free : Nat, reserved : Nat]]
        BY DEF TypeOK
      <3>2. zone[z] \in [total : Nat, free : Nat, reserved : Nat]
        BY <3>1
      <3>3. [total    |-> zone[z].total + 1,
             free     |-> IF res THEN zone[z].free ELSE zone[z].free + 1,
             reserved |-> IF res THEN zone[z].reserved + 1
                                 ELSE zone[z].reserved]
              \in [total : Nat, free : Nat, reserved : Nat]
        BY <3>2
      <3> QED BY <1>b, <3>1, <3>3
    <2>3. pageIdx' \in Nat
      BY <1>b
    <2> QED BY <2>1, <2>2, <2>3, <1>c, <1>g DEF TypeOK
  <1>2. FramesPartitioned'
    <2>1. \A h \in ListHeads : IsInjective(lists'[h])
      BY <1>g, <1>h DEF FramesPartitioned
    <2>2. \A h \in ListHeads : FramesOn(h)' \cap owned' = {}
      BY <1>c, <1>d
    <2>3. \A h, g \in ListHeads : h # g => FramesOn(h)' \cap FramesOn(g)' = {}
      BY <1>f, <1>h DEF FramesPartitioned
    <2>4. 0 .. pageIdx' - 1 = owned' \cup UNION {FramesOn(h)' : h \in ListHeads}
      <3>1. 0 .. pageIdx' - 1 = (0 .. n - 1) \cup {n}
        BY <1>b
      <3>2. UNION {FramesOn(h)' : h \in ListHeads}
              = (UNION {FramesOn(h) : h \in ListHeads}) \cup {n}
        BY <1>h
      <3>3. 0 .. n - 1 = owned \cup UNION {FramesOn(h) : h \in ListHeads}
        BY DEF FramesPartitioned
      <3>4. owned' = {} /\ owned = {}
        BY <1>c, <1>d
      <3> QED BY <3>1, <3>2, <3>3, <3>4
    <2> QED BY <2>1, <2>2, <2>3, <2>4 DEF FramesPartitioned
  <1>3. ZoneCountersExact'
    <2> SUFFICES ASSUME NEW y \in Zones
                 PROVE  /\ zone'[y].free = Len(lists'[PagesOf(y)])
                        /\ zone'[y].reserved = Len(lists'[ReservedOf(y)])
                        /\ zone'[y].total = zone'[y].free + zone'[y].reserved
      BY DEF ZoneCountersExact
    <2>1. /\ zone[y].free = Len(lists[PagesOf(y)])
          /\ zone[y].reserved = Len(lists[ReservedOf(y)])
          /\ zone[y].total = zone[y].free + zone[y].reserved
          /\ zone \in [Zones -> [total : Nat, free : Nat, reserved : Nat]]
      BY DEF ZoneCountersExact, TypeOK
    <2>2. PagesOf(y) \in ListHeads /\ ReservedOf(y) \in ListHeads
      BY HeadsDistinct
    <2>3. CASE y # z
      <3>1. PagesOf(y) # head /\ ReservedOf(y) # head
        BY <2>3, HeadsDistinct
      <3> QED BY <2>1, <2>2, <2>3, <3>1, <1>b, <1>g
    <2>4. CASE y = z /\ res
      <3>1. head = ReservedOf(y) /\ PagesOf(y) # head
        BY <2>4, HeadsDistinct
      <3> QED BY <2>1, <2>2, <2>4, <3>1, <1>b, <1>g, <1>h
    <2>5. CASE y = z /\ ~res
      <3>1. head = PagesOf(y) /\ ReservedOf(y) # head
        BY <2>5, HeadsDistinct
      <3> QED BY <2>1, <2>2, <2>5, <3>1, <1>b, <1>g, <1>h
    <2> QED BY <2>3, <2>4, <2>5
  <1>4. CounterCoversCache'
    BY <1>c, <1>g, <1>i DEF CounterCoversCache
  <1>5. BootInv'
    BY <1>c, <1>d, <1>g, <1>i DEF BootInv
  <1>6. \A f \in Nat : IsKernelPage(f)' <=> IsKernelPage(f)
    BY <1>c DEF IsKernelPage, KernelEndPage
  <1>7. NormalFramesFit'
    <2> SUFFICES ASSUME NEW f \in FramesOn(NormalPages)'
                 PROVE  f < pageIdx' /\ f >= DmaPages /\ ~IsKernelPage(f)'
      BY DEF NormalFramesFit
    <2>1. NormalPages \in ListHeads
      BY HeadsDistinct, ZonesAndCpus DEF NormalPages
    <2>2. CASE f \in FramesOn(NormalPages)
      <3>1. f \in Nat
        BY <2>1, <2>2, <1>e DEF FramesOn, ToSet
      <3> QED BY <2>2, <3>1, <1>b, <1>6 DEF NormalFramesFit
    <2>3. CASE f \notin FramesOn(NormalPages)
      <3>1. head = NormalPages /\ f = n
        BY <2>1, <2>3, <1>h
      <3>2. z = ZONE_NORMAL /\ ~res
        BY <3>1, HeadsDistinct, ZonesAndCpus DEF NormalPages
      <3>3. ~(n < DmaPages)
        BY <3>2 DEF ZoneOf, ZONE_NORMAL, ZONE_DMA
      <3> QED BY <3>1, <3>2, <3>3, <1>b, <1>6, SizesAssumption
    <2> QED BY <2>2, <2>3
  <1>8. PoolUnreserved'
    <2>1. Pool' = Pool
      BY <1>c, <1>h, <1>i DEF Pool
    <2>2. \A f \in Pool : f \in Nat
      BY <1>e, <1>i, <1>d DEF Pool, FramesOn, ToSet
    <2> QED BY <2>1, <2>2, <1>b, <1>6 DEF PoolUnreserved
  <1> QED BY <1>1, <1>2, <1>3, <1>4, <1>5, <1>7, <1>8

(* A step that touches no list, counter or owner keeps what is said of     *)
(* them.                                                                   *)
LEMMA ListsUntouched ==
  ASSUME Inv, UNCHANGED <<zone, lists, pageIdx, maxPhys, owned>>
  PROVE  /\ FramesPartitioned' /\ ZoneCountersExact'
         /\ NormalFramesFit' /\ PoolUnreserved'
  <1>1. \A h : FramesOn(h)' = FramesOn(h)
    BY DEF FramesOn
  <1>2. \A f : IsKernelPage(f)' <=> IsKernelPage(f)
    BY DEF IsKernelPage, KernelEndPage
  <1>3. FramesPartitioned'
    BY <1>1 DEF Inv, FramesPartitioned
  <1>4. ZoneCountersExact'
    BY DEF Inv, ZoneCountersExact
  <1>5. NormalFramesFit'
    BY <1>1, <1>2 DEF Inv, NormalFramesFit
  <1>6. PoolUnreserved'
    BY <1>1, <1>2 DEF Inv, PoolUnreserved, Pool
  <1> QED BY <1>3, <1>4, <1>5, <1>6

(* While every list is empty and no page is scanned, there is nothing a    *)
(* property of lists could be false of.                                    *)
LEMMA NothingPlaced ==
  ASSUME Inv, pageIdx' = 0, owned' = {},
         \A h \in ListHeads : lists'[h] = <<>>
  PROVE  FramesPartitioned' /\ NormalFramesFit' /\ PoolUnreserved'
  <1>1. \A h \in ListHeads : lists'[h] = <<>> /\ FramesOn(h)' = {}
    BY DEF FramesOn, ToSet
  <1>2. FramesPartitioned'
    BY <1>1 DEF FramesPartitioned, IsInjective
  <1>3. NormalFramesFit' /\ PoolUnreserved'
    BY <1>1, HeadsDistinct, ZonesAndCpus
       DEF NormalFramesFit, NormalPages, PoolUnreserved, Pool
  <1> QED BY <1>2, <1>3

(* initialize_percpu_caches() moves the first free frame of the normal     *)
(* zone, which was fit for the pool, to the tail of a cache.               *)
LEMMA CacheMoveInv ==
  ASSUME Inv, CacheMove
  PROVE  Inv'
  <1> USE DEF Inv
  <1> PICK src \in ListHeads : src = NormalPages
    BY HeadsDistinct, ZonesAndCpus DEF NormalPages
  <1> PICK dst \in ListHeads : dst = CacheOf(cpu)
    BY HeadsDistinct DEF TypeOK
  <1>a. src # dst /\ cpu \in Cpus
    BY HeadsDistinct, ZonesAndCpus DEF NormalPages, TypeOK
  <1>b. \A h \in ListHeads : lists[h] \in Seq(Nat)
    BY DEF TypeOK
  <1>c. lists[src] # <<>> /\ IsInjective(lists[src]) /\ IsInjective(lists[dst])
    BY DEF CacheMove, MoreToMove, FramesPartitioned
  <1> PICK f \in Nat : f = Head(lists[src])
    BY <1>b, <1>c
  <1>d. /\ f \in FramesOn(src) /\ f \notin FramesOn(dst)
        /\ \A h \in ListHeads : h # src => f \notin FramesOn(h)
    <2>1. f \in FramesOn(src)
      BY <1>b, <1>c, UnlinkFacts DEF FramesOn
    <2> QED BY <2>1, <1>a DEF FramesPartitioned
  <1>e. /\ lists' = [lists EXCEPT ![src] = Unlink(@), ![dst] = Append(@, f)]
        /\ zone' = [zone EXCEPT ![ZONE_NORMAL] = CountMoved(@)]
        /\ p' = p + 2 /\ pc = "move"
        /\ UNCHANGED <<pc, e820, e820count, maxPhys, pageIdx, e820id, justLeft,
                       window, frames, cpu, cpupages, numFree, cacheHead,
                       owned, result>>
    BY DEF CacheMove, scanVars, allocVars
  <1>f. /\ lists'[src] = Unlink(lists[src])
        /\ lists'[dst] = Append(lists[dst], f)
        /\ \A h \in ListHeads : h # src /\ h # dst => lists'[h] = lists[h]
        /\ lists' \in [ListHeads -> Seq(Nat)]
    <2>1. Unlink(lists[src]) \in Seq(Nat) /\ Append(lists[dst], f) \in Seq(Nat)
      BY <1>b, <1>c, UnlinkFacts
    <2>2. lists \in [ListHeads -> Seq(Nat)]
      BY DEF TypeOK
    <2> HIDE DEF Inv
    <2> QED BY <2>1, <2>2, <1>a, <1>e
  <1>g. /\ FramesOn(src)' = FramesOn(src) \ {f}
        /\ FramesOn(dst)' = FramesOn(dst) \cup {f}
        /\ \A h \in ListHeads : h # src /\ h # dst => FramesOn(h)' = FramesOn(h)
        /\ \A h \in ListHeads : IsInjective(lists'[h])
        /\ Len(lists'[src]) = Len(lists[src]) - 1
        /\ Len(lists'[dst]) = Len(lists[dst]) + 1
    <2>1. /\ ToSet(lists'[src]) = ToSet(lists[src]) \ {f}
          /\ IsInjective(lists'[src])
          /\ Len(lists'[src]) = Len(lists[src]) - 1
      BY <1>b, <1>c, <1>f, UnlinkFacts
    <2>2. /\ ToSet(lists'[dst]) = ToSet(lists[dst]) \cup {f}
          /\ IsInjective(lists'[dst])
          /\ Len(lists'[dst]) = Len(lists[dst]) + 1
      BY <1>b, <1>c, <1>d, <1>f, AppendFacts DEF FramesOn
    <2> QED BY <2>1, <2>2, <1>f DEF FramesOn, FramesPartitioned
  <1>h. Len(lists[src]) \in Nat \ {0} /\ Len(lists[dst]) \in Nat
    BY <1>b, <1>c
  <1> PICK r \in [total : Nat, free : Nat, reserved : Nat] :
             r = zone[ZONE_NORMAL]
    BY ZonesAndCpus DEF TypeOK
  <1>i. /\ CountMoved(r).free = r.free - 1 /\ CountMoved(r).total = r.total - 1
        /\ CountMoved(r).reserved = r.reserved
        /\ CountMoved(r) = [total    |-> r.total - 1, free |-> r.free - 1,
                            reserved |-> r.reserved]
        /\ r.free \in Nat /\ r.total \in Nat /\ r.reserved \in Nat
    BY DEF CountMoved
  <1>j. r.free \in Nat \ {0} /\ r.total \in Nat \ {0}
    <2>1. r.free = Len(lists[src]) /\ r.total = r.free + r.reserved
      BY ZonesAndCpus DEF ZoneCountersExact, NormalPages
    <2> QED BY <2>1, <1>h
  <1>k. zone' = [zone EXCEPT ![ZONE_NORMAL] = CountMoved(r)]
    BY <1>e
  <1>1. TypeOK'
    <2>1. zone' \in [Zones -> [total : Nat, free : Nat, reserved : Nat]]
      <3>1. zone \in [Zones -> [total : Nat, free : Nat, reserved : Nat]]
        BY DEF TypeOK
      <3>2. CountMoved(r) \in [total : Nat, free : Nat, reserved : Nat]
        BY <1>i, <1>j
      <3> QED BY <3>1, <3>2, <1>k
    <2>2. p' \in Nat
      <3>1. p \in Nat
        BY DEF TypeOK
      <3> QED BY <3>1, <1>e
    <2>3. {maxPhys, pageIdx, e820id, cpupages, p}' \subseteq Nat
      BY <2>2, <1>e DEF TypeOK
    <2> QED BY <2>1, <2>3, <1>e, <1>f DEF TypeOK
  <1>2. FramesPartitioned'
    <2>1. \A h, g \in ListHeads : h # g => FramesOn(h)' \cap FramesOn(g)' = {}
      BY <1>a, <1>d, <1>g DEF FramesPartitioned
    <2>2. UNION {FramesOn(h)' : h \in ListHeads}
            = UNION {FramesOn(h) : h \in ListHeads}
      <3>1. \A x : (\E h \in ListHeads : x \in FramesOn(h)')
                     <=> \E h \in ListHeads : x \in FramesOn(h)
        BY <1>a, <1>d, <1>g
      <3> QED BY <3>1
    <2>3. \A h \in ListHeads : FramesOn(h)' \cap owned' = {}
      BY <1>d, <1>e, <1>g DEF FramesPartitioned
    <2> QED BY <2>1, <2>2, <2>3, <1>e, <1>g DEF FramesPartitioned
  <1>3. ZoneCountersExact'
    <2> SUFFICES ASSUME NEW y \in Zones
                 PROVE  /\ zone'[y].free = Len(lists'[PagesOf(y)])
                        /\ zone'[y].reserved = Len(lists'[ReservedOf(y)])
                        /\ zone'[y].total = zone'[y].free + zone'[y].reserved
      BY DEF ZoneCountersExact
    <2>1. /\ zone[y].free = Len(lists[PagesOf(y)])
          /\ zone[y].reserved = Len(lists[ReservedOf(y)])
          /\ zone[y].total = zone[y].free + zone[y].reserved
          /\ zone \in [Zones -> [total : Nat, free : Nat, reserved : Nat]]
      BY DEF ZoneCountersExact, TypeOK
    <2>2. /\ ReservedOf(y) \in ListHeads /\ ReservedOf(y) # src
          /\ ReservedOf(y) # dst /\ PagesOf(y) # dst /\ PagesOf(y) \in ListHeads
      BY HeadsDistinct, <1>a, ZonesAndCpus DEF NormalPages
    <2>3. CASE y = ZONE_NORMAL
      <3>1. PagesOf(y) = src
        BY <2>3 DEF NormalPages
      <3>2. zone'[y] = CountMoved(r) /\ zone[y] = r
        BY <2>1, <2>3, <1>k
      <3>3. lists'[ReservedOf(y)] = lists[ReservedOf(y)]
        BY <2>2, <1>f
      <3>4. /\ r.free = Len(lists[src])
            /\ r.reserved = Len(lists[ReservedOf(y)])
            /\ r.total = r.free + r.reserved
        BY <2>1, <3>1, <3>2
      <3>5. /\ CountMoved(r).free = Len(lists'[src])
            /\ CountMoved(r).reserved = Len(lists'[ReservedOf(y)])
        BY <3>3, <3>4, <1>g, <1>i
      <3>6. CountMoved(r).total = CountMoved(r).free + CountMoved(r).reserved
        BY <3>4, <1>i
      <3> QED BY <3>1, <3>2, <3>5, <3>6
    <2>4. CASE y # ZONE_NORMAL
      <3>1. PagesOf(y) # src
        BY <2>4, HeadsDistinct, ZonesAndCpus DEF NormalPages
      <3> QED BY <2>1, <2>2, <2>4, <3>1, <1>f, <1>k
    <2> QED BY <2>3, <2>4
  <1>4. CounterCoversCache'
    <2>1. \A c \in Cpus : c # cpu => /\ CacheOf(c) \in ListHeads
                                     /\ CacheOf(c) # src /\ CacheOf(c) # dst
      BY HeadsDistinct, <1>a, ZonesAndCpus DEF NormalPages
    <2>2. p \in Nat /\ Len(lists[dst]) <= p
      BY <1>a, <1>e DEF CounterCoversCache, TypeOK
    <2>3. Len(lists'[dst]) <= p'
      BY <2>2, <1>e, <1>g, <1>h
    <2>4. \A c \in Cpus : c < cpu => Len(lists'[CacheOf(c)]) <= numFree'[c]
      <3> SUFFICES ASSUME NEW c \in Cpus, c < cpu
                   PROVE  Len(lists'[CacheOf(c)]) <= numFree'[c]
        OBVIOUS
      <3>1. c # cpu
        BY <1>a, ZonesAndCpus
      <3>2. Len(lists[CacheOf(c)]) <= numFree[c]
        BY <1>e DEF CounterCoversCache
      <3> QED BY <2>1, <3>1, <3>2, <1>e, <1>f
    <2> QED BY <2>3, <2>4, <1>a, <1>e DEF CounterCoversCache
  <1>5. BootInv'
    <2>1. \A c \in Cpus : c > cpu => lists'[CacheOf(c)] = <<>>
      <3> SUFFICES ASSUME NEW c \in Cpus, c > cpu
                   PROVE  lists'[CacheOf(c)] = <<>>
        OBVIOUS
      <3>1. c # cpu
        BY <1>a, ZonesAndCpus
      <3>2. CacheOf(c) \in ListHeads /\ CacheOf(c) # src /\ CacheOf(c) # dst
        BY <3>1, HeadsDistinct, <1>a, ZonesAndCpus DEF NormalPages
      <3> QED BY <3>2, <1>e, <1>f DEF BootInv
    <2> QED BY <2>1, <1>e DEF BootInv
  <1>6. \A x : IsKernelPage(x)' <=> IsKernelPage(x)
    BY <1>e DEF IsKernelPage, KernelEndPage
  <1>7. NormalFramesFit'
    BY <1>e, <1>6, <1>g DEF NormalFramesFit
  <1>8. PoolUnreserved'
    <2>1. Pool' = Pool \cup {f}
      <3>1. \A c \in Cpus : CacheOf(c) \in ListHeads /\ CacheOf(c) # src
        BY HeadsDistinct, ZonesAndCpus DEF NormalPages
      <3>2. \A x : (\E c \in Cpus : x \in FramesOn(CacheOf(c))')
                     <=> (x = f \/ \E c \in Cpus : x \in FramesOn(CacheOf(c)))
        BY <3>1, <1>a, <1>e, <1>g
      <3> QED BY <3>2, <1>e DEF Pool
    <2>2. f < pageIdx /\ f >= DmaPages /\ ~IsKernelPage(f)
      BY <1>d DEF NormalFramesFit
    <2> QED BY <2>1, <2>2, <1>e, <1>6 DEF PoolUnreserved
  <1> QED BY <1>1, <1>2, <1>3, <1>4, <1>5, <1>7, <1>8

(* alloc_page() hands out the first frame of its cache: the frame leaves   *)
(* the list, the counter falls with the list, and the caller has it.       *)
LEMMA AllocFrameInv ==
  ASSUME Inv, NEW clean \in BOOLEAN, AllocFrame(clean)
  PROVE  Inv'
  <1> USE DEF Inv
  <1> PICK src \in ListHeads : src = Cache0
    BY HeadsDistinct, ZonesAndCpus DEF Cache0
  <1>a. \A h \in ListHeads : lists[h] \in Seq(Nat) /\ IsInjective(lists[h])
    BY DEF TypeOK, FramesPartitioned
  <1>b. lists[src] # <<>> /\ pc = "ready"
    BY DEF AllocFrame
  <1> PICK f \in Nat : f = Head(lists[src])
    BY <1>a, <1>b
  <1>c. /\ Unlink(lists[src]) \in Seq(Nat) /\ f \in ToSet(lists[src])
        /\ Len(Unlink(lists[src])) = Len(lists[src]) - 1
        /\ ToSet(Unlink(lists[src])) = ToSet(lists[src]) \ {f}
        /\ IsInjective(Unlink(lists[src]))
        /\ Len(lists[src]) \in Nat
    BY <1>a, <1>b, UnlinkFacts
  <1>d. /\ lists' = [lists EXCEPT ![src] = Unlink(@)]
        /\ numFree' = [numFree EXCEPT ![0] = @ - 1]
        /\ owned' = owned \cup {f} /\ numFree[0] > 0
        /\ result' = [kind |-> "frame", idx |-> f]
        /\ pc' \in {"ready", "halted"}
        /\ UNCHANGED <<e820, e820count, maxPhys, pageIdx, e820id, justLeft,
                       window, frames, zone, cpu, cpupages, p, cacheHead>>
    BY DEF AllocFrame, AllocUnchanged, Return, CacheHasFree, scanVars
  <1>e. /\ lists'[src] = Unlink(lists[src])
        /\ \A h \in ListHeads : h # src => lists'[h] = lists[h]
        /\ lists' \in [ListHeads -> Seq(Nat)]
    BY <1>c, <1>d DEF TypeOK
  <1>f. /\ FramesOn(src)' = FramesOn(src) \ {f} /\ f \in FramesOn(src)
        /\ \A h \in ListHeads : h # src => FramesOn(h)' = FramesOn(h)
        /\ \A h \in ListHeads : IsInjective(lists'[h])
    BY <1>a, <1>c, <1>e DEF FramesOn
  <1>g. \A h \in ListHeads : h # src => f \notin FramesOn(h)
    BY <1>f DEF FramesPartitioned
  <1>h. numFree' \in [Cpus -> Nat] /\ numFree'[0] = numFree[0] - 1
        /\ numFree[0] \in Nat
        /\ \A c \in Cpus : c # 0 => numFree'[c] = numFree[c]
    <2>1. numFree \in [Cpus -> Nat] /\ 0 \in Cpus
      BY ZonesAndCpus DEF TypeOK
    <2> QED BY <2>1, <1>d
  <1>1. TypeOK'
    <2>1. result' \in [kind : {"none", "null", "refused", "frame", "head"},
                       idx : Nat]
      BY <1>d
    <2>2. {maxPhys, pageIdx, e820id, cpupages, p}' \subseteq Nat
      BY <1>d DEF TypeOK
    <2>3. owned' \subseteq Nat
      BY <1>d DEF TypeOK
    <2> QED BY <2>1, <2>2, <2>3, <1>d, <1>e, <1>h DEF TypeOK
  <1>2. FramesPartitioned'
    <2>1. \A h \in ListHeads : FramesOn(h)' \cap owned' = {}
      BY <1>d, <1>f, <1>g DEF FramesPartitioned
    <2>2. \A h, g \in ListHeads : h # g => FramesOn(h)' \cap FramesOn(g)' = {}
      BY <1>f DEF FramesPartitioned
    <2>3. owned' \cup UNION {FramesOn(h)' : h \in ListHeads}
            = owned \cup UNION {FramesOn(h) : h \in ListHeads}
      <3>1. \A x : (x \in owned' \/ \E h \in ListHeads : x \in FramesOn(h)')
                     <=> (x \in owned \/ \E h \in ListHeads : x \in FramesOn(h))
        BY <1>d, <1>f
      <3> QED BY <3>1
    <2> QED BY <2>1, <2>2, <2>3, <1>d, <1>f DEF FramesPartitioned
  <1>3. ZoneCountersExact'
    <2>1. \A z \in Zones : /\ PagesOf(z) \in ListHeads /\ PagesOf(z) # src
                           /\ ReservedOf(z) \in ListHeads
                           /\ ReservedOf(z) # src
      BY HeadsDistinct, ZonesAndCpus DEF Cache0
    <2> QED BY <2>1, <1>d, <1>e DEF ZoneCountersExact
  <1>4. CounterCoversCache'
    <2> SUFFICES ASSUME NEW c \in Cpus
                 PROVE  Len(lists'[CacheOf(c)]) <= numFree'[c]
      BY <1>d DEF CounterCoversCache
    <2>1. Len(lists[CacheOf(c)]) <= numFree[c]
      BY <1>b DEF CounterCoversCache
    <2>2. CASE c = 0
      BY <2>1, <2>2, <1>c, <1>e, <1>h DEF Cache0
    <2>3. CASE c # 0
      <3>1. CacheOf(c) \in ListHeads /\ CacheOf(c) # src
        BY <2>3, HeadsDistinct, ZonesAndCpus DEF Cache0
      <3> QED BY <2>1, <2>3, <3>1, <1>e, <1>h
    <2> QED BY <2>2, <2>3
  <1>5. BootInv'
    BY <1>b, <1>d DEF BootInv
  <1>6. \A x : IsKernelPage(x)' <=> IsKernelPage(x)
    BY <1>d DEF IsKernelPage, KernelEndPage
  <1>7. NormalFramesFit'
    <2>1. NormalPages \in ListHeads /\ NormalPages # src
      BY HeadsDistinct, ZonesAndCpus DEF NormalPages, Cache0
    <2> QED BY <2>1, <1>d, <1>e, <1>6 DEF NormalFramesFit, FramesOn
  <1>8. PoolUnreserved'
    <2>1. Pool' = Pool
      <3>1. \A c \in Cpus : CacheOf(c) \in ListHeads
        BY HeadsDistinct
      <3>2. \E c \in Cpus : src = CacheOf(c)
        BY ZonesAndCpus DEF Cache0
      <3>3. \A x : (x \in owned' \/ \E c \in Cpus : x \in FramesOn(CacheOf(c))')
                     <=> (x \in owned \/ \E c \in Cpus : x \in FramesOn(CacheOf(c)))
        BY <3>1, <3>2, <1>d, <1>f
      <3> QED BY <3>3 DEF Pool
    <2> QED BY <2>1, <1>d, <1>6 DEF PoolUnreserved
  <1> QED BY <1>1, <1>2, <1>3, <1>4, <1>5, <1>7, <1>8

(* What the scan reads of e820table is a record, also one past the last.    *)
LEMMA RecordAtTyped ==
  ASSUME Inv, pc \notin {"detect", "panic"}, NEW i \in Nat
  PROVE  RecordAt(i) \in E820Record
  <1>1. e820 \in Seq(E820Record) /\ e820count = Len(e820)
    BY DEF Inv, TypeOK, BootInv
  <1>2. CASE i < e820count
    <2>1. i + 1 \in 1 .. Len(e820)
      BY <1>1, <1>2
    <2> QED BY <2>1, <1>1, <1>2 DEF RecordAt
  <1>3. CASE ~(i < e820count)
    BY <1>3 DEF RecordAt, E820Record
  <1> QED BY <1>2, <1>3

(* detect_physical_memory() and initialize_zones() leave every list empty; *)
(* the loops over records start with a table whose length is known.        *)
LEMMA StartInv ==
  ASSUME Inv, DetectPanics \/ DetectMemory \/ InitializeZones
  PROVE  Inv'
  <1> USE DEF Inv
  <1>1. pc \in {"detect", "zones"} /\ owned = {} /\ pageIdx = 0
        /\ \A h \in ListHeads : lists[h] = <<>>
    BY DEF DetectPanics, DetectMemory, InitializeZones, BootInv
  <1>2. CASE DetectPanics
    <2>1. UNCHANGED <<zone, lists, pageIdx, maxPhys, owned>> /\ pc' = "panic"
          /\ UNCHANGED <<e820, e820count, e820id, justLeft, window, frames, cpu,
                         cpupages, p, numFree, cacheHead, result>>
      BY <1>2 DEF DetectPanics, scanVars, zoneVars, cacheVars, allocVars
    <2>2. TypeOK'
      BY <2>1 DEF TypeOK
    <2>3. BootInv' /\ CounterCoversCache'
      BY <1>1, <2>1 DEF BootInv, CounterCoversCache
    <2> QED BY <2>1, <2>2, <2>3, ListsUntouched
  <1>3. CASE DetectMemory
    <2>1. UNCHANGED <<e820, e820count, pageIdx, e820id, justLeft, window, frames,
                      zone, lists, cpu, cpupages, p, numFree, cacheHead, owned,
                      result>> /\ pc' = "zones"
      BY <1>3 DEF DetectMemory, zoneVars, cacheVars, allocVars
    <2> PICK i \in DOMAIN e820 : MainMemory(i) /\ maxPhys' = RecordEnd(e820[i])
      BY <1>3 DEF DetectMemory
    <2>2. e820[i] \in E820Record
      BY DEF TypeOK
    <2>3. maxPhys' \in Nat
      BY <2>2 DEF RecordEnd, E820Record
    <2>4. TypeOK'
      <3>1. {maxPhys, pageIdx, e820id, cpupages, p}' \subseteq Nat
        BY <2>1, <2>3 DEF TypeOK
      <3> QED BY <3>1, <2>1 DEF TypeOK
    <2>5. ZoneCountersExact'
      BY <2>1 DEF ZoneCountersExact
    <2>6. e820count = Len(e820)
      BY DEF MainMemory, BootInv, NoE820
    <2>7. BootInv' /\ CounterCoversCache'
      <3>1. \A c \in Cpus : CacheOf(c) \in ListHeads /\ numFree[c] \in Nat
        BY HeadsDistinct DEF TypeOK
      <3> QED BY <3>1, <1>1, <2>1, <2>6 DEF BootInv, CounterCoversCache
    <2> QED BY <1>1, <2>1, <2>4, <2>5, <2>7, NothingPlaced
  <1>4. CASE InitializeZones
    <2>1. /\ zone' = [z \in Zones |-> [total |-> 0, free |-> 0, reserved |-> 0]]
          /\ lists' = [h \in ListHeads |-> IF h[1] = "cache" THEN lists[h]
                                           ELSE <<>>]
          /\ pageIdx' = 0 /\ e820id' = 0 /\ justLeft' = FALSE /\ frames' = <<>>
          /\ pc = "zones" /\ pc' = "scan"
          /\ UNCHANGED <<e820, e820count, maxPhys, cpu, cpupages, p, numFree,
                         cacheHead, owned, result>>
      BY <1>4 DEF InitializeZones, cacheVars, allocVars
    <2>2. \A h \in ListHeads : lists'[h] = <<>>
      BY <1>1, <2>1
    <2>3. ZoneCountersExact'
      <3> SUFFICES ASSUME NEW z \in Zones
                   PROVE  /\ zone'[z].free = Len(lists'[PagesOf(z)])
                          /\ zone'[z].reserved = Len(lists'[ReservedOf(z)])
                          /\ zone'[z].total = zone'[z].free + zone'[z].reserved
        BY DEF ZoneCountersExact
      <3>1. zone'[z] = [total |-> 0, free |-> 0, reserved |-> 0]
        BY <2>1
      <3>2. lists'[PagesOf(z)] = <<>> /\ lists'[ReservedOf(z)] = <<>>
        BY <2>2, HeadsDistinct
      <3> QED BY <3>1, <3>2
    <2>4. TypeOK'
      <3>1. window' \in [begin : Nat, end : Nat, usable : BOOLEAN]
        <4>1. RecordAt(0) \in E820Record
          BY <2>1, RecordAtTyped
        <4>2. /\ RecordAt(0).base \in Nat /\ RecordAt(0).usable \in BOOLEAN
              /\ RecordEnd(RecordAt(0)) \in Nat
          BY <4>1 DEF E820Record, RecordEnd
        <4>3. window' = [begin  |-> RecordAt(0).base,
                         end    |-> MaskDown(RecordEnd(RecordAt(0))),
                         usable |-> RecordAt(0).usable]
          BY <1>4 DEF InitializeZones
        <4> QED BY <4>2, <4>3, MaskDownNat
      <3>2. lists' \in [ListHeads -> Seq(Nat)]
        BY <2>1 DEF TypeOK
      <3>3. frames' \in Seq([zone : Zones, reserved : BOOLEAN])
        BY <2>1
      <3>4. zone' \in [Zones -> [total : Nat, free : Nat, reserved : Nat]]
        BY <2>1
      <3>5. {maxPhys, pageIdx, e820id, cpupages, p}' \subseteq Nat
        BY <2>1 DEF TypeOK
      <3> QED BY <3>1, <3>2, <3>3, <3>4, <3>5, <2>1 DEF TypeOK
    <2>5. BootInv' /\ CounterCoversCache'
      <3>1. \A c \in Cpus : CacheOf(c) \in ListHeads /\ numFree[c] \in Nat
        BY HeadsDistinct DEF TypeOK
      <3> QED BY <3>1, <1>1, <2>1, <2>2 DEF BootInv, CounterCoversCache
    <2> QED BY <1>1, <2>1, <2>2, <2>3, <2>4, <2>5, NothingPlaced
  <1> QED BY <1>2, <1>3, <1>4

(* Stepping to the next record, or past the last page, links nothing.      *)
LEMMA ScanControlInv ==
  ASSUME Inv, ScanNextRecord \/ ScanDone
  PROVE  Inv'
  <1> USE DEF Inv
  <1>1. CASE ScanNextRecord
    <2>1. /\ UNCHANGED <<pc, e820, e820count, maxPhys, pageIdx, frames, zone,
                         lists, cpu, cpupages, p, numFree, cacheHead, owned,
                         result>>
          /\ justLeft' \in BOOLEAN /\ pc = "scan"
      BY <1>1 DEF ScanNextRecord, Scanning, zoneVars, cacheVars, allocVars,
                  LeftMark
    <2>2. e820id \in Nat /\ window \in [begin : Nat, end : Nat, usable : BOOLEAN]
      BY DEF TypeOK
    <2>3. e820id' \in Nat /\ window' \in [begin : Nat, end : Nat, usable : BOOLEAN]
      <3>1. CASE e820id < e820count
        <4> PICK next \in E820Record : next = RecordAt(e820id + 1)
          BY <2>1, <2>2, RecordAtTyped
        <4>1. /\ e820id' = e820id + 1
              /\ window' = [begin  |-> MaskDown(next.base),
                            end    |-> MaskDown(RecordEnd(next)),
                            usable |-> next.usable]
          BY <1>1, <3>1 DEF ScanNextRecord
        <4>2. next.base \in Nat /\ RecordEnd(next) \in Nat
              /\ next.usable \in BOOLEAN
          BY DEF E820Record, RecordEnd
        <4> QED BY <2>2, <4>1, <4>2, MaskDownNat
      <3>2. CASE ~(e820id < e820count)
        <4>1. /\ e820id' = e820id
              /\ window' = [window EXCEPT !.begin = 0, !.end = 0]
          BY <1>1, <3>2 DEF ScanNextRecord
        <4> QED BY <2>2, <4>1
      <3> QED BY <3>1, <3>2
    <2>4. TypeOK'
      <3>1. {maxPhys, pageIdx, e820id, cpupages, p}' \subseteq Nat
        BY <2>1, <2>3 DEF TypeOK
      <3> QED BY <3>1, <2>1, <2>3 DEF TypeOK
    <2>5. BootInv' /\ CounterCoversCache'
      BY <2>1 DEF BootInv, CounterCoversCache
    <2> QED BY <2>1, <2>4, <2>5, ListsUntouched
  <1>2. CASE ScanDone
    <2>1. /\ UNCHANGED <<e820, e820count, maxPhys, pageIdx, e820id, justLeft,
                         window, frames, zone, lists, p, numFree, cacheHead,
                         owned, result>>
          /\ pc = "scan" /\ pc' = "cache" /\ cpu' = 0
          /\ cpupages' = zone[ZONE_NORMAL].total \div NrCpus
      BY <1>2 DEF ScanDone, scanVars, zoneVars, allocVars
    <2>2. cpupages' \in Nat
      <3> PICK t \in Nat : t = zone[ZONE_NORMAL].total
        BY ZonesAndCpus DEF TypeOK
      <3> PICK k \in Nat \ {0} : k = NrCpus
        BY SizesAssumption
      <3>1. t \div k \in Nat
        OBVIOUS
      <3> QED BY <2>1, <3>1
    <2>3. TypeOK'
      <3>1. {maxPhys, pageIdx, e820id, cpupages, p}' \subseteq Nat
        BY <2>1, <2>2 DEF TypeOK
      <3> QED BY <3>1, <2>1, ZonesAndCpus DEF TypeOK
    <2>4. BootInv' /\ CounterCoversCache'
      BY <2>1, ZonesAndCpus DEF BootInv, CounterCoversCache
    <2> QED BY <2>1, <2>3, <2>4, ListsUntouched
  <1> QED BY <1>1, <1>2

(* The per-CPU loop starts on an empty cache and closes with a counter that *)
(* covers what it moved.                                                    *)
LEMMA CacheControlInv ==
  ASSUME Inv, CacheInit \/ CacheFilled
  PROVE  Inv'
  <1> USE DEF Inv
  <1>a. cpu \in Cpus /\ numFree \in [Cpus -> Nat] /\ p \in Nat
        /\ \A c \in Cpus : CacheOf(c) \in ListHeads
    BY HeadsDistinct DEF TypeOK
  <1>1. CASE CacheInit
    <2>1. /\ lists' = [lists EXCEPT ![CacheOf(cpu)] = <<>>]
          /\ pc = "cache" /\ pc' = "move" /\ p' = 0
          /\ cpupages' \in {cpupages, zone[ZONE_NORMAL].total}
          /\ UNCHANGED <<e820, e820count, maxPhys, pageIdx, e820id, justLeft,
                         window, frames, zone, cpu, numFree, cacheHead, owned,
                         result>>
      BY <1>1 DEF CacheInit, scanVars, allocVars
    <2>2. lists[CacheOf(cpu)] = <<>>
      BY <1>a, <2>1, ZonesAndCpus DEF BootInv
    <2>3. lists' = lists
      <3>1. lists \in [ListHeads -> Seq(Nat)]
        BY DEF TypeOK
      <3> HIDE DEF Inv
      <3> QED BY <2>1, <2>2, <3>1
    <2>4. TypeOK'
      <3>1. cpupages' \in Nat
        BY <2>1, ZonesAndCpus DEF TypeOK
      <3>2. {maxPhys, pageIdx, e820id, cpupages, p}' \subseteq Nat
        BY <2>1, <3>1 DEF TypeOK
      <3> QED BY <3>2, <2>1, <2>3 DEF TypeOK
    <2>5. BootInv'
      BY <2>1, <2>3, ZonesAndCpus, <1>a DEF BootInv
    <2>6. CounterCoversCache'
      BY <2>1, <2>2, <2>3 DEF CounterCoversCache
    <2> QED BY <2>1, <2>3, <2>4, <2>5, <2>6, ListsUntouched
  <1>2. CASE CacheFilled
    <2>1. /\ numFree' = [numFree EXCEPT ![cpu] = p]
          /\ cpu' = IF cpu + 1 < NrCpus THEN cpu + 1 ELSE cpu
          /\ pc = "move"
          /\ pc' = IF cpu + 1 < NrCpus THEN "cache" ELSE "ready"
          /\ UNCHANGED <<e820, e820count, maxPhys, pageIdx, e820id, justLeft,
                         window, frames, zone, lists, cpupages, p, cacheHead,
                         owned, result>>
      BY <1>2 DEF CacheFilled, CachedCount, scanVars, zoneVars, allocVars
    <2>2. /\ numFree' \in [Cpus -> Nat] /\ numFree'[cpu] = p
          /\ \A c \in Cpus : c # cpu => numFree'[c] = numFree[c]
      BY <1>a, <2>1
    <2>3. cpu' \in Cpus
      BY <1>a, <2>1, SizesAssumption DEF Cpus
    <2>4. TypeOK'
      <3>1. {maxPhys, pageIdx, e820id, cpupages, p}' \subseteq Nat
        BY <2>1 DEF TypeOK
      <3> QED BY <3>1, <2>1, <2>2, <2>3 DEF TypeOK
    <2>5. \A c \in Cpus : c <= cpu => Len(lists[CacheOf(c)]) <= numFree'[c]
      BY <1>a, <2>1, <2>2, ZonesAndCpus DEF CounterCoversCache
    <2>6. \A c \in Cpus : c > cpu => lists[CacheOf(c)] = <<>>
      BY <2>1 DEF BootInv
    <2>7. CounterCoversCache' /\ BootInv'
      <3>1. CASE cpu + 1 < NrCpus
        <4>1. /\ \A c \in Cpus : c < cpu' => c <= cpu
              /\ \A c \in Cpus : c >= cpu' => c > cpu
          BY <1>a, <2>1, <3>1, ZonesAndCpus
        <4> QED BY <2>1, <2>5, <2>6, <3>1, <4>1 DEF CounterCoversCache, BootInv
      <3>2. CASE ~(cpu + 1 < NrCpus)
        <4>1. \A c \in Cpus : c <= cpu
          BY <1>a, <3>2, SizesAssumption DEF Cpus
        <4> QED BY <2>1, <2>5, <3>2, <4>1 DEF CounterCoversCache, BootInv
      <3> QED BY <3>1, <3>2
    <2> QED BY <2>1, <2>4, <2>7, ListsUntouched
  <1> QED BY <1>1, <1>2

(* A request that is answered with anything but a frame takes nothing from *)
(* a list; the counter falls only while the list it counts is empty.       *)
LEMMA AllocOtherInv ==
  ASSUME Inv, NEW clean \in BOOLEAN,
         AllocDma \/ AllocListHead(clean) \/ AllocNone(clean) \/ AllocPoisoned
  PROVE  Inv'
  <1> USE DEF Inv
  <1>1. /\ pc = "ready" /\ pc' \in {"ready", "halted", "wild"}
        /\ UNCHANGED <<e820, e820count, maxPhys, pageIdx, e820id, justLeft,
                       window, frames, zone, lists, cpu, cpupages, p, owned>>
    BY DEF AllocDma, AllocListHead, AllocNone, AllocPoisoned, AllocUnchanged,
           Return, scanVars, allocVars
  <1>2. \/ UNCHANGED numFree
        \/ /\ numFree' = [numFree EXCEPT ![0] = @ - 1]
           /\ numFree[0] > 0 /\ lists[CacheOf(0)] = <<>>
    BY DEF AllocDma, AllocListHead, AllocNone, AllocPoisoned, CacheHasFree, Cache0
  <1>3. numFree \in [Cpus -> Nat] /\ 0 \in Cpus
    BY ZonesAndCpus DEF TypeOK
  <1>4. /\ numFree' \in [Cpus -> Nat]
        /\ \A c \in Cpus : numFree'[c] = numFree[c] \/ lists[CacheOf(c)] = <<>>
    BY <1>2, <1>3
  <1>5. cacheHead' \in {"linked", "poisoned"}
    BY DEF AllocDma, AllocListHead, AllocNone, AllocPoisoned, allocVars, TypeOK
  <1>6. result' \in [kind : {"none", "null", "refused", "frame", "head"},
                     idx : Nat]
    <2>1. numFree[0] > 0 => numFree[0] - 1 \in Nat
      BY <1>3
    <2>2. result \in [kind : {"none", "null", "refused", "frame", "head"},
                      idx : Nat]
      BY DEF TypeOK
    <2> QED BY <2>1, <2>2 DEF AllocDma, AllocListHead, AllocNone, AllocPoisoned,
               CacheHasFree, Return, REFUSED, NULL, allocVars
  <1>7. TypeOK'
    <2>1. {maxPhys, pageIdx, e820id, cpupages, p}' \subseteq Nat
      BY <1>1 DEF TypeOK
    <2> QED BY <2>1, <1>1, <1>4, <1>5, <1>6 DEF TypeOK
  <1>8. CounterCoversCache'
    <2> SUFFICES ASSUME NEW c \in Cpus
                 PROVE  Len(lists[CacheOf(c)]) <= numFree'[c]
      BY <1>1 DEF CounterCoversCache
    <2>1. Len(lists[CacheOf(c)]) <= numFree[c]
      BY <1>1 DEF CounterCoversCache
    <2> QED BY <2>1, <1>4
  <1>9. BootInv'
    BY <1>1 DEF BootInv
  <1> QED BY <1>1, <1>7, <1>8, <1>9, ListsUntouched

(* Every step of the allocator, and every stuttering step, keeps Inv.       *)
LEMMA InvInductive == Inv /\ [Next]_vars => Inv'
  <1> SUFFICES ASSUME Inv, [Next]_vars
               PROVE  Inv'
    OBVIOUS
  <1>1. CASE BuildPageArray
    <2>1. CASE DetectPanics \/ DetectMemory \/ InitializeZones
      BY <2>1, StartInv
    <2>2. CASE ScanInRecord
      <3>1. window.usable \in BOOLEAN
        BY DEF Inv, TypeOK
      <3> QED BY <2>2, <3>1, PlaceFrameInv DEF ScanInRecord
    <2>3. CASE ScanHole
      <3>1. justLeft' \in BOOLEAN
        BY <2>3 DEF ScanHole, Inv, TypeOK
      <3> QED BY <2>3, <3>1, PlaceFrameInv DEF ScanHole
    <2>4. CASE ScanNextRecord \/ ScanDone
      BY <2>4, ScanControlInv
    <2>5. CASE CacheInit \/ CacheFilled
      BY <2>5, CacheControlInv
    <2>6. CASE CacheMove
      BY <2>6, CacheMoveInv
    <2> QED BY <1>1, <2>1, <2>2, <2>3, <2>4, <2>5, <2>6 DEF BuildPageArray
  <1>2. CASE AllocPage
    BY <1>2, AllocFrameInv, AllocOtherInv DEF AllocPage
  <1>3. CASE UNCHANGED vars
    <2>1. UNCHANGED <<pc, e820, e820count, maxPhys, pageIdx, e820id, justLeft,
                      window, frames, zone, lists, cpu, cpupages, p, numFree,
                      cacheHead, owned, result>>
      BY <1>3 DEF vars, scanVars, zoneVars, cacheVars, allocVars
    <2>2. TypeOK' /\ CounterCoversCache' /\ BootInv'
      BY <2>1 DEF Inv, TypeOK, CounterCoversCache, BootInv
    <2> QED BY <2>1, <2>2, ListsUntouched DEF Inv
  <1> QED BY <1>1, <1>2, <1>3 DEF Next, Stopped

(* The invariant holds at every step of boot and allocation. *)
LEMMA InvHolds == Spec => []Inv
  BY InitInv, InvInductive, PTL DEF Spec

(* Every variable of the allocator keeps its type, for every memory map,   *)
(* however malformed.                                                       *)
THEOREM TypeCorrect == Spec => []TypeOK
  <1>1. Inv => TypeOK
    BY DEF Inv
  <1> QED BY <1>1, InvHolds, PTL

(* build_page_array() and alloc_page() neither lose nor duplicate a frame:  *)
(* each is on exactly one list or with exactly one caller.                  *)
THEOREM NoFrameLostOrShared == Spec => []FramesPartitioned
  <1>1. Inv => FramesPartitioned
    BY DEF Inv
  <1> QED BY <1>1, InvHolds, PTL

(* The counters of both zones are exact at every step of the boot.          *)
THEOREM CountersExact == Spec => []ZoneCountersExact
  <1>1. Inv => ZoneCountersExact
    BY DEF Inv
  <1> QED BY <1>1, InvHolds, PTL

(* num_free_pages of a cache is never less than its list is long: a request *)
(* is not refused while frames are left.                                    *)
THEOREM CounterNeverShort == Spec => []CounterCoversCache
  <1>1. Inv => CounterCoversCache
    BY DEF Inv
  <1> QED BY <1>1, InvHolds, PTL

-----------------------------------------------------------------------------
(* The frame array behind the kernel image *)

(* The array has one entry for every page the scan has come to, and the    *)
(* scan stops at the end of a record of the table.                         *)
ArrayInv ==
  /\ Len(frames) = pageIdx
  /\ pageIdx # 0 => (pageIdx - 1) * PageSize < maxPhys
  /\ e820 \in E820Tables
  /\ pc \notin {"detect", "panic"} =>
       \E i \in DOMAIN e820 : maxPhys = RecordEnd(e820[i])

(* The scan stays within the memory whose size sets the frame array's. *)
LEMMA ArrayInvHolds == Spec => []ArrayInv
  <1>1. Init => ArrayInv
    BY DEF Init, ArrayInv
  <1>2. Inv /\ ArrayInv /\ [Next]_vars => ArrayInv'
    <2> SUFFICES ASSUME Inv, ArrayInv, [Next]_vars
                 PROVE  ArrayInv'
      OBVIOUS
    <2> USE DEF ArrayInv
    <2>1. pageIdx \in Nat /\ frames \in Seq([zone : Zones, reserved : BOOLEAN])
      BY DEF Inv, TypeOK
    <2>2. ASSUME NEW u \in BOOLEAN, Scanning, PlaceFrame(u)
          PROVE  ArrayInv'
      <3>1. /\ pageIdx' = pageIdx + 1 /\ pageIdx * PageSize < maxPhys
            /\ UNCHANGED <<pc, e820, maxPhys>>
        BY <2>2 DEF PlaceFrame, Scanning, CurrAddr
      <3>2. Len(frames') = pageIdx + 1
        BY <2>1, <2>2 DEF PlaceFrame
      <3>3. pageIdx' - 1 = pageIdx
        BY <2>1, <3>1
      <3> QED BY <3>1, <3>2, <3>3
    <2>3. CASE BuildPageArray
      <3>1. CASE DetectPanics
        BY <3>1 DEF DetectPanics, scanVars, zoneVars
      <3>2. CASE DetectMemory
        <4>1. pageIdx = 0
          BY <3>2 DEF DetectMemory, Inv, BootInv
        <4> QED BY <3>2, <4>1 DEF DetectMemory, zoneVars
      <3>3. CASE InitializeZones
        BY <3>3 DEF InitializeZones
      <3>4. CASE ScanInRecord \/ ScanHole
        <4>1. window.usable \in BOOLEAN
          BY DEF Inv, TypeOK
        <4> QED BY <3>4, <4>1, <2>2 DEF ScanInRecord, ScanHole
      <3>5. CASE ScanNextRecord \/ ScanDone
        BY <3>5 DEF ScanNextRecord, ScanDone, Scanning, zoneVars, scanVars
      <3>6. CASE CacheInit \/ CacheMove \/ CacheFilled
        BY <3>6 DEF CacheInit, CacheMove, CacheFilled, zoneVars, scanVars
      <3> QED BY <2>3, <3>1, <3>2, <3>3, <3>4, <3>5, <3>6 DEF BuildPageArray
    <2>4. CASE AllocPage
      BY <2>4 DEF AllocPage, AllocFrame, AllocListHead, AllocNone, AllocDma,
                  AllocPoisoned, AllocUnchanged, Return, scanVars, Inv, BootInv
    <2>5. CASE UNCHANGED vars
      BY <2>5 DEF vars, scanVars, zoneVars
    <2> QED BY <2>3, <2>4, <2>5 DEF Next, Stopped
  <1> QED BY <1>1, <1>2, InvHolds, PTL DEF Spec

(* Quotient and remainder. *)
LEMMA DivMod ==
  ASSUME NEW x \in Nat, NEW s \in Nat \ {0}
  PROVE  /\ x \div s \in Nat /\ x % s \in Nat /\ x % s < s
         /\ x = (x \div s) * s + (x % s)
  OBVIOUS

(* n entries for the pages below max are at most one more than the whole   *)
(* pages below max.                                                        *)
LEMMA EntriesBound ==
  ASSUME NEW s \in Nat \ {0}, NEW max \in Nat, NEW n \in Nat,
         n # 0 => (n - 1) * s < max
  PROVE  n - max \div s <= 1
  <1> PICK m \in Nat, r \in Nat : m = max \div s /\ max = m * s + r /\ r < s
    BY DivMod
  <1>1. CASE n = 0
    BY <1>1
  <1>2. CASE n # 0
    <2>1. n - 1 >= m + 1 => (n - 1) * s >= (m + 1) * s
      BY <1>2
    <2>2. (m + 1) * s = m * s + s
      OBVIOUS
    <2> QED BY <1>2, <2>1, <2>2
  <1> QED BY <1>1, <1>2

(* A page f behind page e = start + k + q, but in front of the unit where  *)
(* k pages and r units of the image, q pages and t units of the array and  *)
(* u more entries end, lies in what r, t and u make up.                    *)
LEMMA BehindKernelEnd ==
  ASSUME NEW s \in Nat \ {0}, NEW start \in Nat, NEW k \in Nat, NEW r \in Nat,
         NEW q \in Nat, NEW t \in Nat, NEW u \in Int, NEW desc \in Nat,
         NEW f \in Nat,
         desc <= s, r < s, t < s, u <= 1,
         f > start + k + q,
         f * s < start * s + (k * s + r) + ((q * s + t) + u * desc)
  PROVE  r + t + u * desc > s /\ f <= start + k + q + 2
  <1> PICK g \in Nat : g = f - (start + k + q)
    OBVIOUS
  <1> PICK x \in Int : x = u * desc
    OBVIOUS
  <1>1. f * s = (start + k + q) * s + g * s
    OBVIOUS
  <1>2. (start + k + q) * s = start * s + k * s + q * s
    OBVIOUS
  <1>3. g * s < r + t + x
    BY <1>1, <1>2
  <1>4. g >= 1
    OBVIOUS
  <1>5. g * s >= s
    BY <1>4
  <1>6. x <= s
    <2>1. u <= 0 => u * desc <= 0
      OBVIOUS
    <2>2. u = 1 => u * desc = desc
      OBVIOUS
    <2> QED BY <2>1, <2>2
  <1>7. g >= 3 => g * s >= 3 * s
    OBVIOUS
  <1>8. g <= 2
    BY <1>3, <1>6, <1>7
  <1> QED BY <1>3, <1>5, <1>8

(* What the scan takes for the last kernel page is a page number. *)
LEMMA KernelEndPageNat == Inv => KernelEndPage \in Nat
  <1> SUFFICES ASSUME Inv PROVE KernelEndPage \in Nat
    OBVIOUS
  <1> PICK s \in Nat \ {0}, a \in Nat, b \in Nat, d \in Nat, m \in Nat :
         /\ s = PageSize /\ a = KernelStartPage /\ b = KernelImageSize
         /\ d = FrameDescSize /\ m = maxPhys
    BY SizesAssumption DEF Inv, TypeOK
  <1>1. b \div s \in Nat /\ m \div s \in Nat
    OBVIOUS
  <1>2. (m \div s) * d \in Nat
    BY <1>1
  <1>3. ((m \div s) * d) \div s \in Nat
    BY <1>2
  <1> QED BY <1>1, <1>3 DEF KernelEndPage

(* Whatever the BIOS reports and wherever kdata_end lies, alloc_page()     *)
(* hands out no page of the DMA zone or of the kernel image, and of        *)
(* page_frames_array at most the two pages that the rounding of            *)
(* kernel_end_page can lose, and only if the remainders fill a page.       *)
THEOREM PoolIsFit == Spec => []PoolAvoidsKernelAndDma
  <1>1. Inv /\ ArrayInv => PoolAvoidsKernelAndDma
    <2> SUFFICES ASSUME Inv, ArrayInv, NEW f \in Pool
                 PROVE  /\ f >= DmaPages
                        /\ ~HoldsImage(f)
                        /\ HoldsKernel(f) => LeftOut > PageSize /\ f <= KernelEndPage + 2
      BY DEF PoolAvoidsKernelAndDma
    <2>1. f \in Nat /\ f >= DmaPages /\ ~IsKernelPage(f)
      <3>1. Pool \subseteq Nat
        <4>1. \A c \in Cpus : lists[CacheOf(c)] \in Seq(Nat)
          BY HeadsDistinct DEF Inv, TypeOK
        <4>2. \A c \in Cpus : FramesOn(CacheOf(c)) \subseteq Nat
          BY <4>1 DEF FramesOn, ToSet
        <4>3. owned \subseteq Nat
          BY DEF Inv, TypeOK
        <4> QED BY <4>2, <4>3 DEF Pool
      <3> QED BY <3>1 DEF Inv, PoolUnreserved
    <2>2. /\ maxPhys \in Nat /\ pageIdx \in Nat /\ Len(frames) = pageIdx
          /\ KernelEndPage \in Nat /\ maxPhys \div PageSize \in Nat
      <3>1. maxPhys \in Nat /\ pageIdx \in Nat
        BY DEF Inv, TypeOK
      <3>2. ASSUME NEW s \in Nat \ {0}, NEW m \in Nat PROVE m \div s \in Nat
        OBVIOUS
      <3> QED BY <3>1, <3>2, SizesAssumption, KernelEndPageNat DEF ArrayInv
    <2>3. KernelStartPage <= f => f > KernelEndPage
      BY <2>1, <2>2 DEF IsKernelPage
    <2>4. ~HoldsImage(f)
      <3> SUFFICES ASSUME HoldsImage(f) PROVE FALSE
        OBVIOUS
      <3> PICK s \in Nat \ {0}, a \in Nat, b \in Nat, q \in Nat :
             /\ s = PageSize /\ a = KernelStartPage /\ b = KernelImageSize
             /\ q = ((maxPhys \div PageSize) * FrameDescSize) \div PageSize
        <4>1. ASSUME NEW s \in Nat \ {0}, NEW m \in Nat, NEW d \in Nat
              PROVE  (m * d) \div s \in Nat
          <5>1. m * d \in Nat
            OBVIOUS
          <5> QED BY <5>1
        <4> QED BY <2>2, <4>1, SizesAssumption
      <3>1. f > a + b \div s + q /\ f * s < a * s + b
        BY <2>3 DEF HoldsImage, KernelEndPage
      <3> PICK k \in Nat : k = b \div s /\ b < (k + 1) * s
        <4>1. /\ b \div s \in Nat /\ b = s * (b \div s) + (b % s)
              /\ b % s < s /\ b % s \in Nat
          OBVIOUS
        <4> QED BY <4>1
      <3>2. f >= a + (k + 1)
        BY <2>1, <3>1
      <3>3. f * s >= a * s + (k + 1) * s
        BY <2>1, <3>2
      <3>4. /\ f * s \in Nat /\ a * s \in Nat /\ (k + 1) * s \in Nat
        BY <2>1
      <3> QED BY <3>1, <3>3, <3>4
    <2>5. ASSUME HoldsKernel(f)
          PROVE  LeftOut > PageSize /\ f <= KernelEndPage + 2
      <3> PICK s \in Nat \ {0}, a \in Nat, b \in Nat, d \in Nat, m \in Nat,
               x \in Nat, n \in Nat, e \in Nat :
             /\ s = PageSize /\ a = KernelStartPage /\ b = KernelImageSize
             /\ d = FrameDescSize /\ x = maxPhys /\ m = maxPhys \div PageSize
             /\ n = pageIdx /\ e = KernelEndPage
        BY <2>2, SizesAssumption
      <3>1. d <= s /\ n - x \div s <= 1
        BY SizesAssumption, EntriesBound DEF ArrayInv
      <3> PICK u \in Int : u = n - m
        OBVIOUS
      <3> PICK k \in Nat, r \in Nat : /\ k = b \div s /\ r = b % s
                                     /\ b = k * s + r /\ r < s
        BY DivMod
      <3>2. \E q, t \in Nat : /\ q = (m * d) \div s /\ t = (m * d) % s
                               /\ m * d = q * s + t /\ t < s
        <4>1. m * d \in Nat
          OBVIOUS
        <4>2. /\ (m * d) \div s \in Nat /\ (m * d) % s \in Nat /\ (m * d) % s < s
              /\ m * d = ((m * d) \div s) * s + ((m * d) % s)
          BY <4>1, DivMod
        <4> QED BY <4>2, Zenon
      <3> PICK q \in Nat, t \in Nat : /\ q = (m * d) \div s /\ t = (m * d) % s
                                     /\ m * d = q * s + t /\ t < s
        BY <3>2, Zenon
      <3>3. n * d = (q * s + t) + u * d
        <4>1. n = m + u
          OBVIOUS
        <4>2. ASSUME NEW i \in Nat, NEW h \in Int, NEW y \in Nat
              PROVE  (i + h) * y = i * y + h * y
          OBVIOUS
        <4>3. (m + u) * d = m * d + u * d
          BY <4>2
        <4> QED BY <4>1, <4>3
      <3>4. e = a + k + q
        BY DEF KernelEndPage
      <3>5. LeftOut = r + t + u * d
        BY <2>2 DEF LeftOut
      <3>6. f > a + k + q
        BY <2>3, <2>5, <3>4 DEF HoldsKernel
      <3>7. f * s < a * s + (k * s + r) + ((q * s + t) + u * d)
        <4>1. f * s < a * s + b + n * d
          BY <2>2, <2>5 DEF HoldsKernel, KernelTop
        <4> QED BY <3>3, <4>1
      <3>8. u <= 1
        BY <3>1
      <3>9. r + t + u * d > s /\ f <= a + k + q + 2
        BY <2>1, <3>1, <3>6, <3>7, <3>8, BehindKernelEnd
      <3> QED BY <3>4, <3>5, <3>9
    <2> QED BY <2>1, <2>4, <2>5
  <1> QED BY <1>1, InvHolds, ArrayInvHolds, PTL

-----------------------------------------------------------------------------
(* alloc_page() implements FramePool *)

(* Nothing was answered before build_page_array() has returned.             *)
Unasked == pc \notin {"ready", "halted", "wild"} => result = NoResult

(* The pool's view of the lists: its variables, and nothing of the others.  *)
LEMMA ViewUnchanged ==
  ASSUME UNCHANGED <<owned, result, cacheHead>>, lists'[Cache0] = lists[Cache0]
  PROVE  UNCHANGED PoolView!vars
  BY DEF PoolView!vars, FramesOn

(* A frame that initialize_percpu_caches() moves is one of those that the   *)
(* maps give rise to.                                                       *)
LEMMA ScannedIsNumbered ==
  ASSUME Inv, ArrayInv, pc \notin {"detect", "panic"}, NEW f \in Nat, f < pageIdx
  PROVE  f \in FrameNumbers
  <1> PICK i \in DOMAIN e820 : maxPhys = RecordEnd(e820[i])
    BY DEF ArrayInv
  <1> PICK s \in Nat \ {0}, n \in Nat, max \in Nat :
         s = PageSize /\ n = pageIdx /\ max = maxPhys
    BY SizesAssumption DEF Inv, TypeOK
  <1>1. (n - 1) * s < max
    BY DEF ArrayInv
  <1>2. f * s <= (n - 1) * s
    <2>1. f <= n - 1 /\ n - 1 \in Nat
      OBVIOUS
    <2> QED BY <2>1
  <1>3. f * s < max /\ f * s \in Nat
    <2>1. f * s \in Nat /\ (n - 1) * s \in Int
      OBVIOUS
    <2> QED BY <1>1, <1>2, <2>1
  <1>4. f <= max \div s
    <2> PICK q \in Nat : q = max \div s
      OBVIOUS
    <2>1. max < (q + 1) * s
      <3>1. max = s * q + (max % s) /\ max % s < s /\ max % s \in Nat
        OBVIOUS
      <3>2. s * q \in Nat /\ (q + 1) * s = s * q + s
        OBVIOUS
      <3> QED BY <3>1, <3>2
    <2>2. f * s < (q + 1) * s
      BY <1>3, <2>1
    <2>3. f >= q + 1 => f * s >= (q + 1) * s
      OBVIOUS
    <2> QED BY <2>2, <2>3
  <1>5. max \div s \in Nat /\ f \in 0 .. max \div s
    BY <1>4
  <1>6. e820 \in E820Tables /\ f \in 0 .. RecordEnd(e820[i]) \div PageSize
    BY <1>5 DEF ArrayInv
  <1> QED BY <1>6 DEF FrameNumbers

(* Every step is one of the pool, or does not concern it: a frame enters    *)
(* the pool only while nothing was answered yet, each that is returned was  *)
(* in it, and NULL means that there is none.                                *)
LEMMA StepOfPool ==
  ASSUME Inv, ArrayInv, Unasked, [Next]_vars
  PROVE  [PoolView!Next]_(PoolView!vars)
  <1>0. /\ \A h \in ListHeads : lists[h] \in Seq(Nat) /\ IsInjective(lists[h])
        /\ Cache0 \in ListHeads /\ 0 \in Cpus /\ numFree[0] \in Nat
        /\ DOMAIN lists = ListHeads
    BY HeadsDistinct, ZonesAndCpus DEF Inv, TypeOK, FramesPartitioned, Cache0
  <1>1. CASE DetectPanics \/ DetectMemory \/ ScanNextRecord \/ ScanDone
             \/ CacheFilled \/ AllocPoisoned \/ UNCHANGED vars
    <2>1. UNCHANGED <<lists, owned, result, cacheHead>>
      BY <1>1 DEF DetectPanics, DetectMemory, ScanNextRecord, ScanDone,
                  CacheFilled, AllocPoisoned, zoneVars, allocVars, vars
    <2> QED BY <2>1, ViewUnchanged
  <1>2. CASE InitializeZones
    <2>1. lists'[Cache0] = lists[Cache0] /\ UNCHANGED allocVars
      BY <1>0, <1>2 DEF InitializeZones, Cache0, CacheOf
    <2> QED BY <2>1, ViewUnchanged DEF allocVars
  <1>3. CASE ScanInRecord \/ ScanHole
    <2> PICK u \in BOOLEAN : PlaceFrame(u)
      BY <1>3 DEF ScanInRecord, ScanHole, Inv, TypeOK
    <2> PICK head \in ListHeads :
           /\ lists' = [lists EXCEPT ![head] = Append(@, pageIdx)]
           /\ head # Cache0
      <3>1. ZoneOf(pageIdx) \in Zones
        BY ZonesAndCpus DEF Inv, TypeOK
      <3>2. /\ PagesOf(ZoneOf(pageIdx)) \in ListHeads
            /\ ReservedOf(ZoneOf(pageIdx)) \in ListHeads
            /\ PagesOf(ZoneOf(pageIdx)) # Cache0
            /\ ReservedOf(ZoneOf(pageIdx)) # Cache0
        BY <3>1, HeadsDistinct, <1>0 DEF Cache0
      <3> QED BY <3>2 DEF PlaceFrame
    <2>1. lists'[Cache0] = lists[Cache0] /\ UNCHANGED allocVars
      BY <1>0 DEF PlaceFrame
    <2> QED BY <2>1, ViewUnchanged DEF allocVars
  <1>4. CASE CacheInit
    <2>1. lists' = [lists EXCEPT ![CacheOf(cpu)] = <<>>] /\ UNCHANGED allocVars
          /\ pc = "cache" /\ cpu \in Cpus
      BY <1>4 DEF CacheInit, Inv, TypeOK
    <2>2. lists[CacheOf(cpu)] = <<>>
      BY <2>1, ZonesAndCpus DEF Inv, BootInv
    <2>3. lists'[Cache0] = lists[Cache0]
      BY <1>0, <2>1, <2>2
    <2> QED BY <2>1, <2>3, ViewUnchanged DEF allocVars
  <1>5. CASE CacheMove
    <2>1. NormalPages \in ListHeads /\ NormalPages # Cache0
      BY HeadsDistinct, ZonesAndCpus DEF NormalPages, Cache0
    <2> PICK f \in Nat : f = Head(lists[NormalPages])
      BY <1>0, <1>5, <2>1 DEF CacheMove, MoreToMove
    <2>2. /\ lists' = [lists EXCEPT ![NormalPages] = Unlink(@),
                                    ![CacheOf(cpu)] = Append(@, f)]
          /\ UNCHANGED <<cacheHead, owned, result>> /\ pc = "move"
          /\ lists[NormalPages] # <<>>
      BY <1>5 DEF CacheMove, MoreToMove, allocVars
    <2>3. CASE CacheOf(cpu) # Cache0
      BY <1>0, <2>1, <2>2, <2>3, ViewUnchanged
    <2>4. CASE CacheOf(cpu) = Cache0
      <3>1. lists'[Cache0] = Append(lists[Cache0], f)
        BY <1>0, <2>1, <2>2, <2>4
      <3>2. FramesOn(Cache0)' = FramesOn(Cache0) \cup {f}
        BY <1>0, <3>1, AppendFacts DEF FramesOn
      <3>3. f \in FramesOn(NormalPages)
        BY <1>0, <2>1, <2>2, UnlinkFacts DEF FramesOn
      <3>4. f \notin FramesOn(Cache0)
        BY <1>0, <2>1, <3>3 DEF Inv, FramesPartitioned
      <3>5. f < pageIdx
        BY <3>3 DEF Inv, NormalFramesFit
      <3>6. f \in FrameNumbers
        BY <2>2, <3>5, ScannedIsNumbered
      <3>7. owned = {} /\ result = NoResult
        BY <2>2 DEF Inv, BootInv, Unasked
      <3>8. PoolView!Stock(f)
        BY <2>2, <3>2, <3>4, <3>7
           DEF PoolView!Stock, PoolView!Other, NoResult
      <3> QED BY <3>6, <3>8 DEF PoolView!Next
    <2> QED BY <2>3, <2>4
  <1>6. CASE AllocDma
    <2>1. PoolView!Refuse
      BY <1>6 DEF AllocDma, Return, REFUSED, PoolView!Refuse, PoolView!Other,
                  FramesOn
    <2> QED BY <2>1 DEF PoolView!Next
  <1>7. ASSUME NEW clean \in BOOLEAN, AllocFrame(clean)
        PROVE  [PoolView!Next]_(PoolView!vars)
    <2> PICK f \in Nat : f = Head(lists[Cache0])
      BY <1>0, <1>7 DEF AllocFrame
    <2>1. /\ lists' = [lists EXCEPT ![Cache0] = Unlink(@)]
          /\ owned' = owned \cup {f} /\ lists[Cache0] # <<>>
          /\ result' = [kind |-> "frame", idx |-> f] /\ cacheHead' = cacheHead
          /\ pc = "ready"
      BY <1>7 DEF AllocFrame, Return
    <2>2. lists'[Cache0] = Unlink(lists[Cache0])
      BY <1>0, <2>1
    <2>3. FramesOn(Cache0)' = FramesOn(Cache0) \ {f} /\ f \in FramesOn(Cache0)
      BY <1>0, <2>1, <2>2, UnlinkFacts DEF FramesOn
    <2>4. f \in FrameNumbers
      <3>1. f \in Pool
        BY <1>0, <2>3 DEF Pool, Cache0
      <3>2. f < pageIdx
        BY <3>1 DEF Inv, PoolUnreserved
      <3> QED BY <2>1, <3>2, ScannedIsNumbered
    <2>5. PoolView!Take(f)
      BY <2>1, <2>3 DEF PoolView!Take
    <2> QED BY <2>4, <2>5 DEF PoolView!Next
  <1>8. ASSUME NEW clean \in BOOLEAN, AllocListHead(clean)
        PROVE  [PoolView!Next]_(PoolView!vars)
    <2>1. /\ UNCHANGED <<lists, owned>> /\ lists[Cache0] = <<>>
          /\ cacheHead = "linked" /\ cacheHead' = "poisoned"
          /\ result'.kind = "head"
      BY <1>8 DEF AllocListHead, Return
    <2>2. PoolView!Exhaust
      BY <2>1 DEF PoolView!Exhaust, PoolView!Other, FramesOn, ToSet
    <2> QED BY <2>2 DEF PoolView!Next
  <1>9. ASSUME NEW clean \in BOOLEAN, AllocNone(clean)
        PROVE  [PoolView!Next]_(PoolView!vars)
    <2>1. /\ UNCHANGED <<lists, owned, cacheHead>> /\ result' = NULL
          /\ pc = "ready" /\ ~(numFree[0] > 0)
      BY <1>9 DEF AllocNone, Return, CacheHasFree
    <2>2. Len(lists[Cache0]) <= numFree[0] /\ Len(lists[Cache0]) \in Nat
      BY <1>0, <2>1 DEF Inv, CounterCoversCache, Cache0
    <2>3. lists[Cache0] = <<>>
      BY <1>0, <2>1, <2>2
    <2>4. FramesOn(Cache0) = {} /\ FramesOn(Cache0)' = {}
      BY <2>1, <2>3 DEF FramesOn, ToSet
    <2>5. PoolView!FindEmpty
      BY <2>1, <2>4 DEF PoolView!FindEmpty, PoolView!Empty, NULL
    <2> QED BY <2>5 DEF PoolView!Next
  <1> QED BY <1>1, <1>2, <1>3, <1>4, <1>5, <1>6, <1>7, <1>8, <1>9
          DEF Next, BuildPageArray, AllocPage, Stopped

(* No answer is given before the allocator is up.                           *)
LEMMA UnaskedHolds == Spec => []Unasked
  <1>1. Init => Unasked
    BY DEF Init, Unasked
  <1>2. Unasked /\ [Next]_vars => Unasked'
    <2> SUFFICES ASSUME Unasked, [Next]_vars PROVE Unasked'
      OBVIOUS
    <2>1. CASE BuildPageArray
      <3>1. result' = result /\ (pc' = "ready" \/ pc \notin {"ready", "halted", "wild"})
        BY <2>1 DEF BuildPageArray, DetectPanics, DetectMemory, InitializeZones,
           ScanInRecord, ScanHole, PlaceFrame, Scanning, ScanNextRecord,
           ScanDone, CacheInit, CacheMove, CacheFilled, allocVars
      <3>2. pc' = "ready" \/ result' = NoResult
        BY <3>1 DEF Unasked
      <3> QED BY <3>2 DEF Unasked
    <2>2. CASE AllocPage
      BY <2>2 DEF AllocPage, AllocFrame, AllocListHead, AllocNone, AllocDma,
                  AllocPoisoned, Return, Unasked
    <2>3. CASE UNCHANGED vars
      BY <2>3 DEF vars, allocVars, Unasked
    <2> QED BY <2>1, <2>2, <2>3 DEF Next, Stopped
  <1> QED BY <1>1, <1>2, PTL DEF Spec

(* For every memory map, and whatever alloc_page() is asked and answers,    *)
(* the cache of CPU 0 is a pool of frames: each that is returned was in it, *)
(* was never returned before, and NULL is returned only when it is empty.   *)
THEOREM PoolImplemented == Spec => PoolRefinement
  <1>1. Init => PoolView!Init
    BY HeadsDistinct, ZonesAndCpus
       DEF Init, PoolView!Init, PoolView!Other, NoResult, FramesOn, ToSet, Cache0
  <1>2. Inv /\ ArrayInv /\ Unasked /\ [Next]_vars
          => [PoolView!Next]_(PoolView!vars)
    BY StepOfPool
  <1> QED BY <1>1, <1>2, InvHolds, ArrayInvHolds, UnaskedHolds, PTL
          DEF Spec, PoolRefinement, PoolView!Spec

-----------------------------------------------------------------------------
(* What the scan takes for memory *)

(* The record that the scan looks at, if it is usable: its begin may have   *)
(* been rounded down, and its end was.                                      *)
WindowOfRecord ==
  pc = "scan" /\ window.usable /\ window.begin < window.end =>
    \E i \in DOMAIN e820 : /\ e820[i].usable
                           /\ MaskDown(e820[i].base) <= window.begin
                           /\ window.end = MaskDown(RecordEnd(e820[i]))

(* A frame that is flagged as reserved is on a list of reserved frames.     *)
ReservedLinked ==
  \A f \in 0 .. pageIdx - 1 :
    frames[f + 1].reserved => \E z \in Zones : f \in FramesOn(ReservedOf(z))

(* Every other frame ends in a usable record.                               *)
UnreservedIsRam ==
  \A f \in 0 .. pageIdx - 1 : ~frames[f + 1].reserved => EndsInRam(f)

RamInv == WindowOfRecord /\ ReservedLinked /\ UnreservedIsRam

(* The fields of a record are numbers, and so is where it ends.             *)
LEMMA RecordFacts ==
  ASSUME Inv
  PROVE  /\ \A i \in DOMAIN e820 :
              /\ e820[i].base \in Nat /\ e820[i].len \in Nat
              /\ e820[i].usable \in BOOLEAN /\ RecordEnd(e820[i]) \in Nat
         /\ DOMAIN e820 = 1 .. Len(e820) /\ Len(e820) \in Nat
         /\ pc \notin {"detect", "panic"} => e820count = Len(e820)
  <1>1. e820 \in Seq(E820Record)
    BY DEF Inv, TypeOK
  <1>2. \A i \in DOMAIN e820 : e820[i] \in E820Record
    BY <1>1
  <1>3. \A i \in DOMAIN e820 :
          /\ e820[i].base \in Nat /\ e820[i].len \in Nat
          /\ e820[i].usable \in BOOLEAN /\ RecordEnd(e820[i]) \in Nat
    BY <1>2 DEF E820Record, RecordEnd
  <1> QED BY <1>1, <1>3 DEF Inv, BootInv

(* PAGE_ADDR_MASK clears what an address is past the begin of its page.     *)
LEMMA MaskDownParts ==
  ASSUME NEW b \in Nat
  PROVE  \E x \in Nat, q \in Nat : /\ q < PageSize /\ b = x * PageSize + q
                                  /\ MaskDown(b) = x * PageSize
  <1> PICK s \in Nat \ {0} : s = PageSize
    BY SizesAssumption
  <1> PICK x \in Nat : x = b \div s
    OBVIOUS
  <1> PICK q \in Nat : q = b % s /\ q < s
    OBVIOUS
  <1>1. b = x * s + q
    OBVIOUS
  <1>2. MaskDown(b) = x * s
    BY DEF MaskDown
  <1> QED BY <1>1, <1>2

(* A page between a rounded begin and a rounded end: the record begins      *)
(* before the page ends, and ends with it or later.                         *)
LEMMA RoundedWindow ==
  ASSUME NEW b \in Nat, NEW e \in Nat, NEW f \in Nat,
         MaskDown(b) <= f * PageSize, f * PageSize < MaskDown(e)
  PROVE  b < (f + 1) * PageSize /\ (f + 1) * PageSize <= e
  <1> PICK s \in Nat \ {0} : s = PageSize
    BY SizesAssumption
  <1> PICK x \in Nat, q \in Nat :
         q < s /\ b = x * s + q /\ MaskDown(b) = x * s
    BY MaskDownParts
  <1> PICK y \in Nat, r \in Nat :
         r < s /\ e = y * s + r /\ MaskDown(e) = y * s
    BY MaskDownParts
  <1>1. x <= f
    <2>1. x * s <= f * s
      OBVIOUS
    <2>2. x >= f + 1 => x * s >= (f + 1) * s
      OBVIOUS
    <2>3. (f + 1) * s = f * s + s /\ x * s \in Nat /\ f * s \in Nat
      OBVIOUS
    <2> QED BY <2>1, <2>2, <2>3
  <1>2. f + 1 <= y
    <2>1. f * s < y * s
      OBVIOUS
    <2>2. y <= f => y * s <= f * s
      OBVIOUS
    <2>3. y * s \in Nat /\ f * s \in Nat
      OBVIOUS
    <2> QED BY <2>1, <2>2, <2>3
  <1>3. x * s <= f * s /\ (f + 1) * s = f * s + s /\ (f + 1) * s <= y * s
        /\ x * s \in Nat /\ f * s \in Nat /\ y * s \in Nat
    BY <1>1, <1>2
  <1> QED BY <1>3

(* The window after a step of the scan is that of the record loaded.        *)
LEMMA WindowKept == ASSUME Inv, RamInv, [Next]_vars PROVE WindowOfRecord'
  <1>0. window \in [begin : Nat, end : Nat, usable : BOOLEAN] /\ e820id \in Nat
    BY DEF Inv, TypeOK
  <1>1. CASE InitializeZones
    <2>1. /\ window' = [begin  |-> RecordAt(0).base,
                        end    |-> MaskDown(RecordEnd(RecordAt(0))),
                        usable |-> RecordAt(0).usable]
          /\ e820' = e820 /\ pc = "zones"
      BY <1>1 DEF InitializeZones
    <2>2. CASE 0 < e820count
      <3>1. RecordAt(0) = e820[1] /\ 1 \in DOMAIN e820
        BY <2>1, <2>2, RecordFacts DEF RecordAt
      <3>2. MaskDown(e820[1].base) <= e820[1].base
        <4> PICK b \in Nat : b = e820[1].base
          BY <3>1, RecordFacts
        <4> PICK x \in Nat, q \in Nat :
               b = x * PageSize + q /\ MaskDown(b) = x * PageSize
          BY MaskDownParts
        <4> PICK m \in Nat : m = x * PageSize
          BY SizesAssumption
        <4> QED OBVIOUS
      <3> QED BY <2>1, <3>1, <3>2 DEF WindowOfRecord
    <2>3. CASE ~(0 < e820count)
      <3>1. ~RecordAt(0).usable
        BY <2>3 DEF RecordAt
      <3> QED BY <2>1, <3>1 DEF WindowOfRecord
    <2> QED BY <2>2, <2>3
  <1>2. CASE ScanNextRecord
    <2>0. e820' = e820 /\ pc = "scan"
      BY <1>2 DEF ScanNextRecord, Scanning
    <2>1. CASE e820id < e820count
      <3> DEFINE next == RecordAt(e820id + 1)
      <3>1. window' = [begin  |-> MaskDown(next.base),
                       end    |-> MaskDown(RecordEnd(next)),
                       usable |-> next.usable]
        BY <1>2, <2>1 DEF ScanNextRecord
      <3>2. CASE e820id + 1 < e820count
        <4>1. next = e820[e820id + 2] /\ e820id + 2 \in DOMAIN e820
          BY <2>0, <3>2, <1>0, RecordFacts DEF RecordAt
        <4>2. MaskDown(next.base) \in Nat
          BY <4>1, RecordFacts, MaskDownNat
        <4> HIDE DEF next
        <4> QED BY <2>0, <3>1, <4>1, <4>2 DEF WindowOfRecord
      <3>3. CASE ~(e820id + 1 < e820count)
        <4>1. ~next.usable
          BY <3>3 DEF RecordAt
        <4> QED BY <3>1, <4>1 DEF WindowOfRecord
      <3> QED BY <3>2, <3>3
    <2>2. CASE ~(e820id < e820count)
      <3>1. window'.begin = 0 /\ window'.end = 0
        BY <1>0, <1>2, <2>2 DEF ScanNextRecord
      <3> QED BY <3>1 DEF WindowOfRecord
    <2> QED BY <2>1, <2>2
  <1>3. CASE ~InitializeZones /\ ~ScanNextRecord
    <2>1. pc' = "scan" => /\ pc = "scan" /\ UNCHANGED <<e820, window>>
      BY <1>3 DEF Next, BuildPageArray, AllocPage, Stopped, DetectPanics,
         DetectMemory, ScanInRecord, ScanHole, PlaceFrame, Scanning, ScanDone,
         CacheInit, CacheMove, CacheFilled, AllocFrame, AllocListHead, AllocNone,
         AllocDma, AllocPoisoned, Return, vars, scanVars
    <2> QED BY <2>1 DEF WindowOfRecord, RamInv
  <1> QED BY <1>1, <1>2, <1>3

(* Steps that place no frame change neither the array nor a list of         *)
(* reserved frames.                                                         *)
LEMMA ArrayUntouched ==
  ASSUME Inv, [Next]_vars, ~ScanInRecord, ~ScanHole
  PROVE  /\ UNCHANGED <<e820, pageIdx>>
         /\ pageIdx # 0 => frames' = frames
         /\ \A z \in Zones : FramesOn(ReservedOf(z))' = FramesOn(ReservedOf(z))
         /\ maxPhys' = maxPhys \/ pageIdx = 0
  <1>1. CASE DetectPanics \/ DetectMemory
    BY <1>1 DEF DetectPanics, DetectMemory, scanVars, zoneVars, FramesOn, Inv,
                BootInv
  <1>2. CASE InitializeZones
    <2>1. pageIdx = 0 /\ \A h \in ListHeads : lists[h] = <<>>
      BY <1>2 DEF InitializeZones, Inv, BootInv
    <2>2. \A h \in ListHeads : lists'[h] = <<>>
      BY <1>2, <2>1 DEF InitializeZones
    <2> QED BY <1>2, <2>1, <2>2, HeadsDistinct DEF InitializeZones, FramesOn
  <1>3. CASE ScanNextRecord \/ ScanDone \/ CacheFilled
    BY <1>3 DEF ScanNextRecord, ScanDone, CacheFilled, scanVars, zoneVars, FramesOn
  <1>4. ASSUME NEW h \in ListHeads, NEW g \in ListHeads,
               \A z \in Zones : h # ReservedOf(z) /\ g # ReservedOf(z),
               NEW a, NEW b, lists' = [lists EXCEPT ![h] = a, ![g] = b]
        PROVE  \A z \in Zones : FramesOn(ReservedOf(z))' = FramesOn(ReservedOf(z))
    BY <1>4, HeadsDistinct DEF FramesOn, Inv, TypeOK
  <1>5. CASE CacheInit
    <2>1. /\ lists' = [lists EXCEPT ![CacheOf(cpu)] = <<>>]
          /\ UNCHANGED <<e820, pageIdx, frames, maxPhys>>
      BY <1>5 DEF CacheInit, scanVars
    <2>2. CacheOf(cpu) \in ListHeads /\ \A z \in Zones : CacheOf(cpu) # ReservedOf(z)
      BY HeadsDistinct DEF Inv, TypeOK
    <2> QED BY <2>1, <2>2, HeadsDistinct DEF FramesOn, Inv, TypeOK
  <1>6. CASE CacheMove
    <2>1. /\ CacheOf(cpu) \in ListHeads /\ NormalPages \in ListHeads
          /\ \A z \in Zones : /\ CacheOf(cpu) # ReservedOf(z)
                              /\ NormalPages # ReservedOf(z)
      BY HeadsDistinct, ZonesAndCpus DEF NormalPages, Inv, TypeOK
    <2>2. \E a, b : lists' = [lists EXCEPT ![NormalPages] = a, ![CacheOf(cpu)] = b]
      BY <1>6 DEF CacheMove
    <2> QED BY <1>4, <1>6, <2>1, <2>2 DEF CacheMove, scanVars
  <1>7. CASE AllocPage
    <2>1. UNCHANGED <<e820, pageIdx, frames, maxPhys>>
      BY <1>7 DEF AllocPage, AllocFrame, AllocListHead, AllocNone, AllocDma,
                  AllocPoisoned, AllocUnchanged, scanVars
    <2>2. \/ lists' = lists
          \/ \E a : lists' = [lists EXCEPT ![Cache0] = a]
      BY <1>7 DEF AllocPage, AllocFrame, AllocListHead, AllocNone, AllocDma,
                  AllocPoisoned
    <2>3. Cache0 \in ListHeads /\ \A z \in Zones : Cache0 # ReservedOf(z)
      BY HeadsDistinct, ZonesAndCpus DEF Cache0
    <2> QED BY <2>1, <2>2, <2>3, HeadsDistinct DEF FramesOn, Inv, TypeOK
  <1>8. CASE UNCHANGED vars
    BY <1>8 DEF vars, scanVars, zoneVars, FramesOn
  <1> QED BY <1>1, <1>2, <1>3, <1>5, <1>6, <1>7, <1>8
          DEF Next, BuildPageArray, Stopped

(* The array grows by the frame placed, and keeps every earlier entry.      *)
LEMMA PlacedFrame ==
  ASSUME Inv, ArrayInv, NEW u \in BOOLEAN, PlaceFrame(u)
  PROVE  /\ pageIdx \in Nat /\ pageIdx' = pageIdx + 1
         /\ \A f \in 0 .. pageIdx - 1 : frames'[f + 1] = frames[f + 1]
         /\ frames'[pageIdx + 1].reserved <=> u \/ IsKernelPage(pageIdx)
         /\ \A z \in Zones :
              FramesOn(ReservedOf(z)) \subseteq FramesOn(ReservedOf(z))'
         /\ u \/ IsKernelPage(pageIdx) =>
              \E z \in Zones : pageIdx \in FramesOn(ReservedOf(z))'
  <1> PICK n \in Nat : n = pageIdx
    BY DEF Inv, TypeOK
  <1> PICK z \in Zones : z = ZoneOf(n)
    BY ZonesAndCpus
  <1> PICK res \in BOOLEAN : res <=> u \/ IsKernelPage(n)
    OBVIOUS
  <1> PICK head \in ListHeads : head = IF res THEN ReservedOf(z) ELSE PagesOf(z)
    BY HeadsDistinct
  <1>1. /\ frames' = Append(frames, [zone |-> z, reserved |-> res])
        /\ lists' = [lists EXCEPT ![head] = Append(@, n)]
        /\ pageIdx' = n + 1
    BY DEF PlaceFrame
  <1>2. frames \in Seq([zone : Zones, reserved : BOOLEAN]) /\ Len(frames) = n
    BY DEF Inv, TypeOK, ArrayInv
  <1>3. /\ \A f \in 0 .. n - 1 : frames'[f + 1] = frames[f + 1]
        /\ frames'[n + 1] = [zone |-> z, reserved |-> res]
    BY <1>1, <1>2
  <1>4. lists[head] \in Seq(Nat) /\ DOMAIN lists = ListHeads
    BY DEF Inv, TypeOK
  <1>5. lists'[head] = Append(lists[head], n)
        /\ \A h \in ListHeads : h # head => lists'[h] = lists[h]
    BY <1>1, <1>4
  <1>6. FramesOn(head)' = FramesOn(head) \cup {n}
        /\ \A h \in ListHeads : h # head => FramesOn(h)' = FramesOn(h)
    BY <1>4, <1>5, AppendFacts DEF FramesOn
  <1>7. \A y \in Zones : FramesOn(ReservedOf(y)) \subseteq FramesOn(ReservedOf(y))'
    BY <1>6, HeadsDistinct
  <1>8. res => n \in FramesOn(ReservedOf(z))'
    BY <1>6
  <1>9. frames'[pageIdx + 1].reserved <=> u \/ IsKernelPage(pageIdx)
    BY <1>3
  <1>10. u \/ IsKernelPage(pageIdx) =>
            \E y \in Zones : pageIdx \in FramesOn(ReservedOf(y))'
    BY <1>8
  <1> QED BY <1>1, <1>3, <1>7, <1>9, <1>10

(* The pages that the scan does not reserve are pages of usable records.    *)
LEMMA RamInvHolds == Spec => []RamInv
  <1>1. Init => RamInv
    BY DEF Init, RamInv, WindowOfRecord, ReservedLinked, UnreservedIsRam
  <1>2. Inv /\ ArrayInv /\ RamInv /\ [Next]_vars => RamInv'
    <2> SUFFICES ASSUME Inv, ArrayInv, RamInv, [Next]_vars
                 PROVE  ReservedLinked' /\ UnreservedIsRam'
      BY WindowKept DEF RamInv
    <2>0. pageIdx \in Nat /\ window.usable \in BOOLEAN
          /\ window.begin \in Nat /\ window.end \in Nat
      BY DEF Inv, TypeOK
    <2>1. CASE ~ScanInRecord /\ ~ScanHole
      <3>1. \A f : EndsInRam(f)' <=> EndsInRam(f)
        BY <2>1, ArrayUntouched DEF EndsInRam, RecordEnd
      <3>2. ReservedLinked'
        BY <2>0, <2>1, ArrayUntouched DEF RamInv, ReservedLinked
      <3>3. UnreservedIsRam'
        BY <2>0, <2>1, <3>1, ArrayUntouched DEF RamInv, UnreservedIsRam
      <3> QED BY <3>2, <3>3
    <2>2. ASSUME NEW u \in BOOLEAN, PlaceFrame(u), Scanning,
                 ~u => InWindow /\ window.usable
          PROVE  ReservedLinked' /\ UnreservedIsRam'
      <3>1. e820' = e820
        BY <2>2 DEF PlaceFrame
      <3>2. \A f : EndsInRam(f)' <=> EndsInRam(f)
        BY <3>1 DEF EndsInRam, RecordEnd
      <3>3. \A f \in 0 .. pageIdx' - 1 : f \in 0 .. pageIdx - 1 \/ f = pageIdx
        BY <2>2, PlacedFrame
      <3>4. ReservedLinked'
        <4> SUFFICES ASSUME NEW f \in 0 .. pageIdx' - 1, frames'[f + 1].reserved
                     PROVE  \E z \in Zones : f \in FramesOn(ReservedOf(z))'
          BY DEF ReservedLinked
        <4>1. CASE f \in 0 .. pageIdx - 1
          <5>1. frames[f + 1].reserved
            BY <2>2, <4>1, PlacedFrame
          <5>2. \E z \in Zones : f \in FramesOn(ReservedOf(z))
            BY <4>1, <5>1 DEF RamInv, ReservedLinked
          <5> QED BY <2>2, <5>2, PlacedFrame
        <4>2. CASE f = pageIdx
          BY <2>2, <4>2, PlacedFrame
        <4> QED BY <3>3, <4>1, <4>2
      <3>5. ~u => EndsInRam(pageIdx)
        <4> SUFFICES ASSUME ~u PROVE EndsInRam(pageIdx)
          OBVIOUS
        <4> PICK n \in Nat, a \in Nat : n = pageIdx /\ a = n * PageSize
          BY <2>0, SizesAssumption
        <4>1. window.begin <= a /\ a < window.end /\ window.usable /\ pc = "scan"
          BY <2>2 DEF InWindow, CurrAddr, Scanning
        <4>2. window.begin < window.end
          BY <2>0, <4>1
        <4> PICK i \in DOMAIN e820 :
                /\ e820[i].usable
                /\ MaskDown(e820[i].base) <= window.begin
                /\ window.end = MaskDown(RecordEnd(e820[i]))
          BY <4>1, <4>2 DEF RamInv, WindowOfRecord
        <4> PICK b \in Nat, e \in Nat : b = e820[i].base /\ e = RecordEnd(e820[i])
          BY RecordFacts
        <4>3. MaskDown(b) \in Nat
          BY MaskDownNat
        <4>4. MaskDown(b) <= n * PageSize /\ n * PageSize < MaskDown(e)
          BY <2>0, <4>1, <4>3
        <4>5. b < (n + 1) * PageSize /\ (n + 1) * PageSize <= e
          BY <4>4, RoundedWindow
        <4> QED BY <4>5 DEF EndsInRam
      <3>6. UnreservedIsRam'
        <4> SUFFICES ASSUME NEW f \in 0 .. pageIdx' - 1, ~frames'[f + 1].reserved
                     PROVE  EndsInRam(f)
          BY <3>2 DEF UnreservedIsRam
        <4>1. CASE f \in 0 .. pageIdx - 1
          BY <2>2, <4>1, PlacedFrame DEF RamInv, UnreservedIsRam
        <4>2. CASE f = pageIdx
          BY <2>2, <4>2, <3>5, PlacedFrame
        <4> QED BY <3>3, <4>1, <4>2
      <3> QED BY <3>4, <3>6
    <2>3. CASE ScanInRecord
      BY <2>0, <2>2, <2>3 DEF ScanInRecord
    <2>4. CASE ScanHole
      BY <2>2, <2>4 DEF ScanHole
    <2> QED BY <2>1, <2>3, <2>4
  <1> QED BY <1>1, <1>2, InvHolds, ArrayInvHolds, PTL DEF Spec

(* For every memory map, aligned or not, in order or not: what the zones    *)
(* and caches hold as free, and what alloc_page() handed out, are pages     *)
(* that end in usable memory.                                               *)
THEOREM FreeMemoryIsRam == Spec => []FreeIsRam
  <1>1. Inv /\ ArrayInv /\ RamInv => FreeIsRam
    <2> SUFFICES ASSUME Inv, ArrayInv, RamInv,
                        NEW f \in Pool \cup UNION {FramesOn(PagesOf(z)) : z \in Zones}
                 PROVE  EndsInRam(f)
      BY DEF FreeIsRam
    <2>1. f \in 0 .. pageIdx - 1
      BY HeadsDistinct DEF Inv, FramesPartitioned, Pool
    <2>2. \A z \in Zones : f \notin FramesOn(ReservedOf(z))
      BY HeadsDistinct DEF Inv, FramesPartitioned, Pool
    <2>3. ~frames[f + 1].reserved
      BY <2>1, <2>2 DEF RamInv, ReservedLinked
    <2> QED BY <2>1, <2>3 DEF RamInv, UnreservedIsRam
  <1> QED BY <1>1, InvHolds, ArrayInvHolds, RamInvHolds, PTL

-----------------------------------------------------------------------------
(* What the scan loses *)

(* Where the scan stands on a regular map: every record before the current  *)
(* one was passed, the current one was not, and unless it was only just     *)
(* loaded, the scan is inside it.  Here `continue' with the page unchanged  *)
(* and just_left set is what keeps the first page of a record from being    *)
(* taken for a hole.                                                        *)
ScanPosition ==
  /\ e820id <= e820count
  /\ \A j \in 1 .. e820id : RecordEnd(e820[j]) <= CurrAddr
  /\ e820id = e820count => window.begin = 0 /\ window.end = 0
  /\ e820id < e820count =>
       LET r == e820[e820id + 1]
       IN  /\ window = [begin |-> r.base, end |-> RecordEnd(r), usable |-> r.usable]
           /\ CurrAddr <= RecordEnd(r)
           /\ justLeft  => CurrAddr < RecordEnd(r)
           /\ ~justLeft => CurrAddr >= r.base

(* No page that was reserved so far is RAM that is not the kernel's.        *)
NoneLostYet ==
  \A f \in 0 .. pageIdx - 1 :
    frames[f + 1].reserved => ~PageIsRam(f) \/ IsKernelPage(f)

LossInv ==
  RegularMap /\ pc \notin {"detect", "zones", "panic"}
    => NoneLostYet /\ (pc = "scan" => ScanPosition)

(* On an aligned bound the masking does nothing.                            *)
LEMMA AlignedKept ==
  ASSUME NEW b \in Nat, b % PageSize = 0
  PROVE  MaskDown(b) = b /\ \E x \in Nat : b = x * PageSize
  <1> PICK s \in Nat \ {0} : s = PageSize
    BY SizesAssumption
  <1> PICK x \in Nat : x = b \div s
    OBVIOUS
  <1>1. b = x * s
    <2>1. b = s * x + (b % s)
      OBVIOUS
    <2> QED BY <2>1
  <1> QED BY <1>1 DEF MaskDown

(* Two page bounds are a page apart, or equal.                              *)
LEMMA PageApart ==
  ASSUME NEW x \in Nat, NEW y \in Nat, x * PageSize < y * PageSize
  PROVE  (x + 1) * PageSize <= y * PageSize
  <1> PICK s \in Nat \ {0} : s = PageSize
    BY SizesAssumption
  <1>1. x * s \in Nat /\ y * s \in Nat
    OBVIOUS
  <1>2. y <= x => y * s <= x * s
    OBVIOUS
  <1>3. x + 1 <= y
    BY <1>1, <1>2
  <1>4. (x + 1) * s <= y * s
    BY <1>3
  <1> QED BY <1>4

(* The bounds of the records of a regular map are page bounds, and so is    *)
(* where each ends.                                                         *)
LEMMA RegularBounds ==
  ASSUME Inv, RegularMap, NEW i \in DOMAIN e820
  PROVE  /\ MaskDown(e820[i].base) = e820[i].base
         /\ MaskDown(RecordEnd(e820[i])) = RecordEnd(e820[i])
         /\ \E x \in Nat : e820[i].base = x * PageSize
         /\ \E x \in Nat : RecordEnd(e820[i]) = x * PageSize
         /\ e820[i].base < RecordEnd(e820[i])
  <1> PICK b \in Nat, l \in Nat : b = e820[i].base /\ l = e820[i].len
    BY RecordFacts
  <1> PICK s \in Nat \ {0} : s = PageSize
    BY SizesAssumption
  <1>1. b % PageSize = 0 /\ l % PageSize = 0 /\ l > 0
    BY DEF RegularMap
  <1> PICK x \in Nat, y \in Nat : b = x * s /\ l = y * s
    BY <1>1, AlignedKept
  <1>2. RecordEnd(e820[i]) = (x + y) * s /\ x + y \in Nat
    <2>1. b + l = (x + y) * s
      OBVIOUS
    <2> QED BY <2>1 DEF RecordEnd
  <1>3. MaskDown((x + y) * s) = (x + y) * s
    <2> PICK z \in Nat : z = x + y
      OBVIOUS
    <2>1. z * s \in Nat /\ (z * s) \div s = z
      OBVIOUS
    <2>2. (z * s) \div PageSize = z
      BY <2>1
    <2> QED BY <2>2 DEF MaskDown
  <1>4. MaskDown(b) = b
    BY <1>1, AlignedKept
  <1>5. RecordEnd(e820[i]) > b
    <2>1. RecordEnd(e820[i]) = b + l
      BY DEF RecordEnd
    <2> QED BY <1>1, <2>1
  <1> QED BY <1>2, <1>3, <1>4, <1>5

(* Steps that place no frame keep what is said of those placed.             *)
LEMMA LossUntouched ==
  ASSUME Inv, NoneLostYet, [Next]_vars, ~ScanInRecord, ~ScanHole
  PROVE  NoneLostYet'
  <1>1. pageIdx \in Nat
    BY DEF Inv, TypeOK
  <1>2. CASE pageIdx = 0
    BY <1>1, <1>2, ArrayUntouched DEF NoneLostYet
  <1>3. CASE pageIdx # 0
    <2>1. /\ e820' = e820 /\ pageIdx' = pageIdx /\ frames' = frames
          /\ maxPhys' = maxPhys
      BY <1>3, ArrayUntouched
    <2>2. \A f : PageIsRam(f)' <=> PageIsRam(f)
      BY <2>1 DEF PageIsRam, RecordEnd
    <2>3. \A f : IsKernelPage(f)' <=> IsKernelPage(f)
      BY <2>1 DEF IsKernelPage, KernelEndPage
    <2> QED BY <2>1, <2>2, <2>3 DEF NoneLostYet
  <1> QED BY <1>2, <1>3

(* The scan starts inside the first record.                                 *)
LEMMA PositionStart ==
  ASSUME Inv, ArrayInv, RegularMap, InitializeZones
  PROVE  ScanPosition'
  <1>1. /\ window' = [begin  |-> RecordAt(0).base,
                      end    |-> MaskDown(RecordEnd(RecordAt(0))),
                      usable |-> RecordAt(0).usable]
        /\ UNCHANGED <<e820, e820count>> /\ pc = "zones"
        /\ pageIdx' = 0 /\ e820id' = 0 /\ justLeft' = FALSE
    BY DEF InitializeZones
  <1>2. e820count = Len(e820) /\ Len(e820) \in Nat /\ DOMAIN e820 = 1 .. Len(e820)
    BY <1>1, RecordFacts
  <1>3. 1 \in DOMAIN e820
    BY <1>1, <1>2 DEF ArrayInv
  <1>4. RecordAt(0) = e820[1]
    BY <1>2, <1>3 DEF RecordAt
  <1>5. e820[1].base = 0 /\ RecordEnd(e820[1]) \in Nat
    BY <1>3, RecordFacts DEF RegularMap
  <1>6. CurrAddr' = 0
    BY <1>1, SizesAssumption DEF CurrAddr
  <1>7. window' = [begin |-> e820[1].base, end |-> RecordEnd(e820[1]),
                   usable |-> e820[1].usable]
    BY <1>1, <1>3, <1>4, RegularBounds
  <1>8. RecordEnd(e820[1])' = RecordEnd(e820[1])
    BY <1>1 DEF RecordEnd
  <1> QED BY <1>1, <1>2, <1>3, <1>5, <1>6, <1>7, <1>8 DEF ScanPosition

(* A record is left only where it ends.                                     *)
LEMMA PositionNextRecord ==
  ASSUME Inv, RegularMap, ScanPosition, ScanNextRecord
  PROVE  ScanPosition'
  <1>1. /\ UNCHANGED <<e820, e820count, pageIdx>> /\ justLeft' = TRUE
        /\ pc = "scan" /\ ~justLeft /\ ~InWindow
    BY DEF ScanNextRecord, Scanning, LeftMark
  <1>2. /\ e820count = Len(e820) /\ Len(e820) \in Nat
        /\ DOMAIN e820 = 1 .. Len(e820) /\ e820id \in Nat
        /\ \A i \in DOMAIN e820 : RecordEnd(e820[i]) \in Nat /\ e820[i].base \in Nat
    BY <1>1, RecordFacts DEF Inv, TypeOK
  <1>3. CurrAddr' = CurrAddr /\ CurrAddr \in Nat
    BY <1>1, SizesAssumption DEF CurrAddr, Inv, TypeOK
  <1>4. \A i : RecordEnd(e820[i])' = RecordEnd(e820[i])
    BY <1>1 DEF RecordEnd
  <1>5. CASE e820id < e820count
    <2> PICK i \in DOMAIN e820 : i = e820id + 1
      BY <1>2, <1>5
    <2>1. e820id' = i
      BY <1>5 DEF ScanNextRecord
    <2>2. CurrAddr = RecordEnd(e820[i])
      <3>1. /\ window.begin = e820[i].base /\ window.end = RecordEnd(e820[i])
            /\ CurrAddr <= RecordEnd(e820[i]) /\ CurrAddr >= e820[i].base
        BY <1>1, <1>5 DEF ScanPosition
      <3> QED BY <1>1, <1>2, <1>3, <3>1 DEF InWindow
    <2>3. \A j \in 1 .. i : RecordEnd(e820[j]) <= CurrAddr
      <3>1. \A j \in 1 .. i : j \in 1 .. e820id \/ j = i
        BY <1>2
      <3>2. \A j \in 1 .. e820id : RecordEnd(e820[j]) <= CurrAddr
        BY DEF ScanPosition
      <3> QED BY <1>3, <2>2, <3>1, <3>2
    <2>4. i <= e820count
      BY <1>2
    <2>5. window' = [begin  |-> MaskDown(RecordAt(i).base),
                     end    |-> MaskDown(RecordEnd(RecordAt(i))),
                     usable |-> RecordAt(i).usable]
      BY <1>5 DEF ScanNextRecord
    <2>6. CASE i < e820count
      <3> PICK k \in DOMAIN e820 : k = i + 1
        BY <1>2, <2>6
      <3>1. RecordAt(i) = e820[k]
        BY <2>6 DEF RecordAt
      <3>2. /\ e820[k].base < RecordEnd(e820[k])
            /\ MaskDown(e820[k].base) = e820[k].base
            /\ MaskDown(RecordEnd(e820[k])) = RecordEnd(e820[k])
        BY RegularBounds
      <3>3. CurrAddr <= e820[k].base
        BY <1>2, <2>2 DEF RegularMap
      <3>4. CurrAddr < RecordEnd(e820[k])
        BY <1>2, <1>3, <3>2, <3>3
      <3>5. window' = [begin |-> e820[k].base, end |-> RecordEnd(e820[k]),
                       usable |-> e820[k].usable]
        BY <2>5, <3>1, <3>2
      <3> QED BY <1>1, <1>2, <1>3, <1>4, <2>1, <2>3, <2>4, <2>6, <3>4, <3>5
              DEF ScanPosition
    <2>7. CASE ~(i < e820count)
      <3>1. RecordAt(i) = [base |-> 0, len |-> 0, usable |-> FALSE]
        BY <2>7 DEF RecordAt
      <3>2. MaskDown(0) = 0
        <4> PICK s \in Nat \ {0} : s = PageSize
          BY SizesAssumption
        <4>1. 0 \div s = 0
          OBVIOUS
        <4>2. 0 \div PageSize = 0
          BY <4>1
        <4> QED BY <4>2 DEF MaskDown
      <3>3. window'.begin = 0 /\ window'.end = 0
        BY <2>5, <3>1, <3>2 DEF RecordEnd
      <3> QED BY <1>1, <1>2, <1>3, <1>4, <2>1, <2>3, <2>4, <2>7, <3>3
              DEF ScanPosition
    <2> QED BY <2>6, <2>7
  <1>6. CASE ~(e820id < e820count)
    <2>1. e820id' = e820id /\ window' = [window EXCEPT !.begin = 0, !.end = 0]
      BY <1>6 DEF ScanNextRecord
    <2>2. window'.begin = 0 /\ window'.end = 0
      BY <2>1 DEF Inv, TypeOK
    <2> QED BY <1>1, <1>2, <1>3, <1>4, <1>6, <2>1, <2>2 DEF ScanPosition
  <1> QED BY <1>5, <1>6

(* A page that lies in no usable record at its first unit is not RAM.       *)
LEMMA FirstUnit ==
  ASSUME NEW f \in Nat,
         \A i \in DOMAIN e820 : e820[i].usable /\ e820[i].base <= f * PageSize
                                 => RecordEnd(e820[i]) <= f * PageSize,
         \A i \in DOMAIN e820 : RecordEnd(e820[i]) \in Nat
  PROVE  ~PageIsRam(f)
  <1> PICK s \in Nat \ {0}, a \in Nat : s = PageSize /\ a = f * PageSize
    BY SizesAssumption
  <1>1. (f + 1) * PageSize - 1 = a + s - 1
    <2>1. (f + 1) * s = f * s + s
      OBVIOUS
    <2>2. f * s = a
      OBVIOUS
    <2> QED BY <2>1, <2>2
  <1>2. a \in f * PageSize .. (f + 1) * PageSize - 1
    BY <1>1
  <1> SUFFICES ASSUME PageIsRam(f) PROVE FALSE
    OBVIOUS
  <1>3. \E i \in DOMAIN e820 : /\ e820[i].usable
                               /\ e820[i].base <= a
                               /\ a < RecordEnd(e820[i])
    BY <1>2 DEF PageIsRam
  <1> QED BY <1>3

(* On a regular map a page that the scan reserves is not RAM, or it is the  *)
(* kernel's, and the scan stays where it says it is.                        *)
LEMMA PositionPlaced ==
  ASSUME Inv, RegularMap, ScanPosition, ScanInRecord \/ ScanHole
  PROVE  /\ ScanPosition'
         /\ ScanInRecord /\ ~window.usable => ~PageIsRam(pageIdx)
         /\ ScanHole => ~PageIsRam(pageIdx)
  <1> PICK n \in Nat : n = pageIdx
    BY DEF Inv, TypeOK
  <1> PICK s \in Nat \ {0} : s = PageSize
    BY SizesAssumption
  <1> PICK a \in Nat : a = n * s
    OBVIOUS
  <1>1. /\ UNCHANGED <<e820, e820count, e820id, window>> /\ pageIdx' = n + 1
        /\ pc = "scan" /\ (ScanInRecord => InWindow /\ justLeft' = FALSE)
        /\ (ScanHole => ~InWindow /\ justLeft /\ justLeft' = TRUE)
    BY DEF ScanInRecord, ScanHole, PlaceFrame, Scanning, Inv, TypeOK
  <1>2. /\ e820count = Len(e820) /\ Len(e820) \in Nat
        /\ DOMAIN e820 = 1 .. Len(e820) /\ e820id \in Nat
        /\ \A i \in DOMAIN e820 : RecordEnd(e820[i]) \in Nat /\ e820[i].base \in Nat
    BY <1>1, RecordFacts DEF Inv, TypeOK
  <1>3. CurrAddr = a /\ CurrAddr' = a + s /\ a + s = (n + 1) * s
    <2>1. (n + 1) * s = n * s + s
      OBVIOUS
    <2>2. CurrAddr = n * s /\ CurrAddr' = (n + 1) * s
      BY <1>1 DEF CurrAddr
    <2> QED BY <2>1, <2>2
  <1>4. \A i : RecordEnd(e820[i])' = RecordEnd(e820[i])
    BY <1>1 DEF RecordEnd
  <1>5. \A j \in 1 .. e820id : RecordEnd(e820[j]) <= a
    BY <1>3 DEF ScanPosition
  <1>6. \A j \in 1 .. e820id : RecordEnd(e820[j]) <= a + s
    <2>1. \A j \in 1 .. e820id : j \in DOMAIN e820
      BY <1>2 DEF ScanPosition
    <2> QED BY <1>2, <1>5, <2>1
  <1>7. \A b \in Nat : (\E x \in Nat : b = x * s) /\ a < b => a + s <= b
    <2> SUFFICES ASSUME NEW x \in Nat, a < x * s PROVE a + s <= x * s
      OBVIOUS
    <2>1. n * PageSize < x * PageSize
      OBVIOUS
    <2>2. (n + 1) * PageSize <= x * PageSize
      BY <2>1, PageApart
    <2> QED BY <2>2, <1>3
  <1>8. CASE e820id < e820count
    <2> PICK i \in DOMAIN e820 : i = e820id + 1
      BY <1>2, <1>8
    <2> PICK b \in Nat, e \in Nat : b = e820[i].base /\ e = RecordEnd(e820[i])
      BY <1>2
    <2>1. /\ window = [begin |-> b, end |-> e, usable |-> e820[i].usable]
          /\ a <= e /\ (justLeft => a < e) /\ (~justLeft => a >= b)
      BY <1>3, <1>8 DEF ScanPosition
    <2>2. /\ b < e /\ (\E x \in Nat : b = x * s) /\ (\E x \in Nat : e = x * s)
      BY RegularBounds
    <2>3. InWindow <=> b <= a /\ a < e
      BY <1>3, <2>1 DEF InWindow
    <2>4. CASE ScanInRecord
      <3>1. b <= a /\ a < e
        BY <1>1, <2>3, <2>4
      <3>2. a + s <= e /\ a + s >= b
        <4>1. a + s <= e
          BY <1>7, <2>2, <3>1
        <4> QED BY <3>1, <4>1
      <3>3. ScanPosition'
        BY <1>1, <1>2, <1>3, <1>4, <1>6, <1>8, <2>1, <2>4, <3>2 DEF ScanPosition
      <3>4. ASSUME ~window.usable PROVE ~PageIsRam(n)
        <4> SUFFICES ASSUME NEW j \in DOMAIN e820, e820[j].usable,
                            e820[j].base <= a
                     PROVE  RecordEnd(e820[j]) <= a
          BY <1>2, FirstUnit
        <4>1. j # i
          BY <2>1, <3>4
        <4>2. CASE j < i
          BY <1>2, <1>5, <4>2
        <4>3. CASE i < j
          <5>1. e <= e820[j].base
            BY <4>3 DEF RegularMap
          <5> QED BY <1>2, <3>1, <5>1
        <4> QED BY <1>2, <4>1, <4>2, <4>3
      <3>5. ~ScanHole
        BY <1>1, <2>4
      <3> QED BY <3>3, <3>4, <3>5
    <2>5. CASE ScanHole
      <3>1. a < b
        BY <1>1, <2>1, <2>3, <2>5
      <3>2. a + s <= b /\ a + s < e
        BY <1>7, <2>2, <3>1
      <3>3. ScanPosition'
        BY <1>1, <1>2, <1>3, <1>4, <1>6, <1>8, <2>1, <2>5, <3>2 DEF ScanPosition
      <3>4. ~PageIsRam(n)
        <4> SUFFICES ASSUME NEW j \in DOMAIN e820, e820[j].base <= a
                     PROVE  RecordEnd(e820[j]) <= a
          BY <1>2, FirstUnit
        <4>1. j # i
          BY <3>1
        <4>2. CASE j < i
          BY <1>2, <1>5, <4>2
        <4>3. CASE i < j
          <5>1. e <= e820[j].base
            BY <4>3 DEF RegularMap
          <5>2. a < e
            BY <2>2, <3>1
          <5>3. e820[j].base \in Nat
            BY <1>2
          <5> QED BY <5>1, <5>2, <5>3
        <4> QED BY <1>2, <4>1, <4>2, <4>3
      <3>5. ~ScanInRecord
        BY <1>1, <2>5
      <3> QED BY <3>3, <3>4, <3>5
    <2> QED BY <2>4, <2>5
  <1>9. CASE ~(e820id < e820count)
    <2>1. e820id = e820count /\ window.begin = 0 /\ window.end = 0
      BY <1>2, <1>9 DEF ScanPosition
    <2>2. ~InWindow
      BY <1>3, <2>1 DEF InWindow
    <2>3. ScanPosition'
      BY <1>1, <1>2, <1>3, <1>4, <1>6, <2>1 DEF ScanPosition
    <2>4. ~PageIsRam(n)
      BY <1>2, <1>5, <2>1, FirstUnit
    <2> QED BY <1>1, <2>2, <2>3, <2>4
  <1> QED BY <1>8, <1>9

(* No step of build_page_array() loses RAM on a regular map.                *)
LEMMA LossInvHolds == Spec => []LossInv
  <1>1. Init => LossInv
    BY DEF Init, LossInv
  <1>2. Inv /\ ArrayInv /\ LossInv /\ [Next]_vars => LossInv'
    <2> SUFFICES ASSUME Inv, ArrayInv, LossInv, [Next]_vars,
                        RegularMap', pc' \notin {"detect", "zones", "panic"}
                 PROVE  NoneLostYet' /\ (pc' = "scan" => ScanPosition')
      BY DEF LossInv
    <2>0. pageIdx \in Nat /\ window.usable \in BOOLEAN
      BY DEF Inv, TypeOK
    <2>1. e820' = e820
      BY ArrayUntouched DEF ScanInRecord, ScanHole, PlaceFrame
    <2>2. RegularMap
      BY <2>1 DEF RegularMap, RecordEnd
    <2>3. CASE InitializeZones
      <3>1. ScanPosition'
        BY <2>2, <2>3, PositionStart
      <3>2. NoneLostYet'
        BY <2>3 DEF InitializeZones, NoneLostYet
      <3> QED BY <3>1, <3>2
    <2>4. CASE ScanNextRecord
      <3>1. pc = "scan" /\ NoneLostYet /\ ScanPosition
        BY <2>2, <2>4 DEF ScanNextRecord, Scanning, LossInv
      <3>2. ~ScanInRecord /\ ~ScanHole
        BY <2>4 DEF ScanNextRecord, ScanInRecord, ScanHole
      <3> QED BY <2>2, <2>4, <3>1, <3>2, LossUntouched, PositionNextRecord
    <2>5. CASE ScanInRecord \/ ScanHole
      <3>1. pc = "scan" /\ NoneLostYet /\ ScanPosition
        BY <2>2, <2>5 DEF ScanInRecord, ScanHole, Scanning, LossInv
      <3> PICK u \in BOOLEAN :
             /\ PlaceFrame(u)
             /\ u => \/ ScanInRecord /\ ~window.usable
                     \/ ScanHole
        BY <2>0, <2>5 DEF ScanInRecord, ScanHole
      <3>2. ScanPosition' /\ (u => ~PageIsRam(pageIdx))
        BY <2>2, <2>5, <3>1, PositionPlaced
      <3>3. e820' = e820 /\ maxPhys' = maxPhys
        BY DEF PlaceFrame
      <3>4. \A f : PageIsRam(f)' <=> PageIsRam(f)
        BY <3>3 DEF PageIsRam, RecordEnd
      <3>5. \A f : IsKernelPage(f)' <=> IsKernelPage(f)
        BY <3>3 DEF IsKernelPage, KernelEndPage
      <3>6. NoneLostYet'
        <4> SUFFICES ASSUME NEW f \in 0 .. pageIdx' - 1, frames'[f + 1].reserved
                     PROVE  ~PageIsRam(f) \/ IsKernelPage(f)
          BY <3>4, <3>5 DEF NoneLostYet
        <4>1. CASE f \in 0 .. pageIdx - 1
          BY <3>1, <4>1, PlacedFrame DEF NoneLostYet
        <4>2. CASE f = pageIdx
          BY <3>2, <4>2, PlacedFrame
        <4>3. f \in 0 .. pageIdx - 1 \/ f = pageIdx
          BY PlacedFrame
        <4> QED BY <4>1, <4>2, <4>3
      <3> QED BY <3>2, <3>6
    <2>6. CASE ~(InitializeZones \/ ScanNextRecord \/ ScanInRecord \/ ScanHole)
      <3>1. /\ pc \notin {"detect", "zones", "panic"}
            /\ pc' = "scan" => pc = "scan" /\ UNCHANGED vars
        BY <2>6 DEF Next, BuildPageArray, AllocPage, Stopped, DetectPanics,
           DetectMemory, ScanDone, CacheInit, CacheMove, CacheFilled, AllocFrame,
           AllocListHead, AllocNone, AllocDma, AllocPoisoned, Return, vars
      <3>2. NoneLostYet'
        BY <2>2, <2>6, <3>1, LossUntouched DEF LossInv
      <3>3. ASSUME pc' = "scan" PROVE ScanPosition'
        <4>1. ScanPosition
          BY <2>2, <3>1, <3>3 DEF LossInv
        <4> QED BY <3>1, <3>3, <4>1 DEF ScanPosition, vars, scanVars, CurrAddr,
                                        RecordEnd
      <3> QED BY <3>2, <3>3
    <2> QED BY <2>3, <2>4, <2>5, <2>6
  <1> QED BY <1>1, <1>2, InvHolds, ArrayInvHolds, PTL DEF Spec

(* On a map whose records are page aligned, in order and apart, every page  *)
(* of RAM that the scan comes to is either free or the kernel's.            *)
THEOREM RamNotLost == Spec => []NoRamLost
  <1>1. Inv /\ LossInv => NoRamLost
    <2>1. Inv => pageIdx \in Nat /\ (pc \in {"detect", "zones", "panic"} => pageIdx = 0)
      BY DEF Inv, BootInv, TypeOK
    <2> QED BY <2>1 DEF LossInv, NoneLostYet, NoRamLost
  <1> QED BY <1>1, InvHolds, LossInvHolds, PTL

=============================================================================
