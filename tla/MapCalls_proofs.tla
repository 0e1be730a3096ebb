--------------------------- MODULE MapCalls_proofs ---------------------------
(***************************************************************************)
(* mm_map_pages() in the hands of any caller, for every size of the tables *)
(* and of the memory, every set of requests and every number of calls: its *)
(* tables always form a tree, also after calls that failed half way, and   *)
(* each call maps its pages to its frames one after the other and changes  *)
(* no other translation.                                                   *)
(***************************************************************************)
EXTENDS MapCalls, PageTable_proofs, SequenceTheorems

IInv == TablesInv /\ calls \in Nat

(* It holds when only the root exists and alloc_page() has other frames. *)
LEMMA InitIInv == Init => IInv
  <1> SUFFICES ASSUME Init PROVE IInv
    OBVIOUS
  <1>1. PICK n \in PoolSizes : InitTables([i \in 1 .. n |-> i])
    BY DEF Init
  <1>2. n \in Nat /\ 1 .. n \subseteq Frames \ {Root}
    BY CallsAssumption
  <1> DEFINE frames == [i \in 1 .. n |-> i]
  <1>3. frames \in Seq(Frames) /\ DOMAIN frames = 1 .. n
    BY <1>2
  <1>4. IsInjective(frames)
    BY <1>3 DEF IsInjective
  <1>5. Root \notin ToSet(frames)
    BY <1>2, <1>3 DEF ToSet
  <1>6. InitTables(frames)
    BY <1>1
  <1> HIDE DEF frames
  <1>7. TablesInv
    BY <1>3, <1>4, <1>5, <1>6, InitTablesInv
  <1> QED BY <1>7 DEF Init, IInv

(* Every call, every step of one and every stop keeps it. *)
LEMMA NextIInv == IInv /\ [Next]_vars => IInv'
  <1> SUFFICES ASSUME IInv, [Next]_vars PROVE IInv'
    OBVIOUS
  <1>1. TablesInv /\ calls \in Nat
    BY DEF IInv
  <1>2. CASE Call
    <2>1. PICK r \in Requests : MapPages(r)
      BY <1>2 DEF Call
    <2>2. r \in Request
      BY CallsAssumption
    <2>3. TablesInv'
      BY <1>1, <2>1, <2>2, MapPagesInv
    <2> QED BY <1>1, <1>2, <2>3 DEF Call, IInv
  <1>3. CASE Step
    BY <1>1, <1>3, MapStepInv DEF Step, IInv
  <1>4. CASE Stopped \/ UNCHANGED vars
    BY <1>1, <1>4, StutterInv DEF Stopped, vars, IInv
  <1> QED BY <1>2, <1>3, <1>4 DEF Next

(* So it holds at every step of every behaviour. *)
LEMMA IInvAlways == Spec => []IInv
  BY InitIInv, NextIInv, PTL DEF Spec

(* Every variable keeps the kind of value its C type and use give it: no   *)
(* pointer leaves its table by more than one entry, no table is anything   *)
(* but a page frame.                                                       *)
THEOREM Typed == Spec => []TypeOK
  <1>1. IInv => TypeOK
    BY DEF IInv, TablesInv, TypeOK
  <1> QED BY <1>1, IInvAlways, PTL

(* The tables of the four levels form a tree at every step of every        *)
(* sequence of calls: each is a frame of its own, one entry points to it,  *)
(* and alloc_page() does not have it any more.                             *)
THEOREM TreeAlways == Spec => []TablesFormTree
  <1>1. IInv => TablesFormTree
    BY DEF IInv, TablesInv
  <1> QED BY <1>1, IInvAlways, PTL

-----------------------------------------------------------------------------
(* What the callers see *)

(* What the kernel does not ask for: the walk of a request that reaches    *)
(* from one entry of the PML4 into the next, or up to the last range of    *)
(* level three, loses its place.  Refused requests are any.                *)
RequestsFit == \A r \in Requests : Acceptable(r) => Fits(r.virt, r.num)

PathsInv == IInv /\ PathInv

(* The frames of an accessor are numbers, or the invalid index.            *)
LEMMA PairTyped ==
  ASSUME NEW p \in Accessor, NEW i \in Nat \ {0}
  PROVE  (IF p.kind = "linear" THEN p.next + i - 1
          ELSE IF i <= Len(p.left) THEN p.left[i]
          ELSE INVALID_PAGE_IDX) \in Int
  <1>1. p.next \in Nat /\ p.left \in Seq(Nat)
    BY DEF Accessor
  <1>2. i <= Len(p.left) => p.left[i] \in Nat
    BY <1>1
  <1> QED BY <1>1, <1>2 DEF INVALID_PAGE_IDX

(* They are consecutive pages of the address space.                        *)
LEMMA PairsTyped ==
  ASSUME NEW v \in Nat, NEW e \in Nat, v <= e, e <= VirtPages, NEW p \in Accessor
  PROVE  /\ Pairs(v, e, p) \in Seq((0 .. VirtPages - 1) \X Int)
         /\ Len(Pairs(v, e, p)) = e - v
         /\ \A i \in 1 .. e - v : Pairs(v, e, p)[i][1] = v + i - 1
         /\ v = e => Pairs(v, e, p) = <<>>
  <1> PICK n \in Nat : n = e - v
    <2>1. e - v \in Nat
      OBVIOUS
    <2> QED BY <2>1
  <1> DEFINE x(i) == IF p.kind = "linear" THEN p.next + i - 1
                     ELSE IF i <= Len(p.left) THEN p.left[i]
                     ELSE INVALID_PAGE_IDX
  <1>1. \A i \in 1 .. n : x(i) \in Int
    <2> SUFFICES ASSUME NEW i \in 1 .. n PROVE x(i) \in Int
      OBVIOUS
    <2> QED BY PairTyped
  <1>2. Pairs(v, e, p) = [i \in 1 .. n |-> <<v + i - 1, x(i)>>]
    BY DEF Pairs
  <1> HIDE DEF x
  <1>3. \A i \in 1 .. n : <<v + i - 1, x(i)>> \in (0 .. VirtPages - 1) \X Int
    BY <1>1, RangesPositive
  <1> PICK s : s = Pairs(v, e, p)
    OBVIOUS
  <1> DEFINE S == (0 .. VirtPages - 1) \X Int
  <1>4. \A i \in 1 .. n : <<v + i - 1, x(i)>> \in S
    BY <1>3
  <1> HIDE DEF S
  <1>5. s \in Seq(S) /\ Len(s) = n
    <2>1. s \in [1 .. n -> S]
      BY <1>2, <1>4
    <2> QED BY <2>1
  <1>6. \A i \in 1 .. n : s[i][1] = v + i - 1
    BY <1>2
  <1>7. n = 0 => s = <<>>
    BY <1>5
  <1> QED BY <1>5, <1>6, <1>7 DEF S

(* The first of them is what the next iteration maps, and it leaves the    *)
(* others.                                                                 *)
LEMMA PairsNext ==
  ASSUME NEW v \in Nat, NEW e \in Nat, v < e, e <= VirtPages,
         NEW p \in Accessor, p.kind # "idle"
  PROVE  /\ Pairs(v, e, p) # <<>>
         /\ Pairs(v, e, p)[1][1] = v /\ Pairs(v, e, p)[1][2] = FrameOf(p)
         /\ Pairs(v + 1, e, Used(p)) = Tail(Pairs(v, e, p))
  <1> DEFINE S == (0 .. VirtPages - 1) \X Int
  <1>1. /\ p.kind \in {"linear", "list", "idle"} /\ p.next \in Nat
        /\ p.left \in Seq(Nat) /\ Used(p) \in Accessor
    BY AccessorTyped DEF Accessor
  <1> PICK n \in Nat : n = e - v - 1
    <2>1. e - v - 1 \in Nat
      OBVIOUS
    <2> QED BY <2>1
  <1> PICK s : s = Pairs(v, e, p)
    OBVIOUS
  <1> PICK t : t = Pairs(v + 1, e, Used(p))
    OBVIOUS
  <1>2. s \in Seq(S) /\ Len(s) = n + 1
    <2>1. v <= e
      OBVIOUS
    <2>2. Pairs(v, e, p) \in Seq(S) /\ Len(Pairs(v, e, p)) = e - v
      BY <2>1, PairsTyped
    <2> QED BY <2>2
  <1>3. t \in Seq(S) /\ Len(t) = n
    <2>1. v + 1 \in Nat /\ v + 1 <= e /\ e - (v + 1) = n
      OBVIOUS
    <2>2. Pairs(v + 1, e, Used(p)) \in Seq(S) /\ Len(Pairs(v + 1, e, Used(p))) = e - (v + 1)
      BY <1>1, <2>1, PairsTyped
    <2> QED BY <2>1, <2>2
  <1> HIDE DEF S
  <1>4. s # <<>>
    BY <1>2
  <1>5. s[1] = <<v, FrameOf(p)>>
    <2>1. 1 \in 1 .. e - v
      OBVIOUS
    <2>2. s[1] = <<v + 1 - 1, IF p.kind = "linear" THEN p.next + 1 - 1
                              ELSE IF 1 <= Len(p.left) THEN p.left[1]
                              ELSE INVALID_PAGE_IDX>>
      BY <2>1 DEF Pairs
    <2>3. v + 1 - 1 = v /\ p.next + 1 - 1 = p.next
      BY <1>1
    <2>4. 1 <= Len(p.left) <=> p.left # <<>>
      BY <1>1
    <2>5. p.left # <<>> => Head(p.left) = p.left[1]
      BY <1>1
    <2>6. CASE p.kind = "linear"
      BY <2>2, <2>3, <2>6 DEF FrameOf
    <2>7. CASE p.kind = "list"
      BY <2>2, <2>3, <2>4, <2>5, <2>7 DEF FrameOf
    <2> QED BY <1>1, <2>6, <2>7
  <1>6. ASSUME NEW i \in 1 .. n PROVE t[i] = s[i + 1]
    <2>1. i \in 1 .. e - (v + 1) /\ i + 1 \in 1 .. e - v
      OBVIOUS
    <2>2. s[i + 1] = <<v + (i + 1) - 1, IF p.kind = "linear" THEN p.next + (i + 1) - 1
                                        ELSE IF i + 1 <= Len(p.left) THEN p.left[i + 1]
                                        ELSE INVALID_PAGE_IDX>>
      BY <2>1 DEF Pairs
    <2> PICK q \in Accessor : q = Used(p)
      BY <1>1
    <2>3. t[i] = <<(v + 1) + i - 1, IF q.kind = "linear" THEN q.next + i - 1
                                    ELSE IF i <= Len(q.left) THEN q.left[i]
                                    ELSE INVALID_PAGE_IDX>>
      BY <2>1 DEF Pairs
    <2>4. (v + 1) + i - 1 = v + (i + 1) - 1
      OBVIOUS
    <2>5. CASE p.kind = "linear"
      <3>1. q.kind = "linear" /\ q.next = p.next + 1
        BY <1>1, <2>5 DEF Used, Accessor
      <3>2. q.next + i - 1 = p.next + (i + 1) - 1
        BY <1>1, <3>1
      <3> QED BY <2>2, <2>3, <2>4, <2>5, <3>1, <3>2
    <2>6. CASE p.kind = "list" /\ p.left # <<>>
      <3>1. q.kind = "list" /\ q.left = Tail(p.left)
        BY <1>1, <2>6 DEF Used, Accessor
      <3>2. Len(q.left) = Len(p.left) - 1 /\ Len(p.left) \in Nat
        BY <1>1, <2>6, <3>1
      <3>3. i <= Len(q.left) <=> i + 1 <= Len(p.left)
        BY <3>2
      <3>4. i <= Len(q.left) => q.left[i] = p.left[i + 1]
        BY <1>1, <2>6, <3>1, <3>2
      <3> QED BY <2>2, <2>3, <2>4, <2>6, <3>1, <3>3, <3>4
    <2>7. CASE p.kind = "list" /\ p.left = <<>>
      <3>1. q = p
        BY <2>7 DEF Used
      <3>2. Len(p.left) = 0
        BY <2>7
      <3>3. ~(i <= Len(p.left)) /\ ~(i + 1 <= Len(p.left))
        BY <3>2
      <3> QED BY <2>2, <2>3, <2>4, <2>7, <3>1, <3>3
    <2> QED BY <1>1, <2>5, <2>6, <2>7
  <1>7. t = Tail(s)
    <2>1. /\ Tail(s) \in Seq(S) /\ Len(Tail(s)) = n
          /\ \A i \in 1 .. n : Tail(s)[i] = s[i + 1]
      BY <1>2, <1>4, HeadTailProperties
    <2> QED BY <1>3, <1>6, <2>1, SeqEqual
  <1> QED BY <1>4, <1>5, <1>7

(* The view of the callers is a function of the variables.                 *)
LEMMA ViewIs ==
  /\ [v \in 0 .. VirtPages - 1 |-> Pin(v)] = [v \in 0 .. VirtPages - 1 |-> Translate(mem, v)]
  /\ [v \in 0 .. VirtPages - 1 |-> Pin(v)]'
       = [v \in 0 .. VirtPages - 1 |-> Translate(mem', v)]
  /\ walk = <<>> => StillToMap = <<>>
  /\ walk' = <<>> => StillToMap' = <<>>
  /\ walk # <<>> => StillToMap = Pairs(Top.virt, req.virt + req.num, pacc)
  /\ walk' # <<>> => StillToMap' = Pairs(Top'.virt, req'.virt + req'.num, pacc')
  <1>1. \A v : Pin(v) = Translate(mem, v)
    BY PinIs
  <1>2. [v \in 0 .. VirtPages - 1 |-> Pin(v)]'
          = [v \in 0 .. VirtPages - 1 |-> Translate(mem', v)]
    BY DEF Pin, EntryAt, Translate, T1, T2, T3, Ent
  <1>3. /\ walk = <<>> => StillToMap = <<>>
        /\ walk' = <<>> => StillToMap' = <<>>
        /\ walk # <<>> => StillToMap = Pairs(Top.virt, req.virt + req.num, pacc)
        /\ walk' # <<>> => StillToMap' = Pairs(Top'.virt, req'.virt + req'.num, pacc')
    BY DEF StillToMap
  <1> QED BY <1>1, <1>2, <1>3

(* The translations of the address space. *)
MapOf(m) == [v \in 0 .. VirtPages - 1 |-> Translate(m, v)]

(* Memory that translates every page alike looks alike.                    *)
LEMMA MapSame ==
  ASSUME NEW m, NEW n, \A v \in Nat : Translate(n, v) = Translate(m, v)
  PROVE  MapOf(n) = MapOf(m)
  <1>1. \A v \in 0 .. VirtPages - 1 : Translate(n, v) = Translate(m, v)
    BY RangesPositive
  <1> QED BY <1>1 DEF MapOf

(* What the actions of the abstract specification say of the variables.    *)
LEMMA AbstractSteps ==
  /\ (MapOf(mem') = MapOf(mem) /\ StillToMap' = StillToMap /\ ret' = ret)
       => UNCHANGED Translation!vars
  /\ (/\ ret \notin {"running", "wild"} /\ ret' = "running"
      /\ StillToMap' \in Seq((0 .. VirtPages - 1) \X Int) /\ StillToMap' # <<>>
      /\ \A i \in 1 .. Len(StillToMap') - 1 :
           StillToMap'[i + 1][1] = StillToMap'[i][1] + 1
      /\ MapOf(mem') = MapOf(mem))
       => Translation!Ask
  /\ (/\ ret \notin {"running", "wild"} /\ ret' = "EINVAL"
      /\ MapOf(mem') = MapOf(mem) /\ StillToMap' = StillToMap)
       => Translation!Refuse
  /\ (/\ StillToMap # <<>> /\ StillToMap' = Tail(StillToMap) /\ ret' = ret
      /\ MapOf(mem') = [MapOf(mem) EXCEPT ![StillToMap[1][1]] = StillToMap[1][2]])
       => Translation!MapNext
  /\ (/\ ret = "running" /\ StillToMap = <<>> /\ ret' = "OK"
      /\ MapOf(mem') = MapOf(mem) /\ StillToMap' = StillToMap)
       => Translation!Finish
  /\ (/\ ret = "running" /\ ret' \in {"ENOMEM", "wild"} /\ StillToMap' = <<>>
      /\ MapOf(mem') = MapOf(mem))
       => Translation!GiveUp
  <1>1. /\ [v \in 0 .. VirtPages - 1 |-> Pin(v)] = MapOf(mem)
        /\ [v \in 0 .. VirtPages - 1 |-> Pin(v)]' = MapOf(mem')
    BY ViewIs DEF MapOf
  <1> QED BY <1>1 DEF Translation!vars, Translation!Ask, Translation!Refuse,
                      Translation!MapNext, Translation!Finish, Translation!GiveUp

(* A call maps nothing yet and has all of its request before it.           *)
LEMMA CallView ==
  ASSUME PathsInv, RequestsFit, Call
  PROVE  Translation!Next
  <1>1. PICK r \in Requests : MapPages(r)
    BY DEF Call
  <1>2. r \in Request /\ (Acceptable(r) => Fits(r.virt, r.num))
    BY CallsAssumption DEF RequestsFit
  <1>3. /\ walk = <<>> /\ ret # "running" /\ mem' = mem
        /\ req'.virt = r.virt /\ req'.num = r.num /\ pacc' = r.pacc
        /\ Acceptable(r) => /\ ret' = "running"
                            /\ walk' # <<>> /\ Top'.virt = r.virt
        /\ ~Acceptable(r) => ret' = "EINVAL" /\ walk' = <<>>
    BY <1>1, <1>2, MapPagesPath DEF PathsInv, IInv
  <1>4. ret # "wild"
    BY <1>1 DEF MapPages
  <1>5. MapOf(mem') = MapOf(mem) /\ StillToMap = <<>>
    BY <1>3, ViewIs
  <1>6. CASE ~Acceptable(r)
    <2>1. StillToMap' = <<>>
      BY <1>3, <1>6, ViewIs
    <2>2. Translation!Refuse
      BY <1>3, <1>4, <1>5, <1>6, <2>1, AbstractSteps
    <2> QED BY <2>2 DEF Translation!Next
  <1>7. CASE Acceptable(r)
    <2> PICK v \in Nat, n \in Nat : v = r.virt /\ n = r.num
      BY <1>2, RangesPositive DEF Request
    <2>1. n > 0 /\ v + n <= VirtPages
      <3>1. n > 0 /\ v + n <= VirtPages - EntryRange[3]
        BY <1>2, <1>7 DEF Fits
      <3>2. EntryRange[3] \in Nat /\ VirtPages \in Nat
        BY RangesPositive DEF Levels
      <3> QED BY <3>1, <3>2
    <2>2. r.pacc \in Accessor
      BY <1>2 DEF Request
    <2>3. StillToMap' = Pairs(v, v + n, r.pacc)
      BY <1>3, <1>7, ViewIs
    <2> PICK s : s = StillToMap'
      OBVIOUS
    <2>4. /\ s \in Seq((0 .. VirtPages - 1) \X Int) /\ Len(s) = n
          /\ \A i \in 1 .. n : s[i][1] = v + i - 1
      <3>1. v <= v + n /\ v + n \in Nat /\ (v + n) - v = n
        OBVIOUS
      <3> PICK p \in Accessor, e \in Nat : p = r.pacc /\ e = v + n /\ e - v = n
        BY <2>2, <3>1
      <3>2. s = Pairs(v, e, p) /\ v <= e /\ e <= VirtPages
        BY <2>1, <2>3
      <3>3. /\ Pairs(v, e, p) \in Seq((0 .. VirtPages - 1) \X Int)
            /\ Len(Pairs(v, e, p)) = e - v
            /\ \A i \in 1 .. e - v : Pairs(v, e, p)[i][1] = v + i - 1
        <4>1. p \in Accessor /\ v \in Nat /\ e \in Nat
          OBVIOUS
        <4> QED BY ONLY <3>2, <4>1, PairsTyped
      <3> QED BY <3>2, <3>3
    <2>5. s # <<>>
      BY <2>1, <2>4
    <2>6. \A i \in 1 .. Len(s) - 1 : s[i + 1][1] = s[i][1] + 1
      <3> SUFFICES ASSUME NEW i \in 1 .. n - 1 PROVE s[i + 1][1] = s[i][1] + 1
        BY <2>4
      <3>1. i \in 1 .. n /\ i + 1 \in 1 .. n
        OBVIOUS
      <3>2. s[i + 1][1] = v + (i + 1) - 1 /\ s[i][1] = v + i - 1
        BY <2>4, <3>1
      <3> QED BY <3>2
    <2>7. Translation!Ask
      BY <1>3, <1>4, <1>5, <1>7, <2>4, <2>5, <2>6, AbstractSteps
    <2> QED BY <2>7 DEF Translation!Next
  <1> QED BY <1>6, <1>7

(* A step of the walk maps the next page of the request, ends it, or does  *)
(* not show.                                                               *)
LEMMA StepView ==
  ASSUME PathsInv, MapStep
  PROVE  [Translation!Next]_(Translation!vars)
  <1>0. TablesInv /\ PathInv
    BY DEF PathsInv, IInv
  <1>1. CASE Populate
    <2>1. MapOf(mem') = MapOf(mem)
      BY <1>0, <1>1, PopulatePath, MapSame
    <2>2. walk' = walk /\ pacc' = pacc /\ req' = req /\ ret' = ret
      BY <1>1 DEF Populate, callVars
    <2>3. StillToMap' = StillToMap
      BY <2>2 DEF StillToMap, Top
    <2> QED BY <2>1, <2>2, <2>3, AbstractSteps
  <1>2. CASE PopulateFails \/ Overrun
    <2>1. /\ walk # <<>> /\ walk' = <<>> /\ mem' = mem
          /\ ret' \in {"ENOMEM", "wild"}
      BY <1>2 DEF PopulateFails, Overrun, AtEntry
    <2>2. ret = "running" /\ StillToMap' = <<>>
      BY <1>0, <2>1, ViewIs DEF PathInv
    <2>3. Translation!GiveUp
      BY <2>1, <2>2, AbstractSteps
    <2> QED BY <2>3 DEF Translation!Next
  <1>3. CASE Descend
    <2>1. /\ walk # <<>> /\ walk' # <<>>
          /\ mem' = mem /\ pacc' = pacc /\ req' = req /\ ret' = ret
      <3>1. /\ walk # <<>> /\ mem' = mem /\ pacc' = pacc /\ req' = req /\ ret' = ret
        BY <1>3 DEF Descend, AtEntry
      <3>2. PathInv' /\ ret = "running"
        BY <1>0, <1>3, <3>1, DescendPath DEF PathInv
      <3> QED BY <3>1, <3>2 DEF PathInv
    <2>2. Top'.virt = Top.virt
      BY <1>0, <1>3, DescendPath
    <2>3. StillToMap' = StillToMap
      BY <2>1, <2>2, ViewIs
    <2> QED BY <2>1, <2>3, AbstractSteps
  <1>4. CASE MapPde2Range
    <2>1. /\ AtEntry({1}) /\ pacc.kind # "idle" /\ WritePte(FrameOf(pacc))
          /\ pacc' = Used(pacc) /\ req' = req /\ ret' = ret
      BY <1>4 DEF MapPde2Range
    <2>2. walk # <<>> /\ pacc \in Accessor
      BY <1>0, <2>1 DEF AtEntry, TablesInv, PageTableTypeOK
    <2>3. FrameOf(pacc) \in Int /\ FrameOf(pacc) # Absent
      BY <2>2, AccessorGives
    <2>4. /\ Top.virt \in 0 .. VirtPages - 1 /\ Top.virt < req.virt + req.num
          /\ walk' # <<>> /\ Top'.virt = Top.virt + 1
          /\ \A v \in 0 .. VirtPages - 1 :
               Translate(mem', v) = IF v = Top.virt THEN FrameOf(pacc)
                                    ELSE Translate(mem, v)
      BY <1>0, <2>1, <2>3, WritePtePath
    <2> PICK v \in Nat, e \in Nat : /\ v = Top.virt /\ e = req.virt + req.num
                                   /\ v < e /\ e <= VirtPages
      <3>1. req.virt + req.num \in Nat /\ req.virt + req.num < VirtPages /\ Top.virt \in Nat
        BY <1>0, <2>2, TopOnPath
      <3>2. req.virt + req.num <= VirtPages
        BY <3>1, RangesPositive
      <3> QED BY <2>4, <3>1, <3>2
    <2>5. StillToMap = Pairs(v, e, pacc) /\ StillToMap' = Pairs(v + 1, e, Used(pacc))
      BY <2>1, <2>2, <2>4, ViewIs
    <2>6. /\ StillToMap # <<>> /\ StillToMap' = Tail(StillToMap)
          /\ StillToMap[1][1] = v /\ StillToMap[1][2] = FrameOf(pacc)
      BY <2>1, <2>2, <2>5, PairsNext
    <2>7. MapOf(mem') = [MapOf(mem) EXCEPT ![v] = FrameOf(pacc)]
      <3> PICK n : n = mem'
        OBVIOUS
      <3>1. \A w \in 0 .. VirtPages - 1 :
              Translate(n, w) = IF w = v THEN FrameOf(pacc) ELSE Translate(mem, w)
        BY <2>4
      <3>2. MapOf(n) = [MapOf(mem) EXCEPT ![v] = FrameOf(pacc)]
        BY <3>1 DEF MapOf
      <3> QED BY <3>2
    <2>8. Translation!MapNext
      BY <2>1, <2>6, <2>7, AbstractSteps
    <2> QED BY <2>8 DEF Translation!Next
  <1>5. CASE Return
    <2>1. /\ walk # <<>> /\ mem' = mem /\ pacc' = pacc /\ req' = req
          /\ ret' = (IF Len(walk) = 1 THEN "OK" ELSE ret)
      BY <1>5 DEF Return
    <2>2. ret = "running" /\ MapOf(mem') = MapOf(mem) /\ pacc \in Accessor
      BY <1>0, <2>1 DEF PathInv, TablesInv, PageTableTypeOK
    <2>3. CASE Len(walk) = 1
      <3>1. walk' = <<>> /\ Top.virt = req.virt + req.num
        BY <1>0, <1>5, <2>3, ReturnPath
      <3>2. req.virt + req.num \in Nat /\ req.virt + req.num <= VirtPages
        <4>1. req.virt + req.num \in Nat /\ req.virt + req.num < VirtPages
          BY <1>0, <2>1, TopOnPath
        <4> QED BY <4>1, RangesPositive
      <3>3. Pairs(Top.virt, req.virt + req.num, pacc) = <<>>
        BY <2>2, <3>1, <3>2, PairsTyped
      <3>4. StillToMap = <<>> /\ StillToMap' = <<>>
        BY <2>1, <3>1, <3>3, ViewIs
      <3>5. Translation!Finish
        BY <2>1, <2>2, <2>3, <3>4, AbstractSteps
      <3> QED BY <3>5 DEF Translation!Next
    <2>4. CASE Len(walk) # 1
      <3>1. walk' # <<>> /\ Top'.virt = Top.virt
        BY <1>0, <1>5, <2>4, ReturnPath
      <3>2. StillToMap' = StillToMap
        BY <2>1, <3>1, ViewIs
      <3> QED BY <2>1, <2>2, <2>4, <3>2, AbstractSteps
    <2> QED BY <2>3, <2>4
  <1> QED BY <1>1, <1>2, <1>3, <1>4, <1>5 DEF MapStep

(* The walk keeps to its path. *)
LEMMA PathsAlways == ASSUME RequestsFit PROVE Spec => []PathsInv
  <1>1. Init => PathsInv
    <2>1. Init => PathInv
      BY DEF Init, InitTables, PathInv
    <2> QED BY <2>1, InitIInv DEF PathsInv
  <1>2. PathsInv /\ [Next]_vars => PathsInv'
    <2> SUFFICES ASSUME PathsInv, [Next]_vars PROVE PathsInv'
      OBVIOUS
    <2>0. TablesInv /\ PathInv /\ IInv'
      BY NextIInv DEF PathsInv, IInv
    <2>1. CASE Call
      <3>1. PICK r \in Requests : MapPages(r)
        BY <2>1 DEF Call
      <3>2. r \in Request /\ (Acceptable(r) => Fits(r.virt, r.num))
        BY CallsAssumption DEF RequestsFit
      <3>3. PathInv'
        BY <2>0, <3>1, <3>2, MapPagesPath
      <3> QED BY <2>0, <3>3 DEF PathsInv
    <2>2. CASE Step
      <3>1. PathInv'
        BY <2>0, <2>2, MapStepPath DEF Step
      <3> QED BY <2>0, <3>1 DEF PathsInv
    <2>3. CASE Stopped \/ UNCHANGED vars
      <3>1. mem' = mem /\ walk' = walk /\ req' = req /\ ret' = ret
        BY <2>3 DEF Stopped, vars, tableVars, callVars
      <3>2. PathInv'
        BY <2>0, <3>1, StillPath
      <3> QED BY <2>0, <3>2 DEF PathsInv
    <2> QED BY <2>1, <2>2, <2>3 DEF Next
  <1> QED BY <1>1, <1>2, PTL DEF Spec

(* As long as the requests that are accepted fit, the callers see exactly  *)
(* their pages being mapped, one after the other, each to the frame that   *)
(* the accessor has for it; nothing else is ever mapped, unmapped or       *)
(* moved, however many tables the walk creates or crosses and wherever it  *)
(* fails, and 0 is returned only when all of the request is mapped.        *)
THEOREM MapsExactly == ASSUME RequestsFit PROVE Spec => MapsTheRequest
  <1>1. Init => Translation!Init
    <2> SUFFICES ASSUME Init PROVE Translation!Init
      OBVIOUS
    <2>1. /\ mem = [f \in Frames |-> IF f = Root THEN Cleared ELSE Garbage]
          /\ walk = <<>> /\ ret = "OK"
      BY DEF Init, InitTables
    <2>2. ASSUME NEW v \in 0 .. VirtPages - 1 PROVE Pin(v) = INVALID_PAGE_IDX
      <3>0. v \in Nat /\ Root \in Frames /\ Absent \notin Frames
        BY RangesPositive, TableAssumption DEF Absent
      <3>1. Index(v, 4) \in Slots
        BY <3>0, IndexTyped DEF Levels
      <3>2. T3(mem, v) = Absent
        BY <2>1, <3>0, <3>1 DEF T3, Ent, Cleared
      <3>3. T2(mem, v) = Absent
        BY <3>0, <3>2 DEF T2, Ent
      <3>4. T1(mem, v) = Absent
        BY <3>0, <3>3 DEF T1, Ent
      <3>5. Translate(mem, v) = INVALID_PAGE_IDX
        BY <3>0, <3>4 DEF Translate, Ent
      <3> QED BY <3>5, PinIs
    <2>3. StillToMap = <<>>
      BY <2>1, ViewIs
    <2> QED BY <2>1, <2>2, <2>3 DEF Translation!Init
  <1>2. PathsInv /\ [Next]_vars => [Translation!Next]_(Translation!vars)
    <2> SUFFICES ASSUME PathsInv, [Next]_vars
                 PROVE  [Translation!Next]_(Translation!vars)
      OBVIOUS
    <2>1. CASE Call
      BY <2>1, CallView
    <2>2. CASE Step
      BY <2>2, StepView DEF Step
    <2>3. CASE Stopped \/ UNCHANGED vars
      <3>1. /\ mem' = mem /\ walk' = walk /\ req' = req /\ ret' = ret /\ pacc' = pacc
        BY <2>3 DEF Stopped, vars, tableVars, callVars
      <3>2. StillToMap' = StillToMap
        BY <3>1 DEF StillToMap, Top
      <3> QED BY <3>1, <3>2, AbstractSteps
    <2> QED BY <2>1, <2>2, <2>3 DEF Next
  <1> QED BY <1>1, <1>2, PathsAlways, PTL
          DEF Spec, MapsTheRequest, Translation!Spec
=============================================================================
