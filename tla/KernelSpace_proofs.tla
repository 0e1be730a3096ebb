-------------------------- MODULE KernelSpace_proofs --------------------------
(***************************************************************************)
(* The kernel's address space, for every layout, memory size, number of    *)
(* stacks, CPUs and threads: no caller of mm_map_pages(), and no failure   *)
(* half way through a boot or a creation of a task, breaks the tree of     *)
(* tables; no kernel stack is given to two tasks; no page that is mapped   *)
(* is mapped to anything else, so that the direct mapping stays; and what  *)
(* is mapped for a task is its own.                                        *)
(***************************************************************************)
EXTENDS KernelSpace, PageTable_proofs

MainLabels == {"map_dma", "dma_mapped", "map_direct", "direct_mapped",
               "init_stacks", "idle_tasks", "map_apic", "apic_mapped",
               "running", "panic", "wild", "halted"}
HasStack   == {"pages", "map_stack", "stack_mapped", "task_mapped"}

Job == [kind : {"none", "idle", "thread"},
        at : {"", "alloc", "stack"} \cup HasStack,
        ts : Frames, id : Nat, pages : Seq(Frames)]

StackBits == StackWords * WordBits

RestTyped ==
  /\ ram \in RamSizes /\ main \in MainLabels
  /\ freeItems \in 0 .. StackWords /\ bitmap \subseteq 0 .. StackBits - 1
  /\ job \in Job /\ threads \in Nat
  /\ tasks \in Seq([id : Nat, ts : Frames])

(* Stacks are taken from the first on, as many as the counter says. *)
BitsMatchCounter ==
  \/ freeItems = 0 /\ bitmap = {}
  \/ bitmap = (StackWords - freeItems) .. StackBits - 1

(* The stack of a task under creation is one of those. *)
StackFits == job.at \in HasStack => job.id < StackWords

(* A stack that a task or a task under creation has is nobody else's, and  *)
(* its bit is reset.                                                       *)
StacksTaken ==
  /\ \A i \in DOMAIN tasks : tasks[i].id \notin bitmap
  /\ \A i, j \in DOMAIN tasks : i # j => tasks[i].id # tasks[j].id
  /\ job.at \in HasStack =>
       job.id \notin bitmap /\ \A i \in DOMAIN tasks : tasks[i].id # job.id

(* There is no task before the stack allocator is initialised. *)
Early == {"map_dma", "dma_mapped", "map_direct", "direct_mapped", "init_stacks"}
NoTaskYet == main \in Early => tasks = <<>> /\ job = NoJob

StackInv ==
  RestTyped /\ BitsMatchCounter /\ StackFits /\ StacksTaken /\ NoTaskYet

IInv == TablesInv /\ StackInv

-----------------------------------------------------------------------------
(* Addresses *)

(* The place of a stack: its task structure is mapped at its beginning,    *)
(* and the stack itself ends a gap below its end.                          *)
Block(id) == KernelBase - (id + 1) * StackStep

(* Where the blocks of the stacks and their parts are.                     *)
LEMMA Blocks ==
  ASSUME NEW id \in 0 .. StackWords - 1
  PROVE  /\ Block(id) \in Nat /\ StackStep \in Nat /\ StackGap \in Nat /\ StackPages \in Nat
         /\ KernelBase - StackWords * StackStep \in Nat
         /\ KernelBase - StackWords * StackStep <= Block(id)
         /\ Block(id) + StackStep <= KernelBase
         /\ TaskAddress(id) = Block(id)
         /\ LowAddress(id) = Block(id) + (StackStep - StackGap - StackPages)
         /\ HighAddress(id) = Block(id) + (StackStep - StackGap)
         /\ StackGap > 0 /\ StackPages > 0 /\ StackPages + StackGap < StackStep
  <1>1. /\ StackPages \in Nat \ {0} /\ StackGap \in Nat \ {0} /\ StackStep \in Nat \ {0}
        /\ StackPages + StackGap < StackStep /\ StackWords \in Nat
        /\ KernelBase \in Nat /\ KernelBase % StackStep = 0
        /\ KernelBase > StackWords * StackStep
    BY LayoutAssumption, RangesPositive
  <1> PICK p \in Nat \ {0}, g \in Nat \ {0}, s \in Nat \ {0}, w \in Nat, k \in Nat :
             p = StackPages /\ g = StackGap /\ s = StackStep /\ w = StackWords
             /\ k = KernelBase
    BY <1>1
  <1> PICK d \in Nat : w = id + 1 + d
    <2>1. w - id - 1 \in Nat /\ w = id + 1 + (w - id - 1)
      BY <1>1
    <2> QED BY <2>1
  <1>2. id \in Nat
    OBVIOUS
  <1> PICK q \in Nat : k = q * s
    <2>1. k \div s \in Nat /\ k = (k \div s) * s + (k % s) /\ k % s = 0
      BY <1>1, DivParts
    <2>2. k = (k \div s) * s
      <3> PICK x \in Nat : x = (k \div s) * s
        BY <2>1
      <3> QED BY <2>1
    <2> QED BY <2>1, <2>2
  <1>3. w * s = id * s + s + d * s /\ id * s \in Nat /\ d * s \in Nat /\ w * s \in Nat
        /\ (id + 1) * s = id * s + s
    BY <1>2
  <1>4. q > id + 1 + d
    <2> SUFFICES ASSUME q <= w PROVE FALSE
      BY <1>2
    <2> PICK e \in Nat : w = q + e
      <3>1. w - q \in Nat /\ w = q + (w - q)
        OBVIOUS
      <3> QED BY <3>1
    <2>1. w * s = q * s + e * s /\ e * s \in Nat /\ q * s \in Nat
      OBVIOUS
    <2> QED BY <1>1, <2>1
  <1> PICK c \in Nat : q = id + 1 + c
    <2>1. q - id - 1 \in Nat /\ q = id + 1 + (q - id - 1)
      BY <1>2, <1>4
    <2> QED BY <2>1
  <1>5. k = id * s + s + c * s /\ c * s \in Nat
    BY <1>2
  <1> PICK x \in Nat, y \in Nat, z \in Nat : x = id * s /\ y = d * s /\ z = c * s
    BY <1>3, <1>5
  <1>6. Block(id) = z
    BY <1>3, <1>5 DEF Block
  <1>7. HighAddress(id) = z + (s - g) /\ LowAddress(id) = z + (s - g - p)
    BY <1>5 DEF HighAddress, LowAddress
  <1>8. TaskAddress(id) = z
    <2>1. s - g - p \in Nat /\ s - g - p < s
      BY <1>1
    <2>2. (c * s + (s - g - p)) \div s = c
      BY <2>1, DivUnique
    <2> QED BY <1>7, <2>2 DEF TaskAddress
  <1>9. k - w * s <= z /\ k - w * s \in Nat /\ z + s <= k
    BY <1>1, <1>3, <1>5
  <1> QED BY <1>1, <1>6, <1>7, <1>8, <1>9

(* The blocks of two stacks have no page in common.                        *)
LEMMA BlocksApart ==
  ASSUME NEW a \in 0 .. StackWords - 1, NEW b \in 0 .. StackWords - 1, a < b
  PROVE  Block(b) + StackStep <= Block(a)
  <1>1. StackStep \in Nat /\ KernelBase \in Nat /\ StackWords \in Nat
    BY LayoutAssumption, RangesPositive
  <1> PICK s \in Nat, k \in Nat : s = StackStep /\ k = KernelBase
    BY <1>1
  <1> PICK d \in Nat : b = a + 1 + d
    <2>1. b - a - 1 \in Nat /\ b = a + 1 + (b - a - 1)
      BY <1>1
    <2> QED BY <2>1
  <1>2. a \in Nat /\ b \in Nat
    BY <1>1
  <1>3. /\ (b + 1) * s = (a + 1) * s + s + d * s
        /\ (a + 1) * s \in Nat /\ d * s \in Nat /\ (b + 1) * s \in Nat
    BY <1>2
  <1> QED BY <1>3 DEF Block

(* The stack area does not reach down to address 0.                        *)
LEMMA StackAddresses ==
  ASSUME NEW id \in Nat, id < StackWords
  PROVE  /\ LowAddress(id) \in 0 .. VirtPages - 1
         /\ TaskAddress(id) \in 0 .. VirtPages - 1
  <1>1. id \in 0 .. StackWords - 1 /\ KernelBase \in Nat /\ KernelBase < VirtPages
        /\ VirtPages \in Nat
    BY LayoutAssumption, RangesPositive
  <1> PICK b \in Nat, s \in Nat, g \in Nat, p \in Nat :
         /\ s = StackStep /\ g = StackGap /\ p = StackPages
         /\ b + s <= KernelBase /\ g > 0 /\ p > 0 /\ p + g < s
         /\ TaskAddress(id) = b /\ LowAddress(id) = b + (s - g - p)
    BY <1>1, Blocks
  <1> QED BY <1>1

(* A call of mm_map_pages() with an address in the address space keeps the *)
(* tables.                                                                 *)
LEMMA AskInv ==
  ASSUME TablesInv, NEW v \in 0 .. VirtPages - 1, NEW n \in Nat,
         NEW a \in Accessor, Ask(v, n, a)
  PROVE  TablesInv'
  <1> DEFINE r == [virt |-> v, num |-> n, kernel |-> FALSE, pacc |-> a]
  <1>1. r \in Request
    BY DEF Request
  <1>2. MapPages(r)
    BY DEF Ask
  <1> HIDE DEF r
  <1> QED BY <1>1, <1>2, MapPagesInv

(* The accessors the callers make. *)
LEMMA AccessorsMade ==
  /\ \A n \in Nat : Linear(n) \in Accessor
  /\ \A s \in Seq(Nat) : List(s) \in Accessor
  /\ [Linear(0) EXCEPT !.kind = "idle"] \in Accessor
  <1>1. \A n \in Nat : Linear(n) \in Accessor
    BY DEF Linear, Accessor
  <1>2. \A s \in Seq(Nat) : List(s) \in Accessor
    BY DEF List, Accessor
  <1>3. [Linear(0) EXCEPT !.kind = "idle"] = [kind |-> "idle", next |-> 0, left |-> <<>>]
    BY DEF Linear
  <1>4. [kind |-> "idle", next |-> 0, left |-> <<>>] \in Accessor
    BY DEF Accessor
  <1> QED BY <1>1, <1>2, <1>3, <1>4

(* Numbers that the steps need to be numbers. *)
LEMMA NumbersTyped ==
  ASSUME RestTyped
  PROVE  /\ ram \in Nat \ {0} /\ DmaTotal - 1 \in Nat /\ 0 \in Frames
         /\ 1 \in 0 .. VirtPages - 1
         /\ KernelBase \in 0 .. VirtPages - 1 /\ KernelBase \in Nat
         /\ ApicPage \in 0 .. VirtPages - 1 /\ ApicPage \in Nat
         /\ StackPages \in Nat /\ StackBits \in Nat
  <1>1. ram \in Nat \ {0} /\ 0 .. ram - 1 \subseteq Frames /\ DmaPages \in Nat \ {0}
    BY LayoutAssumption DEF RestTyped
  <1>2. DmaTotal - 1 \in Nat
    BY <1>1 DEF DmaTotal
  <1>3. 0 \in Frames
    BY <1>1
  <1>4. /\ KernelBase \in 1 .. VirtPages - 1 /\ ApicPage \in 1 .. VirtPages - 1
        /\ StackPages \in Nat /\ StackWords \in Nat /\ VirtPages \in Nat
    BY LayoutAssumption, RangesPositive
  <1>5. StackBits \in Nat
    BY <1>4 DEF StackBits, WordBits
  <1> QED BY <1>1, <1>2, <1>3, <1>4, <1>5

(* The frames after the first n of the pool are in it, once each.          *)
LEMMA RestOfPool ==
  ASSUME NEW S, NEW s \in Seq(S), IsInjective(s), NEW n \in Nat, n <= Len(s)
  PROVE  /\ SubSeq(s, n + 1, Len(s)) \in Seq(S) /\ SubSeq(s, 1, n) \in Seq(S)
         /\ ToSet(SubSeq(s, n + 1, Len(s))) \subseteq ToSet(s)
         /\ IsInjective(SubSeq(s, n + 1, Len(s)))
  <1> DEFINE t == SubSeq(s, n + 1, Len(s))
  <1>1. Len(s) \in Nat /\ DOMAIN s = 1 .. Len(s)
    OBVIOUS
  <1>2. t \in Seq(S) /\ SubSeq(s, 1, n) \in Seq(S)
    BY <1>1
  <1>3. DOMAIN t = 1 .. Len(s) - n /\ \A i \in 1 .. Len(s) - n : t[i] = s[n + i]
    BY <1>1
  <1>4. \A i \in 1 .. Len(s) - n : n + i \in DOMAIN s
    BY <1>1
  <1> HIDE DEF t
  <1>5. ToSet(t) \subseteq ToSet(s)
    BY <1>3, <1>4 DEF ToSet
  <1>6. IsInjective(t)
    <2> SUFFICES ASSUME NEW i \in 1 .. Len(s) - n, NEW j \in 1 .. Len(s) - n,
                        t[i] = t[j]
                 PROVE  i = j
      BY <1>3 DEF IsInjective
    <2>1. s[n + i] = s[n + j] /\ n + i \in DOMAIN s /\ n + j \in DOMAIN s
      BY <1>3, <1>4
    <2>2. n + i = n + j
      BY <2>1 DEF IsInjective
    <2> QED BY <1>1, <2>2
  <1> QED BY <1>2, <1>5, <1>6 DEF t

-----------------------------------------------------------------------------
(* The steps keep the invariant *)

(* It holds when only the root exists. *)
LEMMA InitIInv == Init => IInv
  <1> SUFFICES ASSUME Init PROVE IInv
    OBVIOUS
  <1>1. PICK n \in PoolSizes : /\ n = 0 \/ DmaPages + n <= ram
                               /\ InitTables([i \in 1 .. n |-> DmaPages + i - 1])
    BY DEF Init
  <1> DEFINE frames == [i \in 1 .. n |-> DmaPages + i - 1]
  <1>2. /\ n \in Nat /\ DmaPages \in Nat /\ ram \in Nat \ {0}
        /\ 0 .. ram - 1 \subseteq Frames /\ Root < DmaPages /\ Root \in Nat
    BY LayoutAssumption, TableAssumption DEF Init
  <1>3. \A i \in 1 .. n : DmaPages + i - 1 \in Frames /\ DmaPages + i - 1 # Root
    BY <1>1, <1>2
  <1>4. frames \in Seq(Frames) /\ DOMAIN frames = 1 .. n
    BY <1>2, <1>3
  <1>5. IsInjective(frames)
    BY <1>2, <1>4 DEF IsInjective
  <1>6. Root \notin ToSet(frames)
    BY <1>3, <1>4 DEF ToSet
  <1>7. InitTables(frames)
    BY <1>1
  <1> HIDE DEF frames
  <1>8. TablesInv
    BY <1>4, <1>5, <1>6, <1>7, InitTablesInv
  <1>9. 0 \in Frames
    BY <1>2
  <1>10. NoJob \in Job /\ NoJob.at \notin HasStack
    BY <1>9 DEF NoJob, Job, HasStack
  <1>11. StackWords \in Nat /\ StackBits \in Nat
    BY LayoutAssumption DEF StackBits, WordBits
  <1>12. StackInv
    BY <1>10, <1>11
       DEF Init, StackInv, RestTyped, BitsMatchCounter, StackFits,
         StacksTaken, NoTaskYet, MainLabels
  <1> QED BY <1>8, <1>12 DEF IInv

(* The boot up to the stack allocator, and the APIC page. *)
LEMMA BootKeeps ==
  ASSUME IInv,
         MapDma \/ DmaMapped \/ MapDirect \/ DirectMapped \/ MapApic \/ ApicMapped
  PROVE  IInv'
  <1>1. TablesInv /\ StackInv /\ RestTyped
    BY DEF IInv, StackInv
  <1>2. /\ ram' = ram /\ freeItems' = freeItems /\ bitmap' = bitmap
        /\ job' = job /\ tasks' = tasks /\ threads' = threads
    BY DEF MapDma, DmaMapped, MapDirect, DirectMapped, MapApic, ApicMapped,
           taskVars, stackVars
  <1>3. main' \in MainLabels /\ (main' \in Early => main \in Early)
    <2>1. ASSUME NEW next \in MainLabels, NEW good \in BOOLEAN, Answered,
                 AfterMapping(next, good)
          PROVE  main' \in {next, "panic", "wild"}
      <3>1. ret \in {"OK", "EINVAL", "ENOMEM", "wild"}
        BY <1>1, <2>1 DEF TablesInv, PageTableTypeOK, Answered
      <3> QED BY <2>1, <3>1 DEF AfterMapping
    <2>2. CASE DmaMapped
      BY <2>1, <2>2 DEF DmaMapped, MainLabels, Early, Verified
    <2>3. CASE DirectMapped
      BY <2>1, <2>3 DEF DirectMapped, MainLabels, Early, Verified
    <2>4. CASE MapDma \/ MapDirect \/ MapApic \/ ApicMapped
      BY <2>4 DEF MapDma, MapDirect, MapApic, ApicMapped, MainLabels, Early
    <2> QED BY <2>2, <2>3, <2>4
  <1>4. StackInv'
    BY <1>1, <1>2, <1>3 DEF StackInv, RestTyped, BitsMatchCounter, StackFits,
         StacksTaken, NoTaskYet
  <1>5. TablesInv'
    <2>1. CASE MapDma
      BY <1>1, <2>1, NumbersTyped, AccessorsMade, AskInv DEF MapDma
    <2>2. CASE MapDirect
      BY <1>1, <2>2, NumbersTyped, AccessorsMade, AskInv DEF MapDirect
    <2>3. CASE MapApic
      BY <1>1, <2>3, NumbersTyped, AccessorsMade, AskInv DEF MapApic
    <2>4. CASE DmaMapped \/ DirectMapped \/ ApicMapped
      BY <1>1, <2>4, StutterInv DEF DmaMapped, DirectMapped, ApicMapped
    <2> QED BY <2>1, <2>2, <2>3, <2>4
  <1> QED BY <1>4, <1>5 DEF IInv

(* What the steps of a creation make of the job.                           *)
LEMMA JobTyped ==
  ASSUME RestTyped
  PROVE  /\ NoJob \in Job /\ NoJob.at \notin HasStack
         /\ \A k \in {"idle", "thread"} :
              LET j == [NoJob EXCEPT !.kind = k, !.at = "alloc"]
              IN  j \in Job /\ j.at \notin HasStack
         /\ \A f \in Frames :
              LET j == [job EXCEPT !.ts = f, !.at = "stack"]
              IN  j \in Job /\ j.at \notin HasStack
         /\ \A i \in Nat : \A l \in HasStack :
              LET j == [job EXCEPT !.id = i, !.at = l]
              IN  j \in Job /\ j.id = i
         /\ \A ps \in Seq(Frames) :
              LET j == [job EXCEPT !.pages = ps, !.at = "map_stack"]
              IN  j \in Job /\ j.id = job.id
         /\ \A l \in HasStack :
              LET j == [job EXCEPT !.at = l] IN j \in Job /\ j.id = job.id
  <1>1. 0 \in Frames
    BY NumbersTyped
  <1>2. NoJob \in Job /\ NoJob.at \notin HasStack
    BY <1>1 DEF NoJob, Job, HasStack
  <1> PICK b \in Job : b = job
    BY DEF RestTyped
  <1>3. ASSUME NEW k \in {"idle", "thread"}
        PROVE  LET j == [NoJob EXCEPT !.kind = k, !.at = "alloc"]
               IN  j \in Job /\ j.at \notin HasStack
    <2> PICK z \in Job : z = NoJob
      BY <1>2
    <2>1. LET j == [z EXCEPT !.kind = k, !.at = "alloc"]
          IN  j \in Job /\ j.at \notin HasStack
      BY DEF Job, HasStack
    <2> QED BY <2>1
  <1>4. \A f \in Frames : LET j == [b EXCEPT !.ts = f, !.at = "stack"]
                         IN  j \in Job /\ j.at \notin HasStack
    BY DEF Job, HasStack
  <1>5. \A i \in Nat : \A l \in HasStack : LET j == [b EXCEPT !.id = i, !.at = l]
                                          IN  j \in Job /\ j.id = i
    BY DEF Job
  <1>6. \A ps \in Seq(Frames) : LET j == [b EXCEPT !.pages = ps, !.at = "map_stack"]
                               IN  j \in Job /\ j.id = b.id
    BY DEF Job, HasStack
  <1>7. \A l \in HasStack : LET j == [b EXCEPT !.at = l] IN j \in Job /\ j.id = b.id
    BY DEF Job
  <1> QED BY <1>2, <1>3, <1>4, <1>5, <1>6, <1>7

(* Steps that take or give no stack.                                       *)
LEMMA SameStacks ==
  ASSUME StackInv, UNCHANGED <<ram, freeItems, bitmap, tasks>>,
         threads' \in Nat, main' \in MainLabels, job' \in Job,
         job'.at \in HasStack => job.at \in HasStack /\ job'.id = job.id,
         main' \notin Early \/ UNCHANGED <<main, job>>
  PROVE  StackInv'
  <1>1. ram' = ram /\ freeItems' = freeItems /\ bitmap' = bitmap /\ tasks' = tasks
    OBVIOUS
  <1>2. RestTyped'
    BY <1>1 DEF StackInv, RestTyped
  <1>3. BitsMatchCounter'
    BY <1>1 DEF StackInv, BitsMatchCounter
  <1>4. StackFits'
    BY <1>1 DEF StackInv, StackFits
  <1>5. StacksTaken'
    BY <1>1 DEF StackInv, StacksTaken
  <1>6. NoTaskYet'
    BY <1>1 DEF StackInv, NoTaskYet
  <1> QED BY <1>2, <1>3, <1>4, <1>5, <1>6 DEF StackInv

(* A job is under way only after the boot of the stack allocator.          *)
LEMMA JobIsLate == StackInv /\ job.kind # "none" => main \in MainLabels \ Early
  <1>1. NoJob.kind = "none"
    BY DEF NoJob
  <1> QED BY <1>1 DEF StackInv, RestTyped, NoTaskYet

(* alloc_page() for the stack chunk, a task structure or the stack pages   *)
(* of a thread.                                                            *)
LEMMA AllocationsKeep ==
  ASSUME IInv, InitStackAllocator \/ AllocTaskStruct \/ AllocStackPages
  PROVE  IInv'
  <1>1. TablesInv /\ StackInv /\ RestTyped
    BY DEF IInv, StackInv
  <1>2. /\ pool \in Seq(Frames) /\ IsInjective(pool) /\ mem \in [Frames -> [Slots -> Int]]
    BY <1>1 DEF TablesInv, PageTableTypeOK, PoolFresh
  <1>3. UNCHANGED callVars
    BY DEF InitStackAllocator, AllocTaskStruct, AllocStackPages
  <1>4. CASE InitStackAllocator
    <2>1. /\ mem' = mem /\ ram' = ram /\ job' = job
          /\ tasks' = tasks /\ threads' = threads
      BY <1>4 DEF InitStackAllocator
    <2>2. CASE /\ pool # <<>> /\ pool' = Tail(pool)
               /\ freeItems' = StackWords /\ bitmap' = 0 .. StackBits - 1
               /\ main' = "idle_tasks"
      <3>1. /\ pool' \in Seq(Frames) /\ IsInjective(pool')
            /\ ToSet(pool') \subseteq ToSet(pool)
        BY <1>2, <2>2, TailFacts
      <3>2. TablesInv'
        BY <1>1, <1>2, <1>3, <2>1, <3>1, TakeFramesInv
      <3>3. freeItems' \in 0 .. StackWords /\ StackWords - freeItems' = 0
        BY <2>2, LayoutAssumption
      <3>4. BitsMatchCounter'
        BY <2>2, <3>3 DEF BitsMatchCounter, StackBits
      <3>5. RestTyped'
        BY <1>1, <2>1, <2>2, <3>3 DEF RestTyped, MainLabels, StackBits
      <3>6. tasks = <<>> /\ job = NoJob
        BY <1>1, <1>4 DEF InitStackAllocator, StackInv, NoTaskYet, Early
      <3>7. StackFits' /\ StacksTaken' /\ NoTaskYet'
        <4>1. tasks' = <<>> /\ job' = NoJob /\ DOMAIN tasks' = {}
          BY <2>1, <3>6
        <4>2. job'.at \notin HasStack
          BY <1>1, <4>1, JobTyped
        <4> QED BY <4>1, <4>2 DEF StackFits, StacksTaken, NoTaskYet
      <3> QED BY <3>2, <3>4, <3>5, <3>7 DEF IInv, StackInv
    <2>3. CASE /\ main' \in {"panic", "wild"}
               /\ pool' = pool /\ freeItems' = freeItems /\ bitmap' = bitmap
      <3>1. TablesInv'
        BY <1>1, <1>3, <2>1, <2>3, StutterInv DEF tableVars
      <3>2. main' \in MainLabels \ Early
        BY <2>3 DEF MainLabels, Early
      <3>3. StackInv'
        BY <1>1, <2>1, <2>3, <3>2, SameStacks DEF RestTyped
      <3> QED BY <3>1, <3>3 DEF IInv
    <2> QED BY <1>4, <2>2, <2>3 DEF InitStackAllocator, StackBits
  <1>5. CASE AllocTaskStruct
    <2>1. /\ ram' = ram /\ freeItems' = freeItems /\ bitmap' = bitmap
          /\ tasks' = tasks /\ threads' = threads
      BY <1>5 DEF AllocTaskStruct, stackVars
    <2>4. main \in MainLabels \ Early
      BY <1>1, <1>5, JobIsLate DEF AllocTaskStruct, JobAt
    <2>2. CASE /\ pool # <<>> /\ pool' = Tail(pool) /\ main' = main
               /\ job' = [job EXCEPT !.ts = Head(pool), !.at = "stack"]
               /\ mem' = [mem EXCEPT ![Head(pool)] = Cleared]
      <3>1. Head(pool) \in Frames /\ Head(pool) \in ToSet(pool)
        BY <1>2, <2>2, TailFacts
      <3>2. Cleared \in [Slots -> Int]
        BY DEF Cleared, Absent
      <3>3. /\ mem' \in [Frames -> [Slots -> Int]]
            /\ \A t \in Frames \ ToSet(pool) : mem'[t] = mem[t]
        BY <1>2, <2>2, <3>1, <3>2
      <3>4. TablesInv'
        BY <1>1, <1>2, <1>3, <2>2, <3>3, TailFacts, TakeFramesInv
      <3>5. job' \in Job /\ job'.at \notin HasStack
        BY <1>1, <2>2, <3>1, JobTyped
      <3>6. StackInv'
        BY <1>1, <2>1, <2>2, <2>4, <3>5, SameStacks DEF RestTyped
      <3> QED BY <3>4, <3>6 DEF IInv
    <2>3. CASE NoPage /\ UNCHANGED <<mem, pool>>
      <3>1. TablesInv'
        BY <1>1, <1>3, <2>3, StutterInv DEF tableVars
      <3>2. job' = NoJob /\ main' \in MainLabels \ Early
        BY <2>3, <2>4 DEF NoPage, GiveUp, MainLabels, Early
      <3>3. StackInv'
        BY <1>1, <2>1, <3>2, JobTyped, SameStacks DEF RestTyped
      <3> QED BY <3>1, <3>3 DEF IInv
    <2> QED BY <1>5, <2>2, <2>3 DEF AllocTaskStruct
  <1>6. CASE AllocStackPages
    <2>1. /\ ram' = ram /\ freeItems' = freeItems /\ bitmap' = bitmap
          /\ tasks' = tasks /\ threads' = threads /\ mem' = mem
      BY <1>6 DEF AllocStackPages, stackVars
    <2>2. StackPages \in Nat
      BY <1>1, NumbersTyped
    <2>5. main \in MainLabels \ Early
      BY <1>1, <1>6, JobIsLate DEF AllocStackPages, JobAt
    <2>3. CASE /\ Len(pool) >= StackPages /\ main' = main
               /\ job' = [job EXCEPT !.pages = SubSeq(pool, 1, StackPages),
                                     !.at = "map_stack"]
               /\ pool' = SubSeq(pool, StackPages + 1, Len(pool))
      <3>1. /\ pool' \in Seq(Frames) /\ SubSeq(pool, 1, StackPages) \in Seq(Frames)
            /\ ToSet(pool') \subseteq ToSet(pool) /\ IsInjective(pool')
        BY <1>2, <2>2, <2>3, RestOfPool
      <3>2. TablesInv'
        BY <1>1, <1>2, <1>3, <2>1, <3>1, TakeFramesInv
      <3>3. job' \in Job /\ job'.id = job.id
        BY <1>1, <2>3, <3>1, JobTyped
      <3>4. job.at \in HasStack
        BY <1>6 DEF AllocStackPages, JobAt, HasStack
      <3>5. StackInv'
        BY <1>1, <2>1, <2>3, <2>5, <3>3, <3>4, SameStacks DEF RestTyped
      <3> QED BY <3>2, <3>5 DEF IInv
    <2>4. CASE pool' = <<>> /\ job' = NoJob /\ main' \in {main, "wild"}
      <3>1. pool' \in Seq(Frames) /\ IsInjective(pool') /\ ToSet(pool') = {}
        BY <2>4 DEF IsInjective, ToSet
      <3>2. TablesInv'
        BY <1>1, <1>2, <1>3, <2>1, <3>1, TakeFramesInv
      <3>3. main' \in MainLabels \ Early
        BY <2>4, <2>5 DEF MainLabels, Early
      <3>4. StackInv'
        BY <1>1, <2>1, <2>4, <3>3, JobTyped, SameStacks DEF RestTyped
      <3> QED BY <3>2, <3>4 DEF IInv
    <2> QED BY <1>6, <2>3, <2>4 DEF AllocStackPages
  <1> QED BY <1>4, <1>5, <1>6

(* The beginning of a creation. *)
LEMMA StartKeeps ==
  ASSUME IInv, StartIdleTask \/ KernelThread
  PROVE  IInv'
  <1>1. TablesInv /\ StackInv /\ RestTyped
    BY DEF IInv, StackInv
  <1>2. /\ ram' = ram /\ freeItems' = freeItems /\ bitmap' = bitmap
        /\ tasks' = tasks /\ UNCHANGED tableVars
    BY DEF StartIdleTask, KernelThread, stackVars
  <1>3. threads' \in Nat
    BY <1>1 DEF StartIdleTask, KernelThread, RestTyped
  <1>4. main' \in MainLabels \ Early
    BY DEF StartIdleTask, KernelThread, MainLabels, Early
  <1>5. job' \in Job /\ (job'.at \in HasStack => job' = job)
    <2>1. \/ \E k \in {"idle", "thread"} : job' = [NoJob EXCEPT !.kind = k, !.at = "alloc"]
          \/ job' = job
      BY DEF StartIdleTask, KernelThread
    <2> QED BY <1>1, <2>1, JobTyped DEF RestTyped
  <1>6. StackInv'
    BY <1>1, <1>2, <1>3, <1>4, <1>5, SameStacks
  <1>7. TablesInv'
    BY <1>1, <1>2, StutterInv
  <1> QED BY <1>6, <1>7 DEF IInv

(* The stack that is taken is the first free one, and nobody's.            *)
LEMMA AllocateStackKeeps ==
  ASSUME IInv, AllocateStack
  PROVE  IInv'
  <1>1. TablesInv /\ StackInv /\ RestTyped
    BY DEF IInv, StackInv
  <1>2. /\ ram' = ram /\ tasks' = tasks /\ threads' = threads /\ UNCHANGED tableVars
    BY DEF AllocateStack
  <1>3. TablesInv'
    BY <1>1, <1>2, StutterInv
  <1>4. main \in MainLabels \ Early
    BY <1>1, JobIsLate DEF AllocateStack, JobAt
  <1>5. CASE \E id \in bitmap :
               /\ StackAvailable /\ FirstSet(id)
               /\ freeItems' = freeItems - 1 /\ bitmap' = Reserve(id)
               /\ job' = [job EXCEPT !.id = id,
                                     !.at = IF Idle THEN "map_stack" ELSE "pages"]
               /\ main' = main
    <2>1. PICK id \in bitmap :
               /\ StackAvailable /\ FirstSet(id)
               /\ freeItems' = freeItems - 1 /\ bitmap' = bitmap \ {id}
               /\ job' = [job EXCEPT !.id = id,
                                     !.at = IF Idle THEN "map_stack" ELSE "pages"]
               /\ main' = main
      BY <1>5 DEF Reserve
    <2>2. /\ freeItems \in 1 .. StackWords /\ StackWords \in Nat /\ StackBits \in Nat
          /\ StackWords <= StackBits /\ id \in Nat
          /\ bitmap = (StackWords - freeItems) .. (StackBits - 1)
      <3>1. StackWords \in Nat /\ StackBits = StackWords * 64
        BY LayoutAssumption DEF StackBits, WordBits
      <3>2. freeItems \in 1 .. StackWords
        BY <1>1, <2>1, <3>1 DEF StackAvailable, RestTyped
      <3> QED BY <1>1, <2>1, <3>1, <3>2 DEF StackInv, BitsMatchCounter, RestTyped
    <2>3. id = StackWords - freeItems
      <3>1. StackWords - freeItems \in bitmap
        BY <2>2
      <3>2. id <= StackWords - freeItems
        BY <2>1, <3>1 DEF FirstSet
      <3>3. id >= StackWords - freeItems
        BY <2>2
      <3> QED BY <2>2, <3>2, <3>3
    <2>4. bitmap' = (StackWords - freeItems') .. (StackBits - 1)
      BY <2>1, <2>2, <2>3
    <2>5. job' \in Job /\ job'.id = id
      <3> PICK l \in HasStack : l = IF Idle THEN "map_stack" ELSE "pages"
        BY DEF HasStack
      <3>1. job' = [job EXCEPT !.id = id, !.at = l]
        BY <2>1
      <3> QED BY <1>1, <2>2, <3>1, JobTyped
    <2>6. RestTyped'
      BY <1>1, <1>2, <2>1, <2>2, <2>5 DEF RestTyped
    <2>7. BitsMatchCounter' /\ StackFits'
      BY <2>2, <2>3, <2>4, <2>5 DEF BitsMatchCounter, StackFits
    <2>8. StacksTaken'
      BY <1>1, <1>2, <2>1, <2>5 DEF StackInv, StacksTaken
    <2>9. NoTaskYet'
      BY <1>4, <2>1 DEF NoTaskYet
    <2> QED BY <1>3, <2>6, <2>7, <2>8, <2>9 DEF IInv, StackInv
  <1>6. CASE NoStackLeft /\ UNCHANGED stackVars
    <2>1. /\ freeItems' = freeItems /\ bitmap' = bitmap /\ job' = NoJob
          /\ main' \in MainLabels \ Early
      BY <1>6 DEF NoStackLeft, stackVars, MainLabels, Early
    <2>2. StackInv'
      BY <1>1, <1>2, <2>1, JobTyped, SameStacks DEF RestTyped
    <2> QED BY <1>3, <2>2 DEF IInv
  <1> QED BY <1>5, <1>6 DEF AllocateStack

(* The accessors for the stack and the structure of a new task.            *)
LEMMA TaskAccessors ==
  ASSUME RestTyped
  PROVE  /\ List(job.pages) \in Accessor /\ Linear(job.ts) \in Accessor
         /\ [Linear(0) EXCEPT !.kind = "idle"] \in Accessor
  <1>1. job.pages \in Seq(Frames) /\ job.ts \in Frames /\ Frames \subseteq Nat
    BY TableAssumption DEF RestTyped, Job
  <1>2. job.pages \in Seq(Nat)
    <2> PICK ps \in Seq(Frames) : ps = job.pages
      BY <1>1
    <2>1. ps = [i \in 1 .. Len(ps) |-> ps[i]] /\ Len(ps) \in Nat
      OBVIOUS
    <2>2. \A i \in 1 .. Len(ps) : ps[i] \in Nat
      <3>1. \A i \in 1 .. Len(ps) : ps[i] \in Frames
        OBVIOUS
      <3> QED BY <3>1, TableAssumption
    <2>3. ps \in Seq(Nat)
      BY <2>1, <2>2
    <2> QED BY <2>3
  <1> QED BY <1>1, <1>2, AccessorsMade

(* The calls of mm_map_pages() for a new task.                             *)
LEMMA MapForTaskKeeps ==
  ASSUME IInv, MapStack \/ MapTaskStruct
  PROVE  IInv'
  <1>1. TablesInv /\ StackInv /\ RestTyped
    BY DEF IInv, StackInv
  <1>2. /\ ram' = ram /\ freeItems' = freeItems /\ bitmap' = bitmap
        /\ tasks' = tasks /\ threads' = threads
    BY DEF MapStack, MapTaskStruct, stackVars
  <1>3. main \in MainLabels \ Early /\ job.at \in HasStack
    BY <1>1, JobIsLate DEF MapStack, MapTaskStruct, JobAt, HasStack
  <1>4. job \in Job /\ job.id \in Nat /\ job.id < StackWords
    <2>1. job \in Job
      BY <1>1 DEF RestTyped
    <2>2. job.id \in Nat
      BY <2>1 DEF Job
    <2> QED BY <1>1, <1>3, <2>1, <2>2 DEF StackInv, StackFits
  <1>5. /\ LowAddress(job.id) \in 0 .. VirtPages - 1
        /\ TaskAddress(job.id) \in 0 .. VirtPages - 1
    BY <1>4, StackAddresses
  <1>6. /\ List(job.pages) \in Accessor /\ Linear(job.ts) \in Accessor
        /\ [Linear(0) EXCEPT !.kind = "idle"] \in Accessor
    BY <1>1, TaskAccessors
  <1>7. CASE MapStack
    <2>1. PICK a \in Accessor : Ask(LowAddress(job.id), StackPages, a)
      BY <1>6, <1>7 DEF MapStack
    <2>2. TablesInv'
      BY <1>1, <1>5, <2>1, NumbersTyped, AskInv
    <2>3. job' = [job EXCEPT !.at = "stack_mapped"] /\ main' = main
      BY <1>7 DEF MapStack
    <2>4. StackInv'
      <3>1. "stack_mapped" \in HasStack
        BY DEF HasStack
      <3>2. job' \in Job /\ job'.id = job.id
        BY <1>1, <2>3, <3>1, JobTyped
      <3> QED BY <1>1, <1>2, <1>3, <2>3, <3>2, SameStacks DEF RestTyped
    <2> QED BY <2>2, <2>4 DEF IInv
  <1>8. CASE /\ MapTaskStruct /\ ret = "OK"
             /\ Ask(TaskAddress(job.id), 1,
                    IF Idle THEN [Linear(0) EXCEPT !.kind = "idle"] ELSE Linear(job.ts))
             /\ job' = [job EXCEPT !.at = "task_mapped"] /\ main' = main
    <2>1. PICK a \in Accessor : Ask(TaskAddress(job.id), 1, a)
      BY <1>6, <1>8
    <2>2. TablesInv'
      BY <1>1, <1>5, <2>1, AskInv
    <2>3. StackInv'
      <3>1. "task_mapped" \in HasStack
        BY DEF HasStack
      <3>2. job' \in Job /\ job'.id = job.id
        BY <1>1, <1>8, <3>1, JobTyped
      <3> QED BY <1>1, <1>2, <1>3, <1>8, <3>2, SameStacks DEF RestTyped
    <2> QED BY <2>2, <2>3 DEF IInv
  <1>9. CASE MapTaskStruct /\ MapFailed /\ UNCHANGED tableVars
    <2>1. TablesInv'
      BY <1>1, <1>9, StutterInv
    <2>2. job' = NoJob /\ main' \in MainLabels \ Early
      BY <1>3, <1>9 DEF MapFailed, GiveUp, MainLabels, Early
    <2>3. StackInv'
      BY <1>1, <1>2, <2>2, JobTyped, SameStacks DEF RestTyped
    <2> QED BY <2>1, <2>3 DEF IInv
  <1> QED BY <1>7, <1>8, <1>9 DEF MapTaskStruct

(* A task that is complete has the stack of the job.                       *)
LEMMA TaskMappedKeeps ==
  ASSUME IInv, TaskMapped
  PROVE  IInv'
  <1>1. TablesInv /\ StackInv /\ RestTyped
    BY DEF IInv, StackInv
  <1>2. /\ ram' = ram /\ freeItems' = freeItems /\ bitmap' = bitmap
        /\ threads' = threads /\ UNCHANGED tableVars
    BY DEF TaskMapped, stackVars
  <1>3. TablesInv'
    BY <1>1, <1>2, StutterInv
  <1>4. main \in MainLabels \ Early /\ job.at \in HasStack
    BY <1>1, JobIsLate DEF TaskMapped, JobAt, HasStack
  <1>5. CASE /\ tasks' = Append(tasks, [id |-> job.id, ts |-> job.ts])
             /\ job' = NoJob /\ main' = main
    <2>1. job.id \in Nat /\ job.ts \in Frames
      BY <1>1 DEF RestTyped, Job
    <2> DEFINE t == [id |-> job.id, ts |-> job.ts]
    <2>2. t \in [id : Nat, ts : Frames] /\ t.id = job.id
      BY <2>1
    <2>3. tasks \in Seq([id : Nat, ts : Frames]) /\ tasks' = Append(tasks, t)
      BY <1>1, <1>5 DEF RestTyped
    <2> HIDE DEF t
    <2>4. /\ tasks' \in Seq([id : Nat, ts : Frames]) /\ Len(tasks) \in Nat
          /\ DOMAIN tasks = 1 .. Len(tasks) /\ DOMAIN tasks' = 1 .. Len(tasks) + 1
      BY <2>2, <2>3
    <2>5. \A i \in DOMAIN tasks' :
            tasks'[i] = IF i = Len(tasks) + 1 THEN t ELSE tasks[i]
      BY <2>2, <2>3, <2>4
    <2>6. NoJob \in Job /\ NoJob.at \notin HasStack
      BY <1>1, JobTyped
    <2>7. RestTyped'
      BY <1>1, <1>2, <1>5, <2>4, <2>6 DEF RestTyped
    <2>8. BitsMatchCounter' /\ StackFits'
      BY <1>1, <1>2, <1>5, <2>6 DEF StackInv, BitsMatchCounter, StackFits
    <2>9. StacksTaken'
      <3>1. /\ job.id \notin bitmap /\ \A i \in DOMAIN tasks : tasks[i].id # job.id
            /\ \A i \in DOMAIN tasks : tasks[i].id \notin bitmap
            /\ \A i, j \in DOMAIN tasks : i # j => tasks[i].id # tasks[j].id
        BY <1>1, <1>4 DEF StackInv, StacksTaken
      <3>2. \A i \in DOMAIN tasks' : tasks'[i].id \notin bitmap'
        BY <1>2, <2>2, <2>4, <2>5, <3>1
      <3>3. \A i, j \in DOMAIN tasks' : i # j => tasks'[i].id # tasks'[j].id
        BY <2>2, <2>4, <2>5, <3>1
      <3> QED BY <1>5, <2>6, <3>2, <3>3 DEF StacksTaken
    <2>10. NoTaskYet'
      BY <1>4, <1>5 DEF NoTaskYet
    <2> QED BY <1>3, <2>7, <2>8, <2>9, <2>10 DEF IInv, StackInv
  <1>6. CASE MapFailed /\ UNCHANGED tasks
    <2>1. job' = NoJob /\ main' \in MainLabels \ Early
      BY <1>4, <1>6 DEF MapFailed, GiveUp, MainLabels, Early
    <2>2. StackInv'
      BY <1>1, <1>2, <1>6, <2>1, JobTyped, SameStacks DEF RestTyped
    <2> QED BY <1>3, <2>2 DEF IInv
  <1> QED BY <1>5, <1>6 DEF TaskMapped

(* The pages of an idle task's stack come from the pool, one by one.       *)
LEMMA MapIdleFrameKeeps ==
  ASSUME IInv, MapIdleFrame
  PROVE  IInv'
  <1>1. TablesInv /\ StackInv /\ RestTyped
    BY DEF IInv, StackInv
  <1>2. /\ ram' = ram /\ freeItems' = freeItems /\ bitmap' = bitmap
        /\ tasks' = tasks /\ threads' = threads /\ pacc' = pacc /\ req' = req
    BY DEF MapIdleFrame, stackVars
  <1>3. AtEntry({1}) /\ main \in MainLabels \ Early
    BY <1>1, JobIsLate DEF MapIdleFrame, JobAt
  <1>4. /\ pool \in Seq(Frames) /\ IsInjective(pool) /\ job \in Job
        /\ Frames \subseteq Int
    BY <1>1, TableAssumption DEF TablesInv, PageTableTypeOK, PoolFresh, RestTyped
  <1>5. ASSUME NEW frame \in Frames, WritePte(frame), UNCHANGED <<ret, main, job>>,
               pool' \in Seq(Frames), IsInjective(pool'),
               ToSet(pool') \subseteq ToSet(pool)
        PROVE  IInv'
    <2>1. frame \in Int /\ ret' = ret /\ main' = main /\ job' = job
      BY <1>4, <1>5
    <2>2. /\ walk' \in Seq(Record)
          /\ \A i \in DOMAIN walk' :
               walk'[i].table \in LevelTables(mem, walk'[i].level)
          /\ mem' \in [Frames -> [Slots -> Int]]
          /\ \A t \in Upper(mem) : mem'[t] = mem[t]
      BY <1>1, <1>3, <1>5, <2>1, WritePteFacts
    <2>3. PageTableTypeOK'
      BY <1>1, <1>2, <1>5, <2>1, <2>2 DEF TablesInv, PageTableTypeOK, Record
    <2>4. TablesInv'
      BY <1>1, <1>5, <2>2, <2>3, Untouched
    <2>5. StackInv'
      BY <1>1, <1>2, <2>1, SameStacks DEF RestTyped
    <2> QED BY <2>4, <2>5 DEF IInv
  <1>6. CASE WritePte(job.ts) /\ UNCHANGED <<pool, ret, main, job>>
    <2>1. job.ts \in Frames
      BY <1>4 DEF Job
    <2>2. pool' = pool
      BY <1>6
    <2> QED BY <1>4, <1>5, <1>6, <2>1, <2>2
  <1>7. CASE /\ pool # <<>> /\ WritePte(Head(pool)) /\ pool' = Tail(pool)
             /\ UNCHANGED <<ret, main, job>>
    <2>1. /\ Head(pool) \in Frames /\ pool' \in Seq(Frames) /\ IsInjective(pool')
          /\ ToSet(pool') \subseteq ToSet(pool)
      BY <1>4, <1>7, TailFacts
    <2> QED BY <1>5, <1>7, <2>1
  <1>8. CASE /\ main' \in {"panic", "wild"} /\ job' = NoJob
             /\ walk' = <<>> /\ ret' = "wild" /\ UNCHANGED <<mem, pool>>
    <2>1. main' \in MainLabels \ Early
      BY <1>8 DEF MainLabels, Early
    <2>2. StackInv'
      BY <1>1, <1>2, <1>8, <2>1, JobTyped, SameStacks DEF RestTyped
    <2>3. PageTableTypeOK'
      BY <1>1, <1>2, <1>8 DEF TablesInv, PageTableTypeOK
    <2>4. IsInjective(pool') /\ ToSet(pool') \subseteq ToSet(pool)
      BY <1>4, <1>8
    <2>5. \A i \in DOMAIN walk' : walk'[i].table \in LevelTables(mem, walk'[i].level)
      BY <1>8
    <2>6. TablesInv'
      BY <1>1, <1>8, <2>3, <2>4, <2>5, Untouched
    <2> QED BY <2>2, <2>6 DEF IInv
  <1> QED BY <1>6, <1>7, <1>8 DEF MapIdleFrame

(* Every step keeps it. *)
LEMMA NextIInv == IInv /\ [Next]_vars => IInv'
  <1> SUFFICES ASSUME IInv, [Next]_vars PROVE IInv'
    OBVIOUS
  <1>1. CASE Walk
    <2>1. TablesInv'
      BY <1>1, MapStepInv DEF Walk, IInv
    <2>2. UNCHANGED <<ram, main, freeItems, bitmap, job, tasks, threads>>
      BY <1>1 DEF Walk, taskVars, stackVars
    <2>3. StackInv'
      BY <2>2, SameStacks DEF IInv, StackInv, RestTyped
    <2> QED BY <2>1, <2>3 DEF IInv
  <1>2. CASE Stopped \/ UNCHANGED vars
    <2>1. UNCHANGED <<tableVars, ram, main, freeItems, bitmap, job, tasks, threads>>
      BY <1>2 DEF Stopped, vars
    <2>2. TablesInv'
      BY <2>1, StutterInv DEF IInv
    <2>3. StackInv'
      BY <2>1, SameStacks DEF IInv, StackInv, RestTyped
    <2> QED BY <2>2, <2>3 DEF IInv
  <1>3. CASE InitStackAllocator \/ AllocTaskStruct \/ AllocStackPages
    BY <1>3, AllocationsKeep
  <1>4. CASE MapDma \/ DmaMapped \/ MapDirect \/ DirectMapped \/ MapApic \/ ApicMapped
    BY <1>4, BootKeeps
  <1>5. CASE StartIdleTask \/ KernelThread
    BY <1>5, StartKeeps
  <1>6. CASE MapStack \/ MapTaskStruct
    BY <1>6, MapForTaskKeeps
  <1> QED BY <1>1, <1>2, <1>3, <1>4, <1>5, <1>6, AllocateStackKeeps,
             TaskMappedKeeps, MapIdleFrameKeeps
          DEF Next, Work, CreateTask

(* So it holds at every step of every behaviour. *)
LEMMA IInvAlways == Spec => []IInv
  BY InitIInv, NextIInv, PTL DEF Spec

-----------------------------------------------------------------------------

(* Every variable keeps the kind of value its C type and use give it. *)
THEOREM Typed == Spec => []TypeOK
  <1>1. IInv => TypeOK
    BY DEF IInv, TablesInv, StackInv, RestTyped, TypeOK, Job, MainLabels, StackBits
  <1> QED BY <1>1, IInvAlways, PTL

(* The tables of the kernel form a tree whatever is mapped, and whatever   *)
(* fails, in the boot and in the creation of tasks.                        *)
THEOREM TreeAlways == Spec => []TablesFormTree
  <1>1. IInv => TablesFormTree
    BY DEF IInv, TablesInv
  <1> QED BY <1>1, IInvAlways, PTL

(* The stacks of two tasks have no page of the address space in common.    *)
StacksApart ==
  \A i, j \in DOMAIN tasks :
    i # j => StackRange(tasks[i]) \cap StackRange(tasks[j]) = {}

(* allocate_kernel_stack() never gives one stack, or a part of one, to two *)
(* tasks, failed creations in between or not.                              *)
THEOREM StacksNeverShared == Spec => []StacksApart
  <1>1. ASSUME NEW a \in Nat, NEW b \in Nat, a < b, NEW v \in Int
        PROVE  ~(/\ v >= LowAddress(a) /\ v < HighAddress(a)
                 /\ v >= LowAddress(b) /\ v < HighAddress(b))
    <2>1. /\ StackPages \in Nat /\ StackGap \in Nat /\ StackStep \in Nat
          /\ StackPages + StackGap < StackStep /\ KernelBase \in Int
      BY LayoutAssumption, RangesPositive
    <2> PICK p \in Nat, g \in Nat, s \in Nat, k \in Int :
               p = StackPages /\ g = StackGap /\ s = StackStep /\ k = KernelBase
      BY <2>1
    <2> PICK d \in Nat : b = a + 1 + d
      <3>1. b - a - 1 \in Nat /\ b = a + 1 + (b - a - 1)
        BY <1>1
      <3> QED BY <3>1
    <2>2. b * s = a * s + s + d * s /\ a * s \in Nat /\ d * s \in Nat /\ b * s \in Nat
      OBVIOUS
    <2>3. HighAddress(b) = k - b * s - g /\ LowAddress(a) = k - a * s - g - p
      BY DEF HighAddress, LowAddress
    <2>4. HighAddress(b) \in Int /\ LowAddress(a) \in Int
          /\ HighAddress(b) <= LowAddress(a)
      BY <2>1, <2>2, <2>3
    <2> QED BY <2>4
  <1>2. IInv => StacksApart
    <2> SUFFICES ASSUME IInv, NEW i \in DOMAIN tasks, NEW j \in DOMAIN tasks, i # j,
                        NEW v \in StackRange(tasks[i]), v \in StackRange(tasks[j])
                 PROVE  FALSE
      BY DEF StacksApart
    <2>1. tasks[i].id \in Nat /\ tasks[j].id \in Nat /\ tasks[i].id # tasks[j].id
      <3> DEFINE T == [id : Nat, ts : Frames]
      <3>1. tasks \in Seq(T)
        BY DEF IInv, StackInv, RestTyped
      <3>2. \A t \in T : t.id \in Nat
        OBVIOUS
      <3> HIDE DEF T
      <3>3. tasks[i] \in T /\ tasks[j] \in T
        BY <3>1
      <3> QED BY <3>2, <3>3 DEF IInv, StackInv, StacksTaken
    <2>2. \A a \in Nat : HighAddress(a) \in Int /\ LowAddress(a) \in Int
      BY LayoutAssumption, RangesPositive DEF HighAddress, LowAddress
    <2>3. /\ v \in Int
          /\ v >= LowAddress(tasks[i].id) /\ v < HighAddress(tasks[i].id)
          /\ v >= LowAddress(tasks[j].id) /\ v < HighAddress(tasks[j].id)
      BY <2>1, <2>2 DEF StackRange
    <2> QED BY <1>1, <2>1, <2>3
  <1> QED BY <1>2, IInvAlways, PTL

-----------------------------------------------------------------------------
(* What is mapped where *)

(* The boot has not come to the mapping of memory, or of the APIC page.    *)
BeforeDirect == {"map_dma", "dma_mapped", "map_direct"}
BeforeApic   == Early \cup {"idle_tasks", "map_apic"}

(* Physical memory ends below the last gigabyte of the address space: with *)
(* more the walk of arch_remap_memory() loses its place.                   *)
RamFits == KernelBase + ram <= VirtPages - EntryRange[3]

(* A task is created by the boot or by whoever runs after it.              *)
JobMain == \/ job = NoJob
           \/ job.kind = "idle" /\ main = "idle_tasks"
           \/ job.kind = "thread" /\ main = "running"

Asked(v, n) == req.virt = v /\ req.num = n

(* Whoever waits for mm_map_pages() has asked for pages of his own.        *)
AskedFor ==
  walk # <<>> =>
    \/ main = "dma_mapped" /\ Asked(1, DmaTotal - 1)
    \/ main = "direct_mapped" /\ Asked(KernelBase, ram)
    \/ main = "apic_mapped" /\ Asked(ApicPage, 1)
    \/ JobAt("stack_mapped") /\ Asked(LowAddress(job.id), StackPages)
    \/ JobAt("task_mapped") /\ Asked(TaskAddress(job.id), 1)

(* The pages that the walk has not come to are not mapped.                 *)
UnmappedAhead ==
  walk # <<>> =>
    \A v \in Top.virt .. req.virt + req.num - 1 : Pin(v) = INVALID_PAGE_IDX

(* The pages of a stack and of the task structure below it.                *)
TaskPages(id) == (LowAddress(id) .. HighAddress(id) - 1) \cup {TaskAddress(id)}

(* A page of a stack is mapped once the stack is taken, and that of a task *)
(* under creation once it is asked for.                                    *)
Given(id, v) ==
  /\ id \notin bitmap /\ main \notin Early
  /\ job.at \in HasStack /\ job.id = id =>
       \/ job.at = "task_mapped"
       \/ job.at = "stack_mapped" /\ v # TaskAddress(id)

MayBeMapped(v) ==
  \/ v \in 1 .. DmaTotal - 1 /\ main # "map_dma"
  \/ v \in KernelBase .. KernelBase + ram - 1 /\ main \notin BeforeDirect
  \/ v = ApicPage /\ main \notin BeforeApic
  \/ \E id \in 0 .. StackWords - 1 : v \in TaskPages(id) /\ Given(id, v)

MappedWhere ==
  \A v \in 0 .. VirtPages - 1 : Pin(v) # INVALID_PAGE_IDX => MayBeMapped(v)

(* What verify_mapping() has found.                                        *)
VerifiedKept ==
  /\ main \in {"map_direct", "direct_mapped"} \/ Remapped => Verified(1, DmaTotal - 1, 1)
  /\ Remapped => Verified(KernelBase, ram, 0)

(* The pages of a task are in its block, and its structure is below its    *)
(* stack.                                                                  *)
LEMMA TaskPagesIn ==
  ASSUME NEW id \in 0 .. StackWords - 1
  PROVE  /\ TaskPages(id) \subseteq 0 .. VirtPages - 1
         /\ \A v \in TaskPages(id) :
              /\ v \in Nat /\ Block(id) <= v /\ v < Block(id) + StackStep
              /\ KernelBase - StackWords * StackStep <= v /\ v < KernelBase
         /\ TaskAddress(id) \notin LowAddress(id) .. HighAddress(id) - 1
         /\ LowAddress(id) \in Nat /\ HighAddress(id) = LowAddress(id) + StackPages
         /\ \A v \in TaskPages(id) :
              v # TaskAddress(id) => v \in LowAddress(id) .. HighAddress(id) - 1
  <1>1. KernelBase \in Nat /\ KernelBase < VirtPages /\ VirtPages \in Nat
    BY LayoutAssumption, RangesPositive
  <1> PICK p \in Nat, g \in Nat, s \in Nat, b \in Nat, f \in Nat, k \in Nat :
         /\ p = StackPages /\ g = StackGap /\ s = StackStep /\ b = Block(id)
         /\ f = KernelBase - StackWords * StackStep /\ k = KernelBase
    BY <1>1, Blocks
  <1>2. /\ TaskAddress(id) = b /\ LowAddress(id) = b + (s - g - p)
        /\ HighAddress(id) = b + (s - g)
        /\ f <= b /\ b + s <= k /\ g > 0 /\ p > 0 /\ p + g < s
    BY Blocks
  <1>3. \A v \in TaskPages(id) : /\ v \in Nat /\ b <= v /\ v < b + s
                                /\ f <= v /\ v < k
    BY <1>2 DEF TaskPages
  <1>4. \A v \in TaskPages(id) :
          v # TaskAddress(id) => v \in LowAddress(id) .. HighAddress(id) - 1
    BY DEF TaskPages
  <1> QED BY <1>1, <1>2, <1>3, <1>4

(* What the callers ask for fits where the walk keeps its place, and the   *)
(* regions they ask for are apart.                                         *)
LEMMA Regions ==
  ASSUME RestTyped, RamFits
  PROVE  LET floor == KernelBase - StackWords * StackStep
         IN  /\ DmaTotal \in Nat /\ ram \in Nat \ {0} /\ KernelBase \in Nat /\ ApicPage \in Nat
             /\ floor \in Nat /\ ApicPage > 0 /\ VirtPages \in Nat
             /\ DmaTotal <= ApicPage /\ ApicPage < floor /\ floor <= KernelBase
             /\ KernelBase + ram <= VirtPages
             /\ DmaTotal - 1 > 0 => Fits(1, DmaTotal - 1)
             /\ Fits(KernelBase, ram) /\ Fits(ApicPage, 1)
             /\ \A id \in 0 .. StackWords - 1 :
                  Fits(LowAddress(id), StackPages) /\ Fits(TaskAddress(id), 1)
  <1> DEFINE floor == KernelBase - StackWords * StackStep
  <1>1. /\ ram \in Nat \ {0} /\ KernelBase \in Nat /\ ApicPage \in Nat /\ ApicPage > 0
        /\ DmaPages \in Nat \ {0} /\ StackWords * StackStep \in Nat
        /\ KernelBase > StackWords * StackStep
    <2>1. StackWords \in Nat /\ StackStep \in Nat
      BY LayoutAssumption
    <2>2. StackWords * StackStep \in Nat
      BY <2>1
    <2> QED BY <2>2, NumbersTyped, LayoutAssumption
  <1>2. /\ EntryRange[3] \in Nat \ {0} /\ EntryRange[4] \in Nat \ {0} /\ VirtPages \in Nat
    BY RangesPositive DEF Levels
  <1> PICK k \in Nat, r \in Nat \ {0}, e \in Nat \ {0}, h \in Nat \ {0}, n \in Nat,
           f \in Nat, x \in Nat, d \in Nat \ {0}, t \in Nat :
         /\ k = KernelBase /\ r = ram /\ e = EntryRange[3] /\ h = EntryRange[4]
         /\ n = VirtPages /\ f = floor /\ x = ApicPage /\ d = DmaPages /\ t = DmaTotal
    <2>1. DmaTotal \in Nat
      BY <1>1 DEF DmaTotal
    <2>2. floor \in Nat
      BY <1>1
    <2> HIDE DEF floor
    <2> QED BY <1>1, <1>2, <2>1, <2>2
  <1>3. t <= d /\ d <= x /\ x < f /\ f <= k /\ k + r <= n - e /\ x > 0 /\ d <= h
    <2>1. t <= d
      BY <1>1 DEF DmaTotal
    <2>2. d <= x /\ x < f /\ d <= h
      BY RegionsAssumption
    <2>3. f <= k
      BY <1>1
    <2>4. k + r <= n - e
      BY DEF RamFits
    <2> QED BY <1>1, <2>1, <2>2, <2>3, <2>4
  <1>4. Up(f, 4) = Up(n - 1, 4)
    BY RegionsAssumption DEF Up
  <1> HIDE DEF floor
  <1>5. ASSUME NEW a \in Nat, NEW c \in Nat \ {0}, f <= a, a + c <= k + r
        PROVE  Fits(a, c)
    <2>1. a + c - 1 \in Nat /\ a <= a + c - 1 /\ a + c - 1 <= n - 1 /\ n - 1 \in Nat
      BY <1>3, <1>5
    <2>2. Up(a, 4) = Up(f, 4) /\ Up(a + c - 1, 4) = Up(f, 4)
      <3>1. a <= n - 1 /\ f <= a + c - 1
        BY <1>5, <2>1
      <3> QED BY <1>4, <1>5, <2>1, <3>1, UpBetween DEF Levels
    <2> QED BY <1>3, <1>5, <2>2 DEF Fits
  <1>6. Fits(k, r)
    BY <1>3, <1>5
  <1>7. Fits(x, 1)
    BY <1>3 DEF Fits
  <1>8. t - 1 > 0 => Fits(1, t - 1)
    <2> SUFFICES ASSUME t - 1 > 0 PROVE Fits(1, t - 1)
      OBVIOUS
    <2>1. t - 1 < h /\ 1 < h /\ t - 1 \in Nat
      BY <1>3
    <2>2. Up(t - 1, 4) = 0 /\ Up(1, 4) = 0
      <3>1. \A y \in Nat : y < h => y \div h = 0
        <4> SUFFICES ASSUME NEW y \in Nat, y < h PROVE y \div h = 0
          OBVIOUS
        <4>1. (0 * h + y) \div h = 0
          BY DivUnique
        <4>2. 0 * h + y = y
          OBVIOUS
        <4> QED BY <4>1, <4>2
      <3> QED BY <2>1, <3>1 DEF Up
    <2>3. 1 + (t - 1) <= n - e /\ 1 + (t - 1) - 1 = t - 1
      BY <1>3
    <2> QED BY <2>2, <2>3 DEF Fits
  <1>9. ASSUME NEW id \in 0 .. StackWords - 1
        PROVE  Fits(LowAddress(id), StackPages) /\ Fits(TaskAddress(id), 1)
    <2> PICK p \in Nat \ {0}, g \in Nat \ {0}, s \in Nat, b \in Nat :
           /\ p = StackPages /\ g = StackGap /\ s = StackStep /\ b = Block(id)
           /\ f <= b /\ b + s <= k /\ p + g < s /\ TaskAddress(id) = b
           /\ LowAddress(id) = b + (s - g - p)
      BY Blocks DEF floor
    <2>1. b + (s - g - p) \in Nat /\ f <= b + (s - g - p)
          /\ b + (s - g - p) + p <= k + r
      OBVIOUS
    <2>2. f <= b /\ b + 1 <= k + r
      OBVIOUS
    <2> QED BY <1>5, <2>1, <2>2
  <1>10. k + r <= n /\ f <= k
    BY <1>3
  <1> QED BY <1>1, <1>3, <1>6, <1>7, <1>8, <1>9, <1>10 DEF floor

(* mm_map_pages() answers at once, or begins at the first page.            *)
LEMMA AskPath ==
  ASSUME TablesInv, PathInv, NEW v \in 0 .. VirtPages - 1, NEW n \in Nat,
         NEW a \in Accessor, Ask(v, n, a), n > 0 => Fits(v, n)
  PROVE  /\ PathInv' /\ walk = <<>> /\ mem' = mem /\ pool' = pool /\ pacc' = a
         /\ \/ walk' = <<>> /\ ret' = "EINVAL"
            \/ /\ walk' # <<>> /\ ret' = "running" /\ Top'.virt = v
               /\ req'.virt = v /\ req'.num = n
  <1> DEFINE r == [virt |-> v, num |-> n, kernel |-> FALSE, pacc |-> a]
  <1>1. r \in Request
    BY DEF Request
  <1>2. MapPages(r)
    BY DEF Ask
  <1>3. r.virt = v /\ r.num = n /\ r.pacc = a
    OBVIOUS
  <1> HIDE DEF r
  <1>4. Acceptable(r) => Fits(r.virt, r.num)
    BY <1>3 DEF Acceptable
  <1> QED BY <1>1, <1>2, <1>3, <1>4, MapPagesPath

(* No page that is mapped gets another translation.                        *)
Kept == \A v \in 0 .. VirtPages - 1 :
          Pin(v) # INVALID_PAGE_IDX => Pin(v)' = Pin(v)

Parts == PathInv /\ JobMain /\ AskedFor /\ UnmappedAhead /\ MappedWhere /\ VerifiedKept

(* The stages of the boot and of a creation only ever add to the pages     *)
(* that may be mapped.                                                     *)
LEMMA MayBeKept ==
  ASSUME ram' = ram, main = "map_dma" \/ main' # "map_dma",
         main \in BeforeDirect \/ main' \notin BeforeDirect,
         main \in BeforeApic \/ main' \notin BeforeApic,
         main \in Early \/ (main' \notin Early /\ bitmap' \subseteq bitmap),
         main \notin Early /\ job'.at \in HasStack =>
           \/ job'.id \in bitmap
           \/ /\ job'.id = job.id /\ job.at \in HasStack
              /\ \/ job.at \notin {"stack_mapped", "task_mapped"}
                 \/ job'.at \in {job.at, "task_mapped"}
  PROVE  \A v : MayBeMapped(v) => MayBeMapped(v)'
  <1> SUFFICES ASSUME NEW v, MayBeMapped(v) PROVE MayBeMapped(v)'
    OBVIOUS
  <1>1. DmaTotal' = DmaTotal
    BY DEF DmaTotal
  <1>2. ASSUME NEW id \in 0 .. StackWords - 1, Given(id, v)
        PROVE  Given(id, v)'
    BY <1>2 DEF Given
  <1> QED BY <1>1, <1>2 DEF MayBeMapped

(* What is verified stays so when no mapped page changes.                  *)
LEMMA VerifiedStays ==
  ASSUME RestTyped, Kept, ram' = ram
  PROVE  /\ Verified(1, DmaTotal - 1, 1) => Verified(1, DmaTotal - 1, 1)'
         /\ Verified(KernelBase, ram, 0) => Verified(KernelBase, ram, 0)'
  <1>1. DmaTotal' = DmaTotal
    BY DEF DmaTotal
  <1>2. ram \in Nat /\ DmaTotal - 1 \in Nat /\ KernelBase \in Nat
    BY NumbersTyped
  <1>3. ASSUME NEW a \in Int, NEW x \in Nat, Pin(Wrap(a)) = x
        PROVE  Pin(Wrap(a))' = x
    <2>1. Wrap(a) \in 0 .. VirtPages - 1
      BY WrapTyped
    <2>2. x # INVALID_PAGE_IDX
      BY DEF INVALID_PAGE_IDX
    <2> PICK w \in 0 .. VirtPages - 1 : w = Wrap(a)
      BY <2>1
    <2>3. Pin(w)' = Pin(w)
      BY <1>3, <2>2 DEF Kept
    <2> QED BY <1>3, <2>3
  <1> PICK t \in Nat, r \in Nat, k \in Nat : t = DmaTotal - 1 /\ r = ram /\ k = KernelBase
    BY <1>2
  <1>4. ASSUME NEW i \in 0 .. t - 1, Pin(Wrap(1 + i)) = 1 + i
        PROVE  Pin(Wrap(1 + i))' = 1 + i
    <2>1. 1 + i \in Int /\ 1 + i \in Nat
      OBVIOUS
    <2> QED BY <1>3, <1>4, <2>1
  <1>5. ASSUME NEW i \in 0 .. r - 1, Pin(Wrap(k + i)) = 0 + i
        PROVE  Pin(Wrap(k + i))' = 0 + i
    <2>1. k + i \in Int /\ 0 + i \in Nat
      OBVIOUS
    <2> QED BY <1>3, <1>5, <2>1
  <1>6. Verified(1, DmaTotal - 1, 1) => Verified(1, DmaTotal - 1, 1)'
    BY <1>1, <1>4 DEF Verified
  <1>7. Verified(KernelBase, ram, 0) => Verified(KernelBase, ram, 0)'
    BY <1>5 DEF Verified
  <1> QED BY <1>6, <1>7

(* A step that maps nothing and ends with no walk.                         *)
LEMMA QuietParts ==
  ASSUME RestTyped, Parts, PathInv', JobMain', ram' = ram, walk' = <<>>,
         \A v \in Nat : Translate(mem', v) = Translate(mem, v),
         \A v : MayBeMapped(v) => MayBeMapped(v)',
         main' \in {"map_direct", "direct_mapped"} \/ Remapped' =>
           Verified(1, DmaTotal - 1, 1),
         Remapped' => Verified(KernelBase, ram, 0)
  PROVE  Parts' /\ Kept
  <1>1. \A v \in 0 .. VirtPages - 1 : v \in Nat
    BY RangesPositive
  <1>2. \A v \in 0 .. VirtPages - 1 : Pin(v)' = Pin(v)
    <2> SUFFICES ASSUME NEW v \in 0 .. VirtPages - 1 PROVE Pin(v)' = Pin(v)
      OBVIOUS
    <2> QED BY <1>1, PinIs
  <1>3. Kept
    BY <1>2 DEF Kept
  <1>4. AskedFor' /\ UnmappedAhead'
    BY DEF AskedFor, UnmappedAhead
  <1>5. MappedWhere'
    BY <1>2 DEF Parts, MappedWhere
  <1>6. VerifiedKept'
    <2>1. Verified(1, DmaTotal - 1, 1) => Verified(1, DmaTotal - 1, 1)'
      BY <1>3, VerifiedStays
    <2>2. Verified(KernelBase, ram, 0) => Verified(KernelBase, ram, 0)'
      BY <1>3, VerifiedStays
    <2> QED BY <2>1, <2>2 DEF VerifiedKept
  <1> QED BY <1>3, <1>4, <1>5, <1>6 DEF Parts

(* A call of mm_map_pages() for pages that are not mapped.                 *)
LEMMA AskParts ==
  ASSUME TablesInv, RestTyped, Parts, JobMain', ram' = ram,
         NEW v \in 0 .. VirtPages - 1, NEW n \in Nat, NEW a \in Accessor,
         Ask(v, n, a), n > 0 => Fits(v, n),
         \A x \in v .. v + n - 1 : x < VirtPages /\ ~MayBeMapped(x),
         \A x : MayBeMapped(x) => MayBeMapped(x)',
         req'.virt = v /\ req'.num = n => AskedFor',
         main' \in {"map_direct", "direct_mapped"} \/ Remapped' =>
           Verified(1, DmaTotal - 1, 1),
         Remapped' => Verified(KernelBase, ram, 0)
  PROVE  Parts' /\ Kept
  <1>1. /\ PathInv' /\ walk = <<>> /\ mem' = mem
        /\ \/ walk' = <<>>
           \/ /\ walk' # <<>> /\ Top'.virt = v
              /\ req'.virt = v /\ req'.num = n
    BY AskPath DEF Parts
  <1>2. \A x : Pin(x)' = Pin(x)
    BY <1>1, PinIs
  <1>3. CASE walk' = <<>>
    BY <1>1, <1>3, QuietParts
  <1>4. CASE /\ walk' # <<>> /\ Top'.virt = v
             /\ req'.virt = v /\ req'.num = n
    <2>1. Kept
      BY <1>2 DEF Kept
    <2>2. AskedFor'
      BY <1>4
    <2>3. UnmappedAhead'
      <3>1. \A x \in v .. v + n - 1 : x \in 0 .. VirtPages - 1
        BY RangesPositive
      <3>2. \A x \in v .. v + n - 1 : Pin(x) = INVALID_PAGE_IDX
        BY <3>1 DEF Parts, MappedWhere
      <3>3. \A x \in Top'.virt .. req'.virt + req'.num - 1 : Pin(x)' = INVALID_PAGE_IDX
        BY <1>2, <1>4, <3>2
      <3> QED BY <3>3 DEF UnmappedAhead
    <2>4. MappedWhere'
      BY <1>2 DEF Parts, MappedWhere
    <2>5. VerifiedKept'
      <3>1. Verified(1, DmaTotal - 1, 1) => Verified(1, DmaTotal - 1, 1)'
        BY <2>1, VerifiedStays
      <3>2. Verified(KernelBase, ram, 0) => Verified(KernelBase, ram, 0)'
        BY <2>1, VerifiedStays
      <3> QED BY <3>1, <3>2 DEF VerifiedKept
    <2> QED BY <1>1, <2>1, <2>2, <2>3, <2>4, <2>5 DEF Parts
  <1> QED BY <1>1, <1>3, <1>4

(* What is asked for may be mapped.                                        *)
LEMMA AskedMayBe ==
  ASSUME IInv, AskedFor, walk # <<>>,
         NEW v \in Nat, req.virt <= v, v < req.virt + req.num
  PROVE  MayBeMapped(v)
  <1>1. RestTyped /\ StackInv
    BY DEF IInv, StackInv
  <1>2. /\ ram \in Nat /\ DmaTotal - 1 \in Nat /\ KernelBase \in Nat /\ ApicPage \in Nat
    BY <1>1, NumbersTyped
  <1>3. CASE main = "dma_mapped" /\ Asked(1, DmaTotal - 1)
    BY <1>2, <1>3 DEF MayBeMapped, Asked
  <1>4. CASE main = "direct_mapped" /\ Asked(KernelBase, ram)
    BY <1>2, <1>4 DEF MayBeMapped, Asked, BeforeDirect
  <1>5. CASE main = "apic_mapped" /\ Asked(ApicPage, 1)
    BY <1>2, <1>5 DEF MayBeMapped, Asked, BeforeApic, Early
  <1>6. CASE \/ JobAt("stack_mapped") /\ Asked(LowAddress(job.id), StackPages)
             \/ JobAt("task_mapped") /\ Asked(TaskAddress(job.id), 1)
    <2>1. job.at \in HasStack /\ main \notin Early
      BY <1>1, <1>6, JobIsLate DEF JobAt, HasStack
    <2> PICK id \in 0 .. StackWords - 1 : id = job.id
      <3>1. job.id \in Nat /\ job.id < StackWords /\ StackWords \in Nat
        BY <1>1, <2>1, LayoutAssumption DEF StackInv, StackFits, RestTyped, Job
      <3> QED BY <3>1
    <2>2. id \notin bitmap
      BY <1>1, <2>1 DEF StackInv, StacksTaken
    <2> PICK l \in Nat, p \in Nat, t \in Nat :
           /\ l = LowAddress(id) /\ p = StackPages /\ HighAddress(id) = l + p
           /\ t = TaskAddress(id) /\ t \notin l .. l + p - 1
      <3>1. /\ LowAddress(id) \in Nat /\ HighAddress(id) = LowAddress(id) + StackPages
            /\ TaskAddress(id) \notin LowAddress(id) .. HighAddress(id) - 1
        BY TaskPagesIn
      <3>2. TaskAddress(id) \in Nat /\ StackPages \in Nat
        BY Blocks
      <3> QED BY <3>1, <3>2
    <2>3. v \in TaskPages(id) /\ (v # t \/ job.at = "task_mapped")
      <3>1. CASE JobAt("stack_mapped") /\ Asked(LowAddress(job.id), StackPages)
        <4>1. v \in l .. l + p - 1
          BY <3>1 DEF Asked
        <4> QED BY <4>1 DEF TaskPages
      <3>2. CASE JobAt("task_mapped") /\ Asked(TaskAddress(job.id), 1)
        <4>1. v = t
          BY <3>2 DEF Asked
        <4> QED BY <3>2, <4>1 DEF TaskPages, JobAt
      <3> QED BY <1>6, <3>1, <3>2
    <2>4. Given(id, v)
      BY <1>6, <2>1, <2>2, <2>3 DEF Given, JobAt
    <2> QED BY <2>3, <2>4 DEF MayBeMapped
  <1> QED BY <1>3, <1>4, <1>5, <1>6 DEF AskedFor

(* An iteration that maps the page the walk is at.                         *)
LEMMA PageParts ==
  ASSUME IInv, Parts, PathInv', UNCHANGED <<ram, main, bitmap, job, req>>,
         walk # <<>>, walk' # <<>>, Top'.virt = Top.virt + 1, NEW frame,
         Top.virt \in 0 .. VirtPages - 1,
         req.virt <= Top.virt, Top.virt < req.virt + req.num,
         \A v \in 0 .. VirtPages - 1 :
           Translate(mem', v) = IF v = Top.virt THEN frame ELSE Translate(mem, v)
  PROVE  Parts' /\ Kept
  <1>1. TablesInv /\ RestTyped /\ VirtPages \in Nat
    BY RangesPositive DEF IInv, StackInv
  <1> PICK u \in 0 .. VirtPages - 1 : u = Top.virt
    OBVIOUS
  <1>2. \A v \in 0 .. VirtPages - 1 : v # u => Pin(v)' = Pin(v)
    <2> SUFFICES ASSUME NEW v \in 0 .. VirtPages - 1, v # u PROVE Pin(v)' = Pin(v)
      OBVIOUS
    <2> QED BY PinIs
  <1>3. /\ req.virt + req.num \in Nat /\ req.virt + req.num < VirtPages
        /\ req.virt \in Nat /\ req.num \in Nat
    BY <1>1, TopOnPath DEF Parts
  <1> PICK e \in Nat : e = req.virt + req.num /\ e < VirtPages /\ u < e
    BY <1>3
  <1>0. \A v \in u .. e - 1 : Pin(v) = INVALID_PAGE_IDX
    <2>1. \A v \in Top.virt .. req.virt + req.num - 1 : Pin(v) = INVALID_PAGE_IDX
      BY DEF Parts, UnmappedAhead
    <2> QED BY <1>3, <2>1
  <1>4. Pin(u) = INVALID_PAGE_IDX
    <2>1. u \in u .. e - 1
      BY <1>1
    <2> QED BY <1>0, <2>1
  <1>5. Kept
    BY <1>2, <1>4 DEF Kept
  <1>6. JobMain' /\ AskedFor'
    BY DEF Parts, JobMain, AskedFor, Asked, JobAt, DmaTotal
  <1>7. UnmappedAhead'
    <2>1. \A v \in u + 1 .. e - 1 : v \in u .. e - 1 /\ v # u /\ v \in 0 .. VirtPages - 1
      BY <1>1
    <2>2. \A v \in u + 1 .. e - 1 : Pin(v)' = INVALID_PAGE_IDX
      BY <1>0, <1>2, <2>1
    <2>4. Top'.virt = u + 1 /\ req'.virt = req.virt /\ req'.num = req.num
      OBVIOUS
    <2>3. \A v \in Top'.virt .. req'.virt + req'.num - 1 : Pin(v)' = INVALID_PAGE_IDX
      BY <1>3, <2>2, <2>4
    <2> QED BY <2>3 DEF UnmappedAhead
  <1>8. MappedWhere'
    <2>1. \A v : MayBeMapped(v) => MayBeMapped(v)'
      BY DEF MayBeMapped, Given, DmaTotal
    <2>2. MayBeMapped(u)
      <3>1. u \in Nat
        OBVIOUS
      <3> QED BY <1>3, <3>1, AskedMayBe DEF Parts
    <2> QED BY <1>2, <2>1, <2>2 DEF Parts, MappedWhere
  <1>9. VerifiedKept'
    <2>1. Verified(1, DmaTotal - 1, 1) => Verified(1, DmaTotal - 1, 1)'
      BY <1>1, <1>5, VerifiedStays
    <2>2. Verified(KernelBase, ram, 0) => Verified(KernelBase, ram, 0)'
      BY <1>1, <1>5, VerifiedStays
    <2> QED BY <2>1, <2>2 DEF Parts, VerifiedKept, Remapped
  <1> QED BY <1>5, <1>6, <1>7, <1>8, <1>9 DEF Parts

(* A step of the walk. *)
LEMMA WalkParts ==
  ASSUME IInv, Parts, Walk
  PROVE  Parts' /\ Kept
  <1>1. TablesInv /\ RestTyped /\ PathInv /\ MapStep
    BY DEF IInv, StackInv, Parts, Walk
  <1>2. UNCHANGED <<ram, main, freeItems, bitmap, job, tasks, threads>>
    BY DEF Walk, taskVars, stackVars
  <1>3. walk # <<>> /\ ret = "running" /\ req' = req /\ PathInv'
    BY <1>1, MapStepMoves
  <1>4. JobMain'
    BY <1>2 DEF Parts, JobMain
  <1>5. /\ \A v : MayBeMapped(v) => MayBeMapped(v)'
        /\ Remapped' = Remapped /\ main' = main
    BY <1>2 DEF MayBeMapped, Given, DmaTotal, Remapped
  <1>6. CASE walk' = <<>> /\ \A v \in Nat : Translate(mem', v) = Translate(mem, v)
    BY <1>1, <1>2, <1>3, <1>4, <1>5, <1>6, QuietParts DEF Parts, VerifiedKept
  <1>7. CASE /\ walk' # <<>> /\ Top'.virt = Top.virt
             /\ \A v \in Nat : Translate(mem', v) = Translate(mem, v)
    <2>1. \A v \in 0 .. VirtPages - 1 : Pin(v)' = Pin(v)
      <3> SUFFICES ASSUME NEW v \in 0 .. VirtPages - 1 PROVE Pin(v)' = Pin(v)
        OBVIOUS
      <3>1. v \in Nat
        BY RangesPositive
      <3> QED BY <1>7, <3>1, PinIs
    <2>2. Kept
      BY <2>1 DEF Kept
    <2>3. AskedFor'
      BY <1>2, <1>3 DEF Parts, AskedFor, Asked, JobAt, DmaTotal
    <2>4. UnmappedAhead'
      <3>1. /\ req.virt \in Nat /\ req.num \in Nat /\ Top.virt \in Nat
            /\ req.virt + req.num \in Nat /\ req.virt + req.num < VirtPages
        BY <1>1, <1>3, TopOnPath
      <3>2. VirtPages \in Nat
        BY RangesPositive
      <3>3. \A v \in Top.virt .. req.virt + req.num - 1 : v \in 0 .. VirtPages - 1
        BY <3>1, <3>2
      <3>4. \A v \in Top.virt .. req.virt + req.num - 1 : Pin(v)' = INVALID_PAGE_IDX
        BY <1>3, <2>1, <3>3 DEF Parts, UnmappedAhead
      <3> QED BY <1>3, <1>7, <3>4 DEF UnmappedAhead
    <2>5. MappedWhere'
      BY <1>5, <2>1 DEF Parts, MappedWhere
    <2>6. VerifiedKept'
      <3>1. Verified(1, DmaTotal - 1, 1) => Verified(1, DmaTotal - 1, 1)'
        BY <1>1, <1>2, <2>2, VerifiedStays
      <3>2. Verified(KernelBase, ram, 0) => Verified(KernelBase, ram, 0)'
        BY <1>1, <1>2, <2>2, VerifiedStays
      <3> QED BY <1>5, <3>1, <3>2 DEF Parts, VerifiedKept
    <2> QED BY <1>3, <1>4, <2>2, <2>3, <2>4, <2>5, <2>6 DEF Parts
  <1>8. CASE /\ walk' # <<>> /\ Top'.virt = Top.virt + 1
             /\ Top.virt \in 0 .. VirtPages - 1
             /\ req.virt <= Top.virt /\ Top.virt < req.virt + req.num
             /\ \A v \in 0 .. VirtPages - 1 :
                  Translate(mem', v) = IF v = Top.virt THEN FrameOf(pacc)
                                       ELSE Translate(mem, v)
    BY <1>2, <1>3, <1>8, PageParts
  <1> QED BY <1>1, <1>6, <1>7, <1>8, MapStepMoves

(* A page of an idle task's stack, or its structure. *)
LEMMA MapIdleFrameParts ==
  ASSUME IInv, Parts, MapIdleFrame
  PROVE  Parts' /\ Kept
  <1>1. TablesInv /\ RestTyped /\ StackInv /\ PathInv
    BY DEF IInv, StackInv, Parts
  <1>2. ram' = ram /\ freeItems' = freeItems /\ bitmap' = bitmap /\ req' = req
    BY DEF MapIdleFrame, stackVars
  <1>3. AtEntry({1}) /\ walk # <<>> /\ main \in MainLabels \ Early
    BY <1>1, JobIsLate DEF MapIdleFrame, JobAt, AtEntry
  <1>4. CASE WritePte(job.ts) /\ UNCHANGED <<pool, ret, main, job>>
    <2> PICK frame \in Int : frame = job.ts /\ frame # Absent
      <3>1. job.ts \in Frames
        BY <1>1 DEF RestTyped, Job
      <3> PICK f \in Nat : f = job.ts
        BY <3>1, TableAssumption
      <3>2. f \in Int /\ f # Absent
        BY DEF Absent
      <3> QED BY <3>2
    <2>1. WritePte(frame) /\ ret' = ret /\ main' = main /\ job' = job
      BY <1>4
    <2>2. /\ PathInv' /\ Top.virt \in 0 .. VirtPages - 1
          /\ req.virt <= Top.virt /\ Top.virt < req.virt + req.num
          /\ walk' # <<>> /\ Top'.virt = Top.virt + 1
          /\ \A v \in 0 .. VirtPages - 1 :
               Translate(mem', v) = IF v = Top.virt THEN frame ELSE Translate(mem, v)
      BY <1>1, <1>2, <1>3, <2>1, WritePtePath
    <2> QED BY <1>2, <1>3, <2>1, <2>2, PageParts
  <1>5. CASE pool # <<>> /\ WritePte(Head(pool)) /\ UNCHANGED <<ret, main, job>>
    <2> PICK frame \in Int : frame = Head(pool) /\ frame # Absent
      <3>1. Head(pool) \in Frames
        BY <1>1, <1>5, TailFacts DEF TablesInv, PageTableTypeOK, PoolFresh
      <3> PICK f \in Nat : f = Head(pool)
        BY <3>1, TableAssumption
      <3>2. f \in Int /\ f # Absent
        BY DEF Absent
      <3> QED BY <3>2
    <2>1. WritePte(frame) /\ ret' = ret /\ main' = main /\ job' = job
      BY <1>5
    <2>2. /\ PathInv' /\ Top.virt \in 0 .. VirtPages - 1
          /\ req.virt <= Top.virt /\ Top.virt < req.virt + req.num
          /\ walk' # <<>> /\ Top'.virt = Top.virt + 1
          /\ \A v \in 0 .. VirtPages - 1 :
               Translate(mem', v) = IF v = Top.virt THEN frame ELSE Translate(mem, v)
      BY <1>1, <1>2, <1>3, <2>1, WritePtePath
    <2> QED BY <1>2, <1>3, <2>1, <2>2, PageParts
  <1>6. CASE /\ main' \in {"panic", "wild"} /\ job' = NoJob
             /\ walk' = <<>> /\ ret' = "wild" /\ UNCHANGED <<mem, pool>>
    <2>1. PathInv' /\ JobMain'
      BY <1>1, <1>6, StillPath DEF JobMain
    <2>2. NoJob.at \notin HasStack
      BY <1>1, JobTyped
    <2>3. \A v : MayBeMapped(v) => MayBeMapped(v)'
      BY <1>2, <1>3, <1>6, <2>2, MayBeKept DEF Early, BeforeDirect, BeforeApic
    <2>4. main' \notin {"map_direct", "direct_mapped"} /\ ~Remapped'
      BY <1>6 DEF Remapped
    <2> QED BY <1>1, <1>2, <1>6, <2>1, <2>3, <2>4, QuietParts
  <1> QED BY <1>4, <1>5, <1>6 DEF MapIdleFrame

(* The calls of the boot that map memory and the APIC page.                *)
LEMMA BootAsksParts ==
  ASSUME IInv, RamFits, Parts, MapDma \/ MapDirect \/ MapApic
  PROVE  Parts' /\ Kept
  <1>1. TablesInv /\ RestTyped /\ StackInv /\ PathInv
    BY DEF IInv, StackInv, Parts
  <1>2. UNCHANGED <<ram, freeItems, bitmap, job, tasks, threads>>
    BY DEF MapDma, MapDirect, MapApic, taskVars, stackVars
  <1> DEFINE floor == KernelBase - StackWords * StackStep
  <1>3. /\ DmaTotal \in Nat /\ ram \in Nat \ {0} /\ KernelBase \in Nat /\ ApicPage \in Nat
        /\ floor \in Nat /\ ApicPage > 0 /\ VirtPages \in Nat
        /\ DmaTotal <= ApicPage /\ ApicPage < floor /\ floor <= KernelBase
        /\ KernelBase + ram <= VirtPages
        /\ DmaTotal - 1 > 0 => Fits(1, DmaTotal - 1)
        /\ Fits(KernelBase, ram) /\ Fits(ApicPage, 1)
    BY <1>1, Regions
  <1>4. /\ DmaTotal - 1 \in Nat /\ 1 \in 0 .. VirtPages - 1
        /\ KernelBase \in 0 .. VirtPages - 1 /\ ApicPage \in 0 .. VirtPages - 1
        /\ \A n \in Nat : Linear(n) \in Accessor
    BY <1>1, NumbersTyped, AccessorsMade
  <1>5. job = NoJob /\ NoJob.at \notin HasStack
    <2>1. main \notin {"idle_tasks", "running"}
      BY DEF MapDma, MapDirect, MapApic
    <2> QED BY <1>1, <2>1, JobTyped DEF Parts, JobMain
  <1>6. JobMain'
    BY <1>2, <1>5 DEF JobMain
  <1>7. \A id \in 0 .. StackWords - 1 : \A x \in TaskPages(id) :
          x \in Nat /\ floor <= x /\ x < KernelBase
    BY TaskPagesIn
  <1> HIDE DEF floor
  <1>8. CASE MapDma
    <2>1. /\ main = "map_dma" /\ main' = "dma_mapped" /\ Ask(1, DmaTotal - 1, Linear(1))
      BY <1>8 DEF MapDma
    <2>2. \A x : MayBeMapped(x) => MayBeMapped(x)'
      BY <1>2, <1>5, <2>1, MayBeKept DEF BeforeDirect, BeforeApic, Early
    <2>3. \A x : ~MayBeMapped(x)
      BY <2>1 DEF MayBeMapped, BeforeDirect, BeforeApic, Given, Early
    <2>4. \A x \in 1 .. 1 + (DmaTotal - 1) - 1 : x < VirtPages
      BY <1>3
    <2>5. req'.virt = 1 /\ req'.num = DmaTotal - 1 => AskedFor'
      BY <1>2, <2>1 DEF AskedFor, Asked, DmaTotal
    <2>6. main' \notin {"map_direct", "direct_mapped"} /\ ~Remapped'
      BY <2>1 DEF Remapped
    <2> HIDE DEF Parts, Ask
    <2> QED BY <1>1, <1>2, <1>3, <1>4, <1>6, <2>1, <2>2, <2>3, <2>4, <2>5, <2>6, AskParts
  <1>9. CASE MapDirect
    <2>1. /\ main = "map_direct" /\ main' = "direct_mapped"
          /\ Ask(KernelBase, ram, Linear(0))
      BY <1>9 DEF MapDirect
    <2>2. \A x : MayBeMapped(x) => MayBeMapped(x)'
      BY <1>2, <1>5, <2>1, MayBeKept DEF BeforeDirect, BeforeApic, Early
    <2>3. \A x \in KernelBase .. KernelBase + ram - 1 : x < VirtPages /\ ~MayBeMapped(x)
      <3> SUFFICES ASSUME NEW x \in KernelBase .. KernelBase + ram - 1
                   PROVE  x < VirtPages /\ ~MayBeMapped(x)
        OBVIOUS
      <3>1. x < VirtPages /\ x \notin 1 .. DmaTotal - 1
        BY <1>3
      <3> QED BY <2>1, <3>1 DEF MayBeMapped, BeforeDirect, BeforeApic, Given, Early
    <2>4. req'.virt = KernelBase /\ req'.num = ram => AskedFor'
      BY <1>2, <2>1 DEF AskedFor, Asked
    <2>5. ~Remapped' /\ Verified(1, DmaTotal - 1, 1)
      BY <2>1 DEF Remapped, Parts, VerifiedKept
    <2> HIDE DEF Parts, Ask
    <2> QED BY <1>1, <1>2, <1>3, <1>4, <1>6, <2>1, <2>2, <2>3, <2>4, <2>5, AskParts
  <1>10. CASE MapApic
    <2>1. /\ main = "map_apic" /\ main' = "apic_mapped"
          /\ Ask(ApicPage, 1, Linear(ApicPage))
      BY <1>10 DEF MapApic
    <2>2. \A x : MayBeMapped(x) => MayBeMapped(x)'
      BY <1>2, <1>5, <2>1, MayBeKept DEF BeforeDirect, BeforeApic, Early
    <2>3. \A x \in ApicPage .. ApicPage + 1 - 1 : x < VirtPages /\ ~MayBeMapped(x)
      <3> SUFFICES ASSUME NEW x \in ApicPage .. ApicPage + 1 - 1
                   PROVE  x < VirtPages /\ ~MayBeMapped(x)
        OBVIOUS
      <3>1. x = ApicPage /\ x < VirtPages
        BY <1>3
      <3>2. x \notin 1 .. DmaTotal - 1 /\ x \notin KernelBase .. KernelBase + ram - 1
        BY <1>3, <3>1
      <3>3. \A id \in 0 .. StackWords - 1 : x \notin TaskPages(id)
        BY <1>3, <1>7, <3>1
      <3> QED BY <2>1, <3>1, <3>2, <3>3 DEF MayBeMapped, BeforeApic
    <2>4. req'.virt = ApicPage /\ req'.num = 1 => AskedFor'
      BY <1>2, <2>1 DEF AskedFor, Asked
    <2>5. Verified(1, DmaTotal - 1, 1) /\ Verified(KernelBase, ram, 0)
      BY <2>1 DEF Remapped, Parts, VerifiedKept
    <2> HIDE DEF Parts, Ask
    <2> QED BY <1>1, <1>2, <1>3, <1>4, <1>6, <2>1, <2>2, <2>3, <2>4, <2>5, AskParts
  <1> QED BY <1>8, <1>9, <1>10

(* The checks of the boot after a call. *)
LEMMA BootChecksParts ==
  ASSUME IInv, Parts, DmaMapped \/ DirectMapped \/ ApicMapped
  PROVE  Parts' /\ Kept
  <1>1. TablesInv /\ RestTyped /\ StackInv /\ PathInv
    BY DEF IInv, StackInv, Parts
  <1>2. UNCHANGED <<mem, walk, req, ret, ram, freeItems, bitmap, job, tasks, threads>>
    BY DEF DmaMapped, DirectMapped, ApicMapped, taskVars, stackVars, tableVars, callVars
  <1>3. Answered /\ walk' = <<>>
    BY <1>1, <1>2 DEF DmaMapped, DirectMapped, ApicMapped, Answered, PathInv
  <1>4. PathInv' /\ \A v \in Nat : Translate(mem', v) = Translate(mem, v)
    BY <1>1, <1>2, StillPath
  <1>5. job = NoJob /\ NoJob.at \notin HasStack
    <2>1. main \notin {"idle_tasks", "running"}
      BY DEF DmaMapped, DirectMapped, ApicMapped
    <2> QED BY <1>1, <2>1, JobTyped DEF Parts, JobMain
  <1>6. JobMain'
    BY <1>2, <1>5 DEF JobMain
  <1>7. ret \in {"OK", "EINVAL", "ENOMEM", "wild"}
    BY <1>1, <1>3 DEF TablesInv, PageTableTypeOK, Answered
  <1>8. CASE DmaMapped
    <2>1. /\ main = "dma_mapped"
          /\ \/ main' \in {"panic", "wild"}
             \/ main' = "map_direct" /\ Verified(1, DmaTotal - 1, 1)
      BY <1>7, <1>8 DEF DmaMapped, AfterMapping
    <2>2. \A x : MayBeMapped(x) => MayBeMapped(x)'
      BY <1>2, <1>5, <2>1, MayBeKept DEF BeforeDirect, BeforeApic, Early
    <2> QED BY <1>1, <1>2, <1>3, <1>4, <1>6, <2>1, <2>2, QuietParts DEF Remapped
  <1>9. CASE DirectMapped
    <2>1. /\ main = "direct_mapped"
          /\ \/ main' \in {"panic", "wild"}
             \/ main' = "init_stacks" /\ Verified(KernelBase, ram, 0)
      BY <1>7, <1>9 DEF DirectMapped, AfterMapping
    <2>2. \A x : MayBeMapped(x) => MayBeMapped(x)'
      BY <1>2, <1>5, <2>1, MayBeKept DEF BeforeDirect, BeforeApic, Early
    <2>3. Verified(1, DmaTotal - 1, 1)
      BY <2>1 DEF Parts, VerifiedKept
    <2> QED BY <1>1, <1>2, <1>3, <1>4, <1>6, <2>1, <2>2, <2>3, QuietParts DEF Remapped
  <1>10. CASE ApicMapped
    <2>1. main = "apic_mapped" /\ main' \in {"wild", "running"}
      BY <1>10 DEF ApicMapped
    <2>2. \A x : MayBeMapped(x) => MayBeMapped(x)'
      BY <1>2, <1>5, <2>1, MayBeKept DEF BeforeDirect, BeforeApic, Early
    <2>3. Verified(1, DmaTotal - 1, 1) /\ Verified(KernelBase, ram, 0)
      BY <2>1 DEF Remapped, Parts, VerifiedKept
    <2> QED BY <1>1, <1>2, <1>3, <1>4, <1>6, <2>1, <2>2, <2>3, QuietParts
  <1> QED BY <1>8, <1>9, <1>10

(* Pages are taken from the pool: for the stack chunk, a task structure or *)
(* the stack of a thread.                                                  *)
LEMMA AllocationsParts ==
  ASSUME IInv, Parts, InitStackAllocator \/ AllocTaskStruct \/ AllocStackPages
  PROVE  Parts' /\ Kept
  <1>1. TablesInv /\ RestTyped /\ StackInv /\ PathInv /\ JobMain
    BY DEF IInv, StackInv, Parts
  <1>2. /\ UNCHANGED callVars /\ ram' = ram /\ walk' = walk /\ main \notin {"map_dma", "dma_mapped"}
        /\ \A t \in Frames \ ToSet(pool) : mem'[t] = mem[t]
    <2>1. UNCHANGED callVars /\ ram' = ram /\ walk' = walk
      BY DEF InitStackAllocator, AllocTaskStruct, AllocStackPages, callVars
    <2>2. main \in MainLabels \ (Early \ {"init_stacks"})
      BY <1>1, JobIsLate DEF InitStackAllocator, AllocTaskStruct, AllocStackPages, JobAt,
                             MainLabels, Early
    <2>3. \/ mem' = mem
          \/ pool # <<>> /\ mem' = [mem EXCEPT ![Head(pool)] = Cleared]
      BY DEF InitStackAllocator, AllocTaskStruct, AllocStackPages
    <2>4. ASSUME pool # <<>>, mem' = [mem EXCEPT ![Head(pool)] = Cleared]
          PROVE  \A t \in Frames \ ToSet(pool) : mem'[t] = mem[t]
      <3>1. Head(pool) \in ToSet(pool) /\ mem \in [Frames -> [Slots -> Int]]
        BY <1>1, <2>4, TailFacts DEF TablesInv, PageTableTypeOK, PoolFresh
      <3> QED BY <2>4, <3>1
    <2> QED BY <2>1, <2>2, <2>3, <2>4 DEF Early
  <1>3. PathInv' /\ \A v \in Nat : Translate(mem', v) = Translate(mem, v)
    BY <1>1, <1>2, TakeFramesPath
  <1>5. NoJob.at \notin HasStack /\ NoJob.kind = "none"
    BY <1>1, JobTyped DEF NoJob
  <1>4. walk' = <<>>
    <2>1. CASE InitStackAllocator
      <3>1. main = "init_stacks" /\ job.kind = "none"
        BY <1>1, <1>5, <2>1 DEF InitStackAllocator, JobMain
      <3> QED BY <1>2, <3>1 DEF Parts, AskedFor, JobAt
    <2>2. CASE AllocTaskStruct \/ AllocStackPages
      <3>1. job.kind # "none" /\ job.at \in {"alloc", "pages"}
        BY <2>2 DEF AllocTaskStruct, AllocStackPages, JobAt
      <3>2. main \in {"idle_tasks", "running"}
        BY <1>1, <1>5, <3>1 DEF JobMain
      <3> QED BY <1>2, <3>1, <3>2 DEF Parts, AskedFor, JobAt
    <2> QED BY <2>1, <2>2
  <1>6. CASE InitStackAllocator
    <2>1. /\ main = "init_stacks" /\ job' = job
          /\ \/ main' \in {"panic", "wild"}
             \/ main' = "idle_tasks"
      BY <1>6 DEF InitStackAllocator
    <2>2. job = NoJob
      BY <1>1, <2>1 DEF JobMain
    <2>3. JobMain'
      BY <2>1, <2>2 DEF JobMain
    <2>4. \A x : MayBeMapped(x) => MayBeMapped(x)'
      <3>1. /\ main \in Early /\ main \in BeforeApic
            /\ main' \notin BeforeDirect /\ main' # "map_dma"
        BY <2>1 DEF BeforeDirect, BeforeApic, Early
      <3>2. ram' = ram
        BY <1>2
      <3> QED BY <3>1, <3>2, MayBeKept
    <2>5. Verified(1, DmaTotal - 1, 1) /\ Verified(KernelBase, ram, 0)
      BY <2>1 DEF Remapped, Parts, VerifiedKept
    <2> QED BY <1>1, <1>2, <1>3, <1>4, <2>3, <2>4, <2>5, QuietParts
  <1>7. ASSUME job.kind # "none", bitmap' = bitmap,
               \/ job' = NoJob /\ main' \in {main, "panic", "wild"}
               \/ /\ main' = main /\ job'.kind = job.kind
                  /\ \/ job'.at \notin HasStack
                     \/ /\ job'.id = job.id /\ job.at \in HasStack
                        /\ job.at \notin {"stack_mapped", "task_mapped"}
        PROVE  Parts' /\ Kept
    <2>1. main \in {"idle_tasks", "running"}
      BY <1>1, <1>5, <1>7 DEF JobMain
    <2>2. JobMain'
      BY <1>1, <1>5, <1>7 DEF JobMain
    <2>3. \A x : MayBeMapped(x) => MayBeMapped(x)'
      BY <1>2, <1>5, <1>7, <2>1, MayBeKept DEF BeforeDirect, BeforeApic, Early
    <2>4. Verified(1, DmaTotal - 1, 1) /\ Verified(KernelBase, ram, 0)
      BY <2>1 DEF Remapped, Parts, VerifiedKept
    <2> QED BY <1>1, <1>2, <1>3, <1>4, <2>2, <2>3, <2>4, QuietParts
  <1>8. job \in Job
    BY <1>1 DEF RestTyped
  <1>9. CASE AllocTaskStruct
    <2>1. job.kind # "none" /\ bitmap' = bitmap
      BY <1>9 DEF AllocTaskStruct, JobAt, stackVars
    <2>2. CASE NoPage
      BY <1>7, <2>1, <2>2 DEF NoPage, GiveUp
    <2>3. CASE main' = main /\ job' = [job EXCEPT !.ts = Head(pool), !.at = "stack"]
      <3>1. job'.kind = job.kind /\ job'.at = "stack"
        BY <1>8, <2>3 DEF Job
      <3> QED BY <1>7, <2>1, <2>3, <3>1 DEF HasStack
    <2> QED BY <1>9, <2>2, <2>3 DEF AllocTaskStruct
  <1>10. CASE AllocStackPages
    <2>1. job.kind # "none" /\ bitmap' = bitmap /\ job.at = "pages"
      BY <1>10 DEF AllocStackPages, JobAt, stackVars
    <2>2. CASE job' = NoJob /\ main' \in {main, "wild"}
      BY <1>7, <2>1, <2>2
    <2>3. CASE /\ main' = main
               /\ job' = [job EXCEPT !.pages = SubSeq(pool, 1, StackPages), !.at = "map_stack"]
      <3>1. job'.kind = job.kind /\ job'.id = job.id
        BY <1>8, <2>3 DEF Job
      <3> QED BY <1>7, <2>1, <2>3, <3>1 DEF HasStack
    <2> QED BY <1>10, <2>2, <2>3 DEF AllocStackPages
  <1> QED BY <1>6, <1>9, <1>10

(* The steps of a creation that touch neither memory nor pool: its         *)
(* beginning, the stack, the end, a failure.                               *)
LEMMA JobParts ==
  ASSUME IInv, Parts, UNCHANGED <<mem, walk, req, ret, ram>>, walk = <<>>,
         main \in {"idle_tasks", "running"}, JobMain',
         main' \in {main, "map_apic", "panic", "wild", "halted"},
         main' = "map_apic" => main = "idle_tasks",
         bitmap' \subseteq bitmap,
         job'.at \in HasStack => job'.id \in bitmap
  PROVE  Parts' /\ Kept
  <1>1. TablesInv /\ RestTyped /\ StackInv /\ PathInv
    BY DEF IInv, StackInv, Parts
  <1>2. PathInv' /\ \A v \in Nat : Translate(mem', v) = Translate(mem, v)
    BY <1>1, StillPath
  <1>3. \A x : MayBeMapped(x) => MayBeMapped(x)'
    BY MayBeKept DEF BeforeDirect, BeforeApic, Early
  <1>4. Verified(1, DmaTotal - 1, 1) /\ Verified(KernelBase, ram, 0)
    BY DEF Remapped, Parts, VerifiedKept
  <1> QED BY <1>1, <1>2, <1>3, <1>4, QuietParts

(* The beginning of a creation, its stack, its end.                        *)
LEMMA CreationParts ==
  ASSUME IInv, Parts, StartIdleTask \/ KernelThread \/ AllocateStack \/ TaskMapped
  PROVE  Parts' /\ Kept
  <1>1. TablesInv /\ RestTyped /\ StackInv /\ PathInv /\ JobMain /\ job \in Job
    BY DEF IInv, StackInv, Parts, RestTyped
  <1>2. UNCHANGED <<mem, walk, req, ret, ram>>
    BY DEF StartIdleTask, KernelThread, AllocateStack, TaskMapped, tableVars, callVars
  <1>3. NoJob.at \notin HasStack /\ NoJob.kind = "none"
    BY <1>1, JobTyped DEF NoJob
  <1>4. CASE StartIdleTask \/ KernelThread
    <2>1. /\ main \in {"idle_tasks", "running"} /\ job = NoJob /\ bitmap' = bitmap
          /\ main' \in {main, "map_apic"} /\ (main' = "map_apic" => main = "idle_tasks")
          /\ \/ job' = job
             \/ /\ main' = main
                /\ \E k \in {"idle", "thread"} :
                     /\ job' = [NoJob EXCEPT !.kind = k, !.at = "alloc"]
                     /\ main = IF k = "idle" THEN "idle_tasks" ELSE "running"
      BY <1>4 DEF StartIdleTask, KernelThread, stackVars
    <2>2. walk = <<>>
      BY <1>3, <2>1 DEF Parts, AskedFor, JobAt
    <2>3. JobMain' /\ job'.at \notin HasStack
      <3>1. CASE job' = job
        BY <1>3, <2>1, <3>1 DEF JobMain
      <3>2. ASSUME NEW k \in {"idle", "thread"},
                   job' = [NoJob EXCEPT !.kind = k, !.at = "alloc"],
                   main' = IF k = "idle" THEN "idle_tasks" ELSE "running"
            PROVE  JobMain' /\ job'.at \notin HasStack
        <4>1. job'.kind = k /\ job'.at = "alloc"
          BY <3>2 DEF NoJob
        <4> QED BY <3>2, <4>1 DEF JobMain, HasStack
      <3> QED BY <2>1, <3>1, <3>2
    <2> QED BY <1>2, <2>1, <2>2, <2>3, JobParts
  <1>5. CASE AllocateStack
    <2>1. job.kind # "none" /\ job.at = "stack"
      BY <1>5 DEF AllocateStack, JobAt
    <2>2. walk = <<>> /\ main \in {"idle_tasks", "running"}
      BY <1>1, <1>3, <2>1 DEF Parts, AskedFor, JobMain, JobAt
    <2>3. CASE /\ main' = main
               /\ \E id \in bitmap :
                    /\ bitmap' = Reserve(id)
                    /\ job' = [job EXCEPT !.id = id,
                                          !.at = IF Idle THEN "map_stack" ELSE "pages"]
      <3> PICK id \in bitmap :
                    /\ bitmap' = Reserve(id)
                    /\ job' = [job EXCEPT !.id = id,
                                          !.at = IF Idle THEN "map_stack" ELSE "pages"]
        BY <2>3
      <3>1. job'.kind = job.kind /\ job'.id = id
        BY <1>1 DEF Job
      <3>2. JobMain'
        BY <1>1, <1>3, <2>1, <2>3, <3>1 DEF JobMain
      <3> QED BY <1>2, <2>2, <2>3, <3>1, <3>2, JobParts DEF Reserve
    <2>4. CASE NoStackLeft /\ UNCHANGED stackVars
      <3>1. /\ job' = NoJob /\ main' \in {"panic", "halted"} /\ bitmap' = bitmap
        BY <2>4 DEF NoStackLeft, stackVars
      <3> QED BY <1>2, <1>3, <2>2, <3>1, JobParts DEF JobMain
    <2> QED BY <1>5, <2>3, <2>4 DEF AllocateStack
  <1>6. CASE TaskMapped
    <2>1. job.kind # "none" /\ Answered /\ bitmap' = bitmap
      BY <1>6 DEF TaskMapped, JobAt, stackVars
    <2>2. walk = <<>> /\ main \in {"idle_tasks", "running"}
      BY <1>1, <1>3, <2>1 DEF PathInv, Answered, JobMain
    <2>3. job' = NoJob /\ main' \in {main, "panic", "wild"}
      BY <1>6 DEF TaskMapped, MapFailed, GiveUp
    <2> QED BY <1>2, <1>3, <2>1, <2>2, <2>3, JobParts DEF JobMain
  <1> QED BY <1>4, <1>5, <1>6

(* The calls of mm_map_pages() for a new task.                             *)
LEMMA MapForTaskParts ==
  ASSUME IInv, RamFits, Parts, MapStack \/ MapTaskStruct
  PROVE  Parts' /\ Kept
  <1>1. TablesInv /\ RestTyped /\ StackInv /\ PathInv /\ JobMain /\ job \in Job
    BY DEF IInv, StackInv, Parts, RestTyped
  <1>2. /\ ram' = ram /\ bitmap' = bitmap
        /\ job.kind # "none" /\ job.at \in HasStack /\ main \notin Early
    BY <1>1, JobIsLate DEF MapStack, MapTaskStruct, stackVars, JobAt, HasStack
  <1>3. \/ job.kind = "idle" /\ main = "idle_tasks"
        \/ job.kind = "thread" /\ main = "running"
    <2>1. NoJob.kind = "none"
      BY DEF NoJob
    <2> QED BY <1>1, <1>2, <2>1 DEF JobMain
  <1> PICK id \in 0 .. StackWords - 1 : id = job.id
    <2>1. job.id \in Nat /\ job.id < StackWords /\ StackWords \in Nat
      BY <1>1, <1>2, LayoutAssumption DEF StackInv, StackFits, Job
    <2> QED BY <2>1
  <1> DEFINE floor == KernelBase - StackWords * StackStep
  <1>4. /\ DmaTotal \in Nat /\ ram \in Nat \ {0} /\ KernelBase \in Nat /\ ApicPage \in Nat
        /\ floor \in Nat /\ VirtPages \in Nat
        /\ DmaTotal <= ApicPage /\ ApicPage < floor /\ KernelBase + ram <= VirtPages
        /\ Fits(LowAddress(id), StackPages) /\ Fits(TaskAddress(id), 1)
    BY <1>1, Regions
  <1>5. /\ List(job.pages) \in Accessor /\ Linear(job.ts) \in Accessor
        /\ [Linear(0) EXCEPT !.kind = "idle"] \in Accessor
    BY <1>1, TaskAccessors
  <1>6. /\ StackPages \in Nat /\ LowAddress(id) \in 0 .. VirtPages - 1
        /\ TaskAddress(id) \in 0 .. VirtPages - 1
    <2>1. id \in Nat /\ id < StackWords
      BY LayoutAssumption
    <2> QED BY <1>1, <2>1, StackAddresses, NumbersTyped
  <1>7. Verified(1, DmaTotal - 1, 1) /\ Verified(KernelBase, ram, 0)
    BY <1>3 DEF Remapped, Parts, VerifiedKept
  <1>8. ASSUME NEW x \in TaskPages(id), ~Given(id, x)
        PROVE  x < VirtPages /\ ~MayBeMapped(x)
    <2>1. x \in Nat /\ floor <= x /\ x < KernelBase
          /\ Block(id) <= x /\ x < Block(id) + StackStep
      BY <1>8, TaskPagesIn
    <2>2. x \notin 1 .. DmaTotal - 1 /\ x # ApicPage /\ x < VirtPages
          /\ x \notin KernelBase .. KernelBase + ram - 1
      BY <1>4, <2>1
    <2>3. ASSUME NEW other \in 0 .. StackWords - 1, x \in TaskPages(other), other # id
          PROVE  FALSE
      <3>1. Block(other) <= x /\ x < Block(other) + StackStep
        BY <2>3, TaskPagesIn
      <3>2. /\ Block(id) \in Nat /\ Block(other) \in Nat /\ StackStep \in Nat
        BY Blocks
      <3>3. \/ Block(other) + StackStep <= Block(id)
            \/ Block(id) + StackStep <= Block(other)
        <4>1. CASE other < id
          BY <4>1, BlocksApart
        <4>2. CASE id < other
          BY <4>2, BlocksApart
        <4> QED BY <2>3, <4>1, <4>2
      <3> QED BY <2>1, <3>1, <3>2, <3>3
    <2> QED BY <1>8, <2>2, <2>3 DEF MayBeMapped
  <1> HIDE DEF floor
  <1>9. CASE MapStack
    <2>1. PICK a \in Accessor : Ask(LowAddress(id), StackPages, a)
      BY <1>5, <1>9 DEF MapStack
    <2>2. /\ job' = [job EXCEPT !.at = "stack_mapped"] /\ main' = main
          /\ job.at = "map_stack"
      BY <1>9 DEF MapStack, JobAt
    <2>3. job'.id = id /\ job'.kind = job.kind /\ job'.at = "stack_mapped"
      BY <1>1, <2>2 DEF Job
    <2>4. JobMain'
      BY <1>3, <2>2, <2>3 DEF JobMain
    <2>5. \A x : MayBeMapped(x) => MayBeMapped(x)'
      BY <1>2, <2>2, <2>3, MayBeKept DEF HasStack
    <2>6. \A x \in LowAddress(id) .. LowAddress(id) + StackPages - 1 :
            x < VirtPages /\ ~MayBeMapped(x)
      <3>1. \A x \in LowAddress(id) .. LowAddress(id) + StackPages - 1 : x \in TaskPages(id)
        <4>1. LowAddress(id) \in Nat /\ HighAddress(id) = LowAddress(id) + StackPages
          BY TaskPagesIn
        <4> QED BY <1>6, <4>1 DEF TaskPages
      <3>2. \A x : ~Given(id, x)
        BY <1>2, <2>2 DEF Given
      <3> QED BY <1>8, <3>1, <3>2
    <2>7. req'.virt = LowAddress(id) /\ req'.num = StackPages => AskedFor'
      BY <1>2, <2>3 DEF AskedFor, Asked, JobAt
    <2> QED BY <1>1, <1>2, <1>4, <1>6, <1>7, <2>1, <2>4, <2>5, <2>6, <2>7, AskParts
  <1>10. CASE /\ JobAt("stack_mapped") /\ main' = main
              /\ Ask(TaskAddress(job.id), 1,
                    IF Idle THEN [Linear(0) EXCEPT !.kind = "idle"] ELSE Linear(job.ts))
              /\ job' = [job EXCEPT !.at = "task_mapped"]
    <2>1. PICK a \in Accessor : Ask(TaskAddress(id), 1, a)
      BY <1>5, <1>10
    <2>2. job.at = "stack_mapped"
      BY <1>10 DEF JobAt
    <2>3. job'.id = id /\ job'.kind = job.kind /\ job'.at = "task_mapped"
      BY <1>1, <1>10 DEF Job
    <2>4. JobMain'
      BY <1>3, <1>10, <2>3 DEF JobMain
    <2>5. \A x : MayBeMapped(x) => MayBeMapped(x)'
      BY <1>2, <1>10, <2>3, MayBeKept DEF HasStack
    <2>6. \A x \in TaskAddress(id) .. TaskAddress(id) + 1 - 1 :
            x < VirtPages /\ ~MayBeMapped(x)
      <3>1. \A x \in TaskAddress(id) .. TaskAddress(id) + 1 - 1 : x = TaskAddress(id)
        BY <1>6
      <3>2. TaskAddress(id) \in TaskPages(id) /\ ~Given(id, TaskAddress(id))
        BY <1>2, <2>2 DEF TaskPages, Given
      <3> QED BY <1>8, <3>1, <3>2
    <2>7. req'.virt = TaskAddress(id) /\ req'.num = 1 => AskedFor'
      BY <1>2, <2>3 DEF AskedFor, Asked, JobAt
    <2> QED BY <1>1, <1>2, <1>4, <1>6, <1>7, <1>10, <2>1, <2>4, <2>5, <2>6, <2>7, AskParts
  <1>11. CASE MapTaskStruct /\ MapFailed /\ UNCHANGED tableVars
    <2>1. Answered /\ UNCHANGED <<mem, walk, req, ret, ram>>
      BY <1>2, <1>11 DEF MapTaskStruct, tableVars, callVars
    <2>2. walk = <<>>
      BY <1>1, <2>1 DEF PathInv, Answered
    <2>3. job' = NoJob /\ main' \in {main, "panic", "wild"}
      BY <1>11 DEF MapFailed, GiveUp
    <2>4. NoJob.at \notin HasStack
      BY <1>1, JobTyped
    <2> QED BY <1>2, <1>3, <2>1, <2>2, <2>3, <2>4, JobParts DEF JobMain
  <1> QED BY <1>9, <1>10, <1>11 DEF MapTaskStruct

(* Nothing is mapped before the boot. *)
LEMMA InitParts == Init => Parts
  <1> SUFFICES ASSUME Init PROVE Parts
    OBVIOUS
  <1>1. /\ mem = [f \in Frames |-> IF f = Root THEN Cleared ELSE Garbage]
        /\ walk = <<>> /\ ret = "OK" /\ main = "map_dma" /\ job = NoJob
    BY DEF Init, InitTables
  <1>2. ASSUME NEW v \in 0 .. VirtPages - 1 PROVE Pin(v) = INVALID_PAGE_IDX
    <2>0. v \in Nat /\ Root \in Frames /\ Absent \notin Frames
      BY RangesPositive, TableAssumption DEF Absent
    <2>1. Index(v, 4) \in Slots
      BY <2>0, IndexTyped DEF Levels
    <2>2. T3(mem, v) = Absent
      BY <1>1, <2>0, <2>1 DEF T3, Ent, Cleared
    <2>3. T2(mem, v) = Absent
      BY <2>0, <2>2 DEF T2, Ent
    <2>4. T1(mem, v) = Absent
      BY <2>0, <2>3 DEF T1, Ent
    <2>5. Translate(mem, v) = INVALID_PAGE_IDX
      BY <2>0, <2>4 DEF Translate, Ent
    <2> QED BY <2>5, PinIs
  <1>3. PathInv /\ JobMain /\ AskedFor /\ UnmappedAhead
    BY <1>1 DEF PathInv, JobMain, AskedFor, UnmappedAhead
  <1>4. MappedWhere
    BY <1>2 DEF MappedWhere
  <1>5. VerifiedKept
    BY <1>1 DEF VerifiedKept, Remapped
  <1> QED BY <1>3, <1>4, <1>5 DEF Parts

(* Every step keeps what is mapped.                                        *)
LEMMA NextParts ==
  ASSUME IInv, RamFits, Parts, [Next]_vars
  PROVE  Parts' /\ Kept /\ RamFits'
  <1>1. ram' = ram
    BY DEF Next, Work, CreateTask, Stopped, vars, MapDma, DmaMapped, MapDirect, DirectMapped,
           InitStackAllocator, StartIdleTask, AllocTaskStruct, AllocateStack, AllocStackPages,
           MapStack, MapIdleFrame, MapTaskStruct, TaskMapped, MapApic, ApicMapped, Walk,
           KernelThread
  <1>2. RamFits'
    BY <1>1 DEF RamFits
  <1>3. CASE Stopped \/ UNCHANGED vars
    <2>1. UNCHANGED <<mem, walk, req, ret, ram, main, bitmap, job>>
      BY <1>3 DEF Stopped, vars, tableVars, callVars
    <2>2. \A v : Pin(v)' = Pin(v)
      BY <2>1, PinIs
    <2>3. Kept
      BY <2>2 DEF Kept
    <2>4. PathInv' /\ JobMain' /\ AskedFor'
      BY <2>1, StillPath DEF Parts, JobMain, AskedFor, Asked, JobAt, DmaTotal
    <2>5. UnmappedAhead'
      BY <2>1, <2>2 DEF Parts, UnmappedAhead, Top
    <2>6. MappedWhere'
      BY <2>1, <2>2 DEF Parts, MappedWhere, MayBeMapped, Given, DmaTotal
    <2>7. VerifiedKept'
      BY <2>1, <2>3, VerifiedStays
         DEF Parts, VerifiedKept, Remapped, IInv, StackInv
    <2> QED BY <1>2, <2>3, <2>4, <2>5, <2>6, <2>7 DEF Parts
  <1>4. CASE MapDma \/ MapDirect \/ MapApic
    BY <1>2, <1>4, BootAsksParts
  <1>5. CASE DmaMapped \/ DirectMapped \/ ApicMapped
    BY <1>2, <1>5, BootChecksParts
  <1>6. CASE InitStackAllocator \/ AllocTaskStruct \/ AllocStackPages
    BY <1>2, <1>6, AllocationsParts
  <1>7. CASE StartIdleTask \/ KernelThread \/ AllocateStack \/ TaskMapped
    BY <1>2, <1>7, CreationParts
  <1>8. CASE MapStack \/ MapTaskStruct
    BY <1>2, <1>8, MapForTaskParts
  <1> QED BY <1>2, <1>3, <1>4, <1>5, <1>6, <1>7, <1>8, WalkParts, MapIdleFrameParts
          DEF Next, Work, CreateTask

SpaceInv == IInv /\ RamFits /\ Parts

(* On a machine whose memory fits it holds at every step.                  *)
LEMMA SpaceInvAlways == Spec /\ RamFits => []SpaceInv /\ NoLiveRemap
  <1>1. Init /\ RamFits => SpaceInv
    BY InitIInv, InitParts DEF SpaceInv
  <1>2. SpaceInv /\ [Next]_vars => SpaceInv'
    BY NextIInv, NextParts DEF SpaceInv
  <1>3. SpaceInv /\ [Next]_vars =>
          [\A v \in 0 .. VirtPages - 1 :
             Pin(v) # INVALID_PAGE_IDX => Pin(v)' = Pin(v)]_vars
    BY NextParts DEF SpaceInv, Kept
  <1> QED BY <1>1, <1>2, <1>3, PTL DEF Spec, NoLiveRemap

(* No step of the boot or of a creation of a task changes the translation  *)
(* of a mapped page, so that the kernel need not invalidate the TLB.       *)
THEOREM NoTlbFlushNeeded == Spec /\ RamFits => NoLiveRemap
  BY SpaceInvAlways

(* The direct mapping, the one-to-one mapping of the first pages and the   *)
(* unmapped page 0 outlive whatever is mapped after arch_remap_memory().   *)
THEOREM DirectMapStays == Spec /\ RamFits => []DirectMapKept
  <1>1. SpaceInv => DirectMapKept
    <2> SUFFICES ASSUME SpaceInv, Remapped PROVE DirectMapKept
      BY DEF DirectMapKept
    <2>1. RestTyped
      BY DEF SpaceInv, IInv, StackInv
    <2>2. Verified(1, DmaTotal - 1, 1) /\ Verified(KernelBase, ram, 0)
      BY DEF SpaceInv, Parts, VerifiedKept
    <2>3. Pin(0) = INVALID_PAGE_IDX
      <3> DEFINE floor == KernelBase - StackWords * StackStep
      <3>1. /\ KernelBase \in Nat /\ ApicPage \in Nat /\ ApicPage > 0 /\ ram \in Nat
            /\ floor \in Nat /\ ApicPage < floor /\ floor <= KernelBase /\ DmaTotal \in Nat
        BY <2>1, Regions DEF SpaceInv
      <3>2. \A id \in 0 .. StackWords - 1 : \A x \in TaskPages(id) : x \in Nat /\ floor <= x
        BY TaskPagesIn
      <3> HIDE DEF floor
      <3>3. \A id \in 0 .. StackWords - 1 : 0 \notin TaskPages(id)
        BY <3>1, <3>2
      <3>4. 0 \notin 1 .. DmaTotal - 1 /\ 0 \notin KernelBase .. KernelBase + ram - 1
            /\ 0 # ApicPage
        BY <3>1
      <3>5. ~MayBeMapped(0)
        BY <3>3, <3>4 DEF MayBeMapped
      <3>6. 0 \in 0 .. VirtPages - 1
        BY RangesPositive
      <3> QED BY <3>5, <3>6 DEF SpaceInv, Parts, MappedWhere
    <2> QED BY <2>2, <2>3 DEF DirectMapKept
  <1> QED BY <1>1, SpaceInvAlways, PTL

-----------------------------------------------------------------------------
(* The frames of the tasks *)

(* The pages of all stacks and task structures, and the frames that are no *)
(* tables and that alloc_page() does not have.                             *)
TaskArea == UNION {TaskPages(id) : id \in 0 .. StackWords - 1}
Private  == Owned(mem, ToSet(pool))

(* The task under creation has the frame of its structure until that is    *)
(* mapped, and the frames of its stack that are not mapped yet.            *)
TsInHand == \/ job.at \in {"stack", "pages", "map_stack", "stack_mapped"}
            \/ job.at = "task_mapped" /\ Pin(TaskAddress(job.id)) = INVALID_PAGE_IDX

Left == IF job.at = "map_stack" THEN job.pages
        ELSE IF job.at = "stack_mapped" /\ walk # <<>> THEN pacc.left ELSE <<>>

Hand == (IF TsInHand THEN {job.ts} ELSE {}) \cup ToSet(Left)

(* What is mapped in the area of the tasks, and what a task under creation *)
(* has in hand, are frames of nobody else, each once.                      *)
HandOwned == /\ Hand \subseteq Private
             /\ \A v \in TaskArea : Pin(v) # INVALID_PAGE_IDX => Pin(v) \notin Hand
             /\ IsInjective(Left) /\ (TsInHand => job.ts \notin ToSet(Left))

FramesOwned ==
  /\ \A v \in TaskArea : Pin(v) # INVALID_PAGE_IDX => Pin(v) \in Private
  /\ \A v, w \in TaskArea : Pin(v) # INVALID_PAGE_IDX /\ Pin(v) = Pin(w) => v = w
  /\ HandOwned

(* The accessor has a frame for every page that is to be mapped.           *)
FramesSuffice ==
  /\ job.at \in {"alloc", "stack", "pages"} \/ Idle => job.pages = <<>>
  /\ job.at = "pages" => ~Idle
  /\ job.at = "map_stack" /\ ~Idle => Len(job.pages) = StackPages
  /\ job.at = "stack_mapped" /\ walk # <<>> =>
       IF Idle THEN pacc.kind = "idle" /\ pacc.left = <<>>
       ELSE pacc.kind = "list" /\ Len(pacc.left) = req.virt + req.num - Top.virt
  /\ job.at = "task_mapped" /\ walk # <<>> =>
       IF Idle THEN pacc.kind = "idle"
       ELSE pacc.kind = "linear" /\ (Top.virt = req.virt => pacc.next = job.ts)

StackMapped(id) ==
  \A v \in LowAddress(id) .. HighAddress(id) - 1 : Pin(v) # INVALID_PAGE_IDX

(* All of a task is mapped.                                                *)
TasksMapped ==
  \A i \in DOMAIN tasks : /\ tasks[i].id < StackWords
                          /\ StackMapped(tasks[i].id)
                          /\ Pin(TaskAddress(tasks[i].id)) = tasks[i].ts

(* Of a task under creation what the walk has passed is mapped, and so it  *)
(* is all when the walk is done.                                           *)
JobMapped ==
  /\ job.at = "stack_mapped" =>
       /\ walk # <<>> => \A v \in req.virt .. Top.virt - 1 : Pin(v) # INVALID_PAGE_IDX
       /\ ret = "OK" => StackMapped(job.id)
  /\ job.at = "task_mapped" =>
       /\ StackMapped(job.id)
       /\ walk # <<>> => \A v \in req.virt .. Top.virt - 1 : Pin(v) = job.ts
       /\ ret = "OK" => Pin(TaskAddress(job.id)) = job.ts

OwnParts == FramesOwned /\ FramesSuffice /\ TasksMapped /\ JobMapped

(* The area of the tasks is none of the regions that the boot maps.        *)
LEMMA AreaApart ==
  ASSUME RestTyped, RamFits
  PROVE  /\ TaskArea \subseteq 0 .. VirtPages - 1
         /\ \A id \in 0 .. StackWords - 1 : TaskPages(id) \subseteq TaskArea
         /\ \A v \in TaskArea : /\ v \notin 1 .. DmaTotal - 1 /\ v # ApicPage
                               /\ v \notin KernelBase .. KernelBase + ram - 1
  <1> DEFINE floor == KernelBase - StackWords * StackStep
  <1>1. /\ KernelBase \in Nat /\ ApicPage \in Nat /\ ram \in Nat
        /\ floor \in Nat /\ ApicPage < floor /\ DmaTotal \in Nat /\ DmaTotal <= ApicPage
    BY Regions
  <1>2. \A id \in 0 .. StackWords - 1 : \A x \in TaskPages(id) :
          x \in Nat /\ floor <= x /\ x < KernelBase
    BY TaskPagesIn
  <1>3. \A v \in TaskArea : v \in Nat /\ floor <= v /\ v < KernelBase
    BY <1>2 DEF TaskArea
  <1> HIDE DEF floor
  <1>4. \A v \in TaskArea : /\ v \notin 1 .. DmaTotal - 1 /\ v # ApicPage
                            /\ v \notin KernelBase .. KernelBase + ram - 1
    BY <1>1, <1>3
  <1>5. TaskArea \subseteq 0 .. VirtPages - 1
    BY TaskPagesIn DEF TaskArea
  <1> QED BY <1>4, <1>5 DEF TaskArea

(* At most one page gets a frame, a private one that is mapped nowhere     *)
(* else.                                                                   *)
LEMMA OwnedStep ==
  ASSUME FramesOwned, Private \subseteq Private', HandOwned', NEW u, NEW frame,
         \A v \in TaskArea :
           \/ Pin(v)' = Pin(v)
           \/ /\ v = u /\ Pin(v)' = frame /\ frame \in Private'
              /\ \A w \in TaskArea : Pin(w) # frame
  PROVE  FramesOwned'
  <1>1. \A v \in TaskArea : Pin(v)' # INVALID_PAGE_IDX => Pin(v)' \in Private'
    BY DEF FramesOwned
  <1>2. ASSUME NEW v \in TaskArea, NEW w \in TaskArea,
               Pin(v)' # INVALID_PAGE_IDX, Pin(v)' = Pin(w)'
        PROVE  v = w
    <2>1. CASE Pin(v)' = Pin(v) /\ Pin(w)' = Pin(w)
      BY <1>2, <2>1 DEF FramesOwned
    <2>2. CASE Pin(v)' # Pin(v) \/ Pin(w)' # Pin(w)
      BY <1>2, <2>2
    <2> QED BY <2>1, <2>2
  <1>3. TaskArea' = TaskArea
    BY DEF TaskArea, TaskPages, LowAddress, HighAddress, TaskAddress
  <1> QED BY <1>1, <1>2, <1>3 DEF FramesOwned

(* A task that is mapped stays mapped. *)
LEMMA TasksStay ==
  ASSUME RestTyped, Kept
  PROVE  /\ \A id \in 0 .. StackWords - 1 : StackMapped(id) => StackMapped(id)'
         /\ \A id \in 0 .. StackWords - 1 : \A f \in Frames :
              Pin(TaskAddress(id)) = f => Pin(TaskAddress(id))' = f
         /\ TasksMapped /\ tasks' = tasks => TasksMapped'
  <1>1. ASSUME NEW id \in 0 .. StackWords - 1, StackMapped(id)
        PROVE  StackMapped(id)'
    <2>1. \A v \in LowAddress(id) .. HighAddress(id) - 1 : v \in 0 .. VirtPages - 1
      BY TaskPagesIn DEF TaskPages
    <2> QED BY <1>1, <2>1 DEF StackMapped, Kept
  <1>2. ASSUME NEW id \in 0 .. StackWords - 1, NEW f \in Frames, Pin(TaskAddress(id)) = f
        PROVE  Pin(TaskAddress(id))' = f
    <2>1. TaskAddress(id) \in 0 .. VirtPages - 1
      BY TaskPagesIn DEF TaskPages
    <2>2. f # INVALID_PAGE_IDX
      BY TableAssumption DEF INVALID_PAGE_IDX
    <2> QED BY <1>2, <2>1, <2>2 DEF Kept
  <1>3. ASSUME TasksMapped, tasks' = tasks
        PROVE  TasksMapped'
    <2> SUFFICES ASSUME NEW i \in DOMAIN tasks
                 PROVE  /\ tasks[i].id < StackWords
                        /\ StackMapped(tasks[i].id)'
                        /\ Pin(TaskAddress(tasks[i].id))' = tasks[i].ts
      BY <1>3 DEF TasksMapped
    <2> DEFINE T == [id : Nat, ts : Frames]
    <2>1. tasks \in Seq(T)
      BY DEF RestTyped
    <2>2. \A t \in T : t.id \in Nat /\ t.ts \in Frames
      OBVIOUS
    <2> HIDE DEF T
    <2>3. tasks[i].id \in Nat /\ tasks[i].ts \in Frames
      BY <2>1, <2>2
    <2>4. tasks[i].id < StackWords /\ StackWords \in Nat
      BY <1>3, LayoutAssumption DEF TasksMapped
    <2> PICK id \in 0 .. StackWords - 1, f \in Frames : id = tasks[i].id /\ f = tasks[i].ts
      BY <2>3, <2>4
    <2>5. StackMapped(id) /\ Pin(TaskAddress(id)) = f
      BY <1>3 DEF TasksMapped
    <2>6. StackMapped(id)' /\ Pin(TaskAddress(id))' = f
      BY <1>1, <1>2, <2>5
    <2> QED BY <1>3, <2>4, <2>6
  <1> QED BY <1>1, <1>2, <1>3

(* The frames of users are a function of the memory and the pool.          *)
LEMMA PrivateIs ==
  /\ Private = Owned(mem, ToSet(pool))
  /\ Private' = Owned(mem', ToSet(pool'))
  BY DEF Private, Owned, ToSet, Upper, L1, L2, L3, Rows

(* A step that writes to no table leaves frames with their users.          *)
LEMMA PrivateKept ==
  ASSUME TablesInv, mem' = mem, ToSet(pool') \subseteq ToSet(pool)
  PROVE  /\ Private \subseteq Private'
         /\ \A v : Pin(v)' = Pin(v)
         /\ \A f \in ToSet(pool) \ ToSet(pool') : f \in Private'
         /\ Private \cap ToSet(pool) = {}
  BY OwnedKept, PrivateIs, PinIs DEF Owned

(* No page of the tasks gets another frame. *)
LEMMA OwnStays ==
  ASSUME RestTyped, Kept, OwnParts, Private \subseteq Private', tasks' = tasks,
         \A v \in TaskArea : Pin(v)' = Pin(v), HandOwned', FramesSuffice', JobMapped'
  PROVE  OwnParts'
  <1>1. FramesOwned'
    BY OwnedStep DEF OwnParts
  <1>2. TasksMapped'
    BY TasksStay DEF OwnParts
  <1> QED BY <1>1, <1>2 DEF OwnParts

(* Who creates no task has no frame in hand. *)
LEMMA NoJobHand ==
  ASSUME job' = NoJob
  PROVE  HandOwned' /\ FramesSuffice' /\ JobMapped'
  <1>1. job'.at = "" /\ job'.kind = "none"
    BY DEF NoJob
  <1>2. ~TsInHand' /\ Left' = <<>>
    BY <1>1 DEF TsInHand, Left
  <1>3. ToSet(<<>>) = {} /\ IsInjective(<<>>)
    BY DEF ToSet, IsInjective
  <1>4. Hand' = {}
    <2>1. Hand' = (IF TsInHand' THEN {job'.ts} ELSE {}) \cup ToSet(Left')
      BY DEF Hand, ToSet
    <2> QED BY <1>2, <1>3, <2>1
  <1>5. HandOwned'
    <2>1. IsInjective(Left')
      BY <1>2, <1>3
    <2> QED BY <1>2, <1>4, <2>1 DEF HandOwned, IsInjective
  <1>6. FramesSuffice' /\ JobMapped'
    BY <1>1 DEF FramesSuffice, JobMapped, Idle
  <1> QED BY <1>5, <1>6

(* A step that writes to no table and ends, or does not begin, a creation. *)
LEMMA NoJobOwn ==
  ASSUME RestTyped, TablesInv, Kept, OwnParts, mem' = mem,
         ToSet(pool') \subseteq ToSet(pool), job' = NoJob, TasksMapped'
  PROVE  OwnParts'
  <1>1. Private \subseteq Private' /\ \A v : Pin(v)' = Pin(v)
    BY PrivateKept
  <1>2. HandOwned' /\ FramesSuffice' /\ JobMapped'
    BY NoJobHand
  <1>3. FramesOwned'
    BY <1>1, <1>2, OwnedStep DEF OwnParts
  <1> QED BY <1>2, <1>3 DEF OwnParts

(* A task under creation keeps in hand what it had, or takes what was in   *)
(* the pool.                                                               *)
LEMMA HandTaken ==
  ASSUME FramesOwned, Private \subseteq Private', Private \cap ToSet(pool) = {},
         \A f \in ToSet(pool) \ ToSet(pool') : f \in Private',
         \A v \in TaskArea : Pin(v)' = Pin(v),
         \A f \in ToSet(Left') : f \in Hand \cup (ToSet(pool) \ ToSet(pool')),
         IsInjective(Left'),
         TsInHand' => /\ job'.ts \in Hand \cup (ToSet(pool) \ ToSet(pool'))
                      /\ job'.ts \notin ToSet(Left')
  PROVE  HandOwned'
  <1>1. Hand' = (IF TsInHand' THEN {job'.ts} ELSE {}) \cup ToSet(Left')
    BY DEF Hand, ToSet
  <1>2. \A f \in Hand' : f \in Hand \cup (ToSet(pool) \ ToSet(pool'))
    BY <1>1
  <1>3. Hand' \subseteq Private'
    BY <1>2 DEF FramesOwned, HandOwned
  <1>4. \A v \in TaskArea : Pin(v)' # INVALID_PAGE_IDX => Pin(v)' \notin Hand'
    BY <1>2 DEF FramesOwned, HandOwned
  <1>5. TaskArea' = TaskArea
    BY DEF TaskArea, TaskPages, LowAddress, HighAddress, TaskAddress
  <1>6. TsInHand' => job'.ts \notin ToSet(Left)'
    <2>1. ToSet(Left)' = ToSet(Left')
      BY DEF ToSet
    <2> QED BY <2>1
  <1>7. IsInjective(Left)'
    BY DEF IsInjective
  <1> QED BY <1>3, <1>4, <1>5, <1>6, <1>7 DEF HandOwned

(* The creation of a task begins. *)
LEMMA StartOwn ==
  ASSUME RestTyped, TablesInv, Kept, OwnParts, mem' = mem, pool' = pool, tasks' = tasks,
         NEW k \in {"idle", "thread"}, job' = [NoJob EXCEPT !.kind = k, !.at = "alloc"]
  PROVE  OwnParts'
  <1>1. Private \subseteq Private' /\ \A v : Pin(v)' = Pin(v)
    BY PrivateKept
  <1>2. job'.at = "alloc" /\ job'.pages = <<>>
    BY DEF NoJob
  <1>3. ~TsInHand' /\ Left' = <<>>
    BY <1>2 DEF TsInHand, Left
  <1>4. ToSet(<<>>) = {} /\ IsInjective(<<>>)
    BY DEF ToSet, IsInjective
  <1>5. HandOwned'
    <2>1. Private \cap ToSet(pool) = {} /\ FramesOwned
      BY PrivateKept DEF OwnParts
    <2> QED BY <1>1, <1>3, <1>4, <2>1, HandTaken
  <1>6. FramesSuffice' /\ JobMapped'
    BY <1>2 DEF FramesSuffice, JobMapped
  <1> QED BY <1>1, <1>5, <1>6, OwnStays

(* It takes a frame for the task structure. *)
LEMMA AllocTaskStructOwn ==
  ASSUME IInv, PathInv, Kept, OwnParts, AllocTaskStruct, pool # <<>>,
         job' = [job EXCEPT !.ts = Head(pool), !.at = "stack"],
         mem' = [mem EXCEPT ![Head(pool)] = Cleared], pool' = Tail(pool)
  PROVE  OwnParts'
  <1>1. TablesInv /\ RestTyped /\ job \in Job
    BY DEF IInv, StackInv, RestTyped
  <1>2. /\ Head(pool) \in ToSet(pool) /\ ToSet(Tail(pool)) \subseteq ToSet(pool) \ {Head(pool)}
        /\ mem \in [Frames -> [Slots -> Int]]
    BY <1>1, TailFacts DEF TablesInv, PageTableTypeOK, PoolFresh
  <1>3. \A t \in Frames \ ToSet(pool) : mem'[t] = mem[t]
    BY <1>2
  <1>4. Upper(mem) \subseteq Frames \ ToSet(pool)
    <2>1. Tree(mem, ToSet(pool))
      BY <1>1, TreeIs DEF TablesInv
    <2> QED BY <1>1, <2>1, TableAssumption DEF Tree, Upper, TablesInv, PoolFresh
  <1>5. /\ Private \subseteq Private'
        /\ \A f \in ToSet(pool) \ ToSet(pool') : f \in Private'
        /\ Private \cap ToSet(pool) = {}
    <2>1. \A t \in Upper(mem) : mem'[t] = mem[t]
      BY <1>3, <1>4
    <2>2. ToSet(pool') \subseteq ToSet(pool)
      BY <1>2
    <2> QED BY <1>1, <2>1, <2>2, OwnedKept, PrivateIs DEF Owned
  <1>6. \A v \in TaskArea : Pin(v)' = Pin(v)
    <2>1. UNCHANGED callVars
      BY DEF AllocTaskStruct
    <2>2. \A v \in Nat : Translate(mem', v) = Translate(mem, v)
      BY <1>1, <1>3, <2>1, TakeFramesPath
    <2>3. \A v \in TaskArea : v \in Nat
      BY TaskPagesIn DEF TaskArea
    <2> SUFFICES ASSUME NEW v \in TaskArea PROVE Pin(v)' = Pin(v)
      OBVIOUS
    <2> QED BY <2>2, <2>3, PinIs
  <1>7. job'.at = "stack" /\ job'.ts = Head(pool) /\ job'.pages = job.pages
    BY <1>1 DEF Job
  <1>8. Left' = <<>>
    BY <1>7 DEF Left
  <1>9. ToSet(<<>>) = {} /\ IsInjective(<<>>)
    BY DEF ToSet, IsInjective
  <1>10. HandOwned'
    <2>1. FramesOwned
      BY DEF OwnParts
    <2>2. Head(pool) \in ToSet(pool) \ ToSet(pool')
      BY <1>2
    <2>3. /\ \A f \in ToSet(Left') : f \in Hand \cup (ToSet(pool) \ ToSet(pool'))
          /\ IsInjective(Left') /\ job'.ts \notin ToSet(Left')
      BY <1>8, <1>9
    <2> QED BY <1>5, <1>6, <1>7, <2>1, <2>2, <2>3, HandTaken
  <1>11. job.pages = <<>> /\ tasks' = tasks
    BY DEF AllocTaskStruct, JobAt, OwnParts, FramesSuffice
  <1>12. FramesSuffice' /\ JobMapped'
    BY <1>7, <1>11 DEF FramesSuffice, JobMapped
  <1> QED BY <1>1, <1>5, <1>6, <1>10, <1>11, <1>12, OwnStays

(* It takes a stack. *)
LEMMA AllocateStackOwn ==
  ASSUME IInv, Kept, OwnParts, AllocateStack, NEW id,
         job' = [job EXCEPT !.id = id, !.at = IF Idle THEN "map_stack" ELSE "pages"]
  PROVE  OwnParts'
  <1>1. TablesInv /\ RestTyped /\ job \in Job
    BY DEF IInv, StackInv, RestTyped
  <1>2. mem' = mem /\ pool' = pool /\ tasks' = tasks /\ job.at = "stack"
    BY DEF AllocateStack, tableVars, JobAt
  <1>3. Private \subseteq Private' /\ \A v : Pin(v)' = Pin(v)
    BY <1>1, <1>2, PrivateKept
  <1>4. /\ job'.at = (IF Idle THEN "map_stack" ELSE "pages")
        /\ job'.ts = job.ts /\ job'.pages = job.pages /\ job'.kind = job.kind
    BY <1>1 DEF Job
  <1>5. job.pages = <<>>
    BY <1>2 DEF OwnParts, FramesSuffice
  <1>6. Left' = <<>> /\ Idle' = Idle
    BY <1>4, <1>5 DEF Left, Idle
  <1>7. ToSet(<<>>) = {} /\ IsInjective(<<>>)
    BY DEF ToSet, IsInjective
  <1>8. HandOwned'
    <2>1. job.ts \in Hand
      BY <1>2 DEF Hand, TsInHand
    <2>2. Private \cap ToSet(pool) = {} /\ FramesOwned
      BY <1>1, <1>2, PrivateKept DEF OwnParts
    <2>3. /\ \A f \in ToSet(Left') : f \in Hand \cup (ToSet(pool) \ ToSet(pool'))
          /\ IsInjective(Left') /\ job'.ts \notin ToSet(Left')
          /\ \A f \in ToSet(pool) \ ToSet(pool') : f \in Private'
      BY <1>2, <1>6, <1>7
    <2> QED BY <1>3, <1>4, <2>1, <2>2, <2>3, HandTaken
  <1>9. FramesSuffice' /\ JobMapped'
    BY <1>4, <1>5, <1>6 DEF FramesSuffice, JobMapped
  <1> QED BY <1>1, <1>2, <1>3, <1>8, <1>9, OwnStays

(* The first frames of a pool are others than the rest, each once.         *)
LEMMA FirstOfPool ==
  ASSUME NEW S, NEW s \in Seq(S), IsInjective(s), NEW n \in Nat, n <= Len(s)
  PROVE  /\ Len(SubSeq(s, 1, n)) = n /\ IsInjective(SubSeq(s, 1, n))
         /\ \A f \in ToSet(SubSeq(s, 1, n)) :
              f \in ToSet(s) \ ToSet(SubSeq(s, n + 1, Len(s)))
  <1> DEFINE h == SubSeq(s, 1, n)
             t == SubSeq(s, n + 1, Len(s))
  <1>1. Len(s) \in Nat /\ DOMAIN s = 1 .. Len(s)
    OBVIOUS
  <1>2. Len(h) = n /\ DOMAIN h = 1 .. n /\ \A i \in 1 .. n : h[i] = s[i]
    BY <1>1
  <1>3. DOMAIN t = 1 .. Len(s) - n /\ \A i \in 1 .. Len(s) - n : t[i] = s[n + i]
    BY <1>1
  <1> HIDE DEF h, t
  <1>4. IsInjective(h)
    BY <1>1, <1>2 DEF IsInjective
  <1>5. ASSUME NEW i \in 1 .. n PROVE s[i] \in ToSet(s) \ ToSet(t)
    <2>1. i \in DOMAIN s
      BY <1>1
    <2>2. ASSUME NEW j \in 1 .. Len(s) - n PROVE t[j] # s[i]
      <3>1. n + j \in DOMAIN s /\ n + j # i /\ t[j] = s[n + j]
        BY <1>1, <1>3
      <3> QED BY <2>1, <3>1 DEF IsInjective
    <2> QED BY <1>3, <2>1, <2>2 DEF ToSet
  <1>6. \A f \in ToSet(h) : f \in ToSet(s) \ ToSet(t)
    BY <1>2, <1>5 DEF ToSet
  <1> QED BY <1>2, <1>4, <1>6 DEF h, t

(* A thread takes the frames of its stack. *)
LEMMA AllocStackPagesOwn ==
  ASSUME IInv, Kept, OwnParts, AllocStackPages, Len(pool) >= StackPages,
         job' = [job EXCEPT !.pages = SubSeq(pool, 1, StackPages), !.at = "map_stack"],
         pool' = SubSeq(pool, StackPages + 1, Len(pool))
  PROVE  OwnParts'
  <1>1. /\ TablesInv /\ RestTyped /\ job \in Job
        /\ pool \in Seq(Frames) /\ IsInjective(pool) /\ StackPages \in Nat
    BY LayoutAssumption DEF IInv, StackInv, RestTyped, TablesInv, PageTableTypeOK, PoolFresh
  <1>2. mem' = mem /\ tasks' = tasks /\ job.at = "pages" /\ job.kind # "none"
    BY DEF AllocStackPages, JobAt
  <1>3. /\ Len(SubSeq(pool, 1, StackPages)) = StackPages
        /\ IsInjective(SubSeq(pool, 1, StackPages))
        /\ \A f \in ToSet(SubSeq(pool, 1, StackPages)) : f \in ToSet(pool) \ ToSet(pool')
        /\ ToSet(pool') \subseteq ToSet(pool)
    BY <1>1, FirstOfPool, RestOfPool
  <1>4. /\ Private \subseteq Private' /\ \A v : Pin(v)' = Pin(v)
        /\ \A f \in ToSet(pool) \ ToSet(pool') : f \in Private'
        /\ Private \cap ToSet(pool) = {}
    BY <1>1, <1>2, <1>3, PrivateKept
  <1> PICK ps : ps = SubSeq(pool, 1, StackPages)
    OBVIOUS
  <1>5. /\ job'.at = "map_stack" /\ job'.pages = ps
        /\ job'.ts = job.ts /\ job'.kind = job.kind
    BY <1>1 DEF Job
  <1>6. job.kind # "idle"
    BY <1>2 DEF OwnParts, FramesSuffice, Idle
  <1>7. Left' = ps /\ ~Idle'
    BY <1>5, <1>6 DEF Left, Idle
  <1>8. ToSet(<<>>) = {} /\ IsInjective(<<>>)
    BY DEF ToSet, IsInjective
  <1>9. HandOwned'
    <2>1. job.ts \in Hand /\ Hand \subseteq Private /\ FramesOwned
      BY <1>2 DEF Hand, TsInHand, OwnParts, FramesOwned, HandOwned
    <2>2. /\ \A f \in ToSet(Left') : f \in Hand \cup (ToSet(pool) \ ToSet(pool'))
          /\ IsInjective(Left') /\ job'.ts \notin ToSet(Left')
      BY <1>3, <1>4, <1>5, <1>7, <2>1
    <2> QED BY <1>4, <1>5, <2>1, <2>2, HandTaken
  <1>10. FramesSuffice' /\ JobMapped'
    BY <1>3, <1>5, <1>7 DEF FramesSuffice, JobMapped
  <1> QED BY <1>1, <1>2, <1>4, <1>9, <1>10, OwnStays

(* It asks for the mapping of its stack. *)
LEMMA MapStackOwn ==
  ASSUME IInv, PathInv, Kept, OwnParts, RamFits, MapStack
  PROVE  OwnParts'
  <1>1. /\ TablesInv /\ RestTyped /\ job \in Job /\ job.at = "map_stack"
        /\ tasks' = tasks /\ job' = [job EXCEPT !.at = "stack_mapped"]
        /\ job.kind # "none"
    BY DEF IInv, StackInv, RestTyped, MapStack, JobAt
  <1> PICK id \in 0 .. StackWords - 1 : id = job.id
    <2>1. job.id \in Nat /\ job.id < StackWords /\ StackWords \in Nat
      BY <1>1, LayoutAssumption DEF IInv, StackInv, StackFits, Job, HasStack
    <2> QED BY <2>1
  <1>2. /\ StackPages \in Nat /\ LowAddress(id) \in 0 .. VirtPages - 1
        /\ LowAddress(id) \in Nat /\ Fits(LowAddress(id), StackPages)
    <2>1. id \in Nat /\ id < StackWords
      BY LayoutAssumption
    <2> QED BY <1>1, <2>1, Regions, StackAddresses, NumbersTyped, TaskPagesIn
  <1> PICK a \in Accessor :
         a = IF Idle THEN [Linear(0) EXCEPT !.kind = "idle"] ELSE List(job.pages)
    BY <1>1, TaskAccessors
  <1>3. Ask(LowAddress(id), StackPages, a)
    BY DEF MapStack
  <1>4. /\ walk = <<>> /\ mem' = mem /\ pool' = pool /\ pacc' = a
        /\ \/ walk' = <<>> /\ ret' = "EINVAL"
           \/ /\ walk' # <<>> /\ ret' = "running" /\ Top'.virt = LowAddress(id)
              /\ req'.virt = LowAddress(id) /\ req'.num = StackPages
    BY <1>1, <1>2, <1>3, AskPath
  <1>5. Private \subseteq Private' /\ \A v : Pin(v)' = Pin(v)
    BY <1>1, <1>4, PrivateKept
  <1>6. /\ job'.at = "stack_mapped" /\ job'.id = id /\ job'.pages = job.pages
        /\ job'.ts = job.ts /\ job'.kind = job.kind
    BY <1>1 DEF Job
  <1>7. /\ Idle' = Idle
        /\ Idle => job.pages = <<>>
        /\ ~Idle => Len(job.pages) = StackPages
    BY <1>1, <1>6 DEF Idle, OwnParts, FramesSuffice
  <1>8. /\ Idle => a.kind = "idle" /\ a.left = <<>>
        /\ ~Idle => a.kind = "list" /\ a.left = job.pages
    BY DEF Linear, List
  <1>9. Left' = <<>> \/ Left' = job.pages
    BY <1>4, <1>6, <1>7, <1>8 DEF Left
  <1>10. /\ IsInjective(job.pages) /\ job.ts \notin ToSet(job.pages)
         /\ job.ts \in Hand /\ ToSet(job.pages) \subseteq Hand
    BY <1>1 DEF OwnParts, FramesOwned, HandOwned, Hand, TsInHand, Left
  <1>11. ToSet(<<>>) = {} /\ IsInjective(<<>>)
    BY DEF ToSet, IsInjective
  <1>12. HandOwned'
    <2>1. Private \cap ToSet(pool) = {} /\ FramesOwned
      BY <1>1, <1>4, PrivateKept DEF OwnParts
    <2>2. /\ \A f \in ToSet(Left') : f \in Hand \cup (ToSet(pool) \ ToSet(pool'))
          /\ IsInjective(Left') /\ job'.ts \notin ToSet(Left')
      BY <1>6, <1>9, <1>10, <1>11
    <2>3. \A f \in ToSet(pool) \ ToSet(pool') : f \in Private'
      BY <1>4
    <2> QED BY <1>5, <1>6, <1>10, <2>1, <2>2, <2>3, HandTaken
  <1>13. FramesSuffice'
    <2>1. walk' # <<>> => req'.virt + req'.num - Top'.virt = StackPages
      BY <1>2, <1>4
    <2> QED BY <1>4, <1>6, <1>7, <1>8, <2>1 DEF FramesSuffice
  <1>14. JobMapped'
    <2>1. walk' # <<>> => req'.virt .. Top'.virt - 1 = {}
      BY <1>2, <1>4
    <2> QED BY <1>4, <1>6, <2>1 DEF JobMapped
  <1> QED BY <1>1, <1>5, <1>12, <1>13, <1>14, OwnStays

(* It asks for the mapping of its structure, its stack being mapped.       *)
LEMMA MapTaskStructOwn ==
  ASSUME IInv, PathInv, Kept, OwnParts, RamFits, MapTaskStruct, ret = "OK",
         Ask(TaskAddress(job.id), 1,
             IF Idle THEN [Linear(0) EXCEPT !.kind = "idle"] ELSE Linear(job.ts)),
         job' = [job EXCEPT !.at = "task_mapped"]
  PROVE  OwnParts'
  <1>1. /\ TablesInv /\ RestTyped /\ job \in Job /\ job.at = "stack_mapped"
        /\ tasks' = tasks /\ job.kind # "none"
    BY DEF IInv, StackInv, RestTyped, MapTaskStruct, JobAt
  <1> PICK id \in 0 .. StackWords - 1 : id = job.id
    <2>1. job.id \in Nat /\ job.id < StackWords /\ StackWords \in Nat
      BY <1>1, LayoutAssumption DEF IInv, StackInv, StackFits, Job, HasStack
    <2> QED BY <2>1
  <1>2. /\ TaskAddress(id) \in 0 .. VirtPages - 1
        /\ TaskAddress(id) \in Nat /\ Fits(TaskAddress(id), 1)
    <2>1. id \in Nat /\ id < StackWords
      BY LayoutAssumption
    <2> QED BY <1>1, <2>1, Regions, StackAddresses, Blocks
  <1> PICK a \in Accessor :
         a = IF Idle THEN [Linear(0) EXCEPT !.kind = "idle"] ELSE Linear(job.ts)
    BY <1>1, TaskAccessors
  <1>3. Ask(TaskAddress(id), 1, a)
    OBVIOUS
  <1>4. /\ walk = <<>> /\ mem' = mem /\ pool' = pool /\ pacc' = a
        /\ \/ walk' = <<>> /\ ret' = "EINVAL"
           \/ /\ walk' # <<>> /\ ret' = "running" /\ Top'.virt = TaskAddress(id)
              /\ req'.virt = TaskAddress(id) /\ req'.num = 1
    BY <1>1, <1>2, <1>3, AskPath
  <1>5. Private \subseteq Private' /\ \A v : Pin(v)' = Pin(v)
    BY <1>1, <1>4, PrivateKept
  <1>6. /\ job'.at = "task_mapped" /\ job'.id = id /\ job'.pages = job.pages
        /\ job'.ts = job.ts /\ job'.kind = job.kind
    BY <1>1 DEF Job
  <1>7. /\ Idle' = Idle
        /\ Idle => job.pages = <<>>
    BY <1>1, <1>6 DEF Idle, OwnParts, FramesSuffice
  <1>8. /\ Idle => a.kind = "idle"
        /\ ~Idle => a.kind = "linear" /\ a.next = job.ts
    BY DEF Linear
  <1>9. Left' = <<>>
    BY <1>6 DEF Left
  <1>10. ToSet(<<>>) = {} /\ IsInjective(<<>>)
    BY DEF ToSet, IsInjective
  <1>11. HandOwned'
    <2>1. Private \cap ToSet(pool) = {} /\ FramesOwned
      BY <1>1, <1>4, PrivateKept DEF OwnParts
    <2>2. /\ \A f \in ToSet(Left') : f \in Hand \cup (ToSet(pool) \ ToSet(pool'))
          /\ IsInjective(Left') /\ job'.ts \notin ToSet(Left') /\ job.ts \in Hand
      BY <1>1, <1>9, <1>10 DEF Hand, TsInHand
    <2>3. \A f \in ToSet(pool) \ ToSet(pool') : f \in Private'
      BY <1>4
    <2> QED BY <1>5, <1>6, <2>1, <2>2, <2>3, HandTaken
  <1>12. FramesSuffice'
    BY <1>4, <1>6, <1>7, <1>8 DEF FramesSuffice
  <1>13. JobMapped'
    <2>1. walk' # <<>> => req'.virt .. Top'.virt - 1 = {}
      BY <1>2, <1>4
    <2>2. StackMapped(job.id)'
      <3>1. StackMapped(id)
        BY <1>1 DEF OwnParts, JobMapped
      <3> QED BY <1>1, <1>6, <3>1, TasksStay
    <2>3. ret' # "OK"
      BY <1>4
    <2> QED BY <1>6, <2>1, <2>2, <2>3 DEF JobMapped
  <1> QED BY <1>1, <1>5, <1>11, <1>12, <1>13, OwnStays

(* The task is there. *)
LEMMA TaskMappedOwn ==
  ASSUME IInv, Kept, OwnParts, TaskMapped
  PROVE  OwnParts'
  <1>1. /\ TablesInv /\ RestTyped /\ job \in Job /\ job.at = "task_mapped"
        /\ mem' = mem /\ pool' = pool
    BY DEF IInv, StackInv, RestTyped, TaskMapped, JobAt, tableVars
  <1> PICK id \in 0 .. StackWords - 1 : id = job.id
    <2>1. job.id \in Nat /\ job.id < StackWords /\ StackWords \in Nat
      BY <1>1, LayoutAssumption DEF IInv, StackInv, StackFits, Job, HasStack
    <2> QED BY <2>1
  <1>2. CASE MapFailed /\ UNCHANGED tasks
    <2>1. job' = NoJob
      BY <1>2 DEF MapFailed, GiveUp
    <2>2. TasksMapped'
      BY <1>1, <1>2, TasksStay DEF OwnParts
    <2> QED BY <1>1, <2>1, <2>2, NoJobOwn
  <1>3. CASE /\ ret = "OK" /\ job' = NoJob
             /\ tasks' = Append(tasks, [id |-> job.id, ts |-> job.ts])
    <2> DEFINE T == [id : Nat, ts : Frames]
    <2>1. tasks \in Seq(T)
      BY <1>1 DEF RestTyped
    <2> PICK t : t = [id |-> job.id, ts |-> job.ts]
      OBVIOUS
    <2>2. t.id = id /\ t.ts = job.ts
      OBVIOUS
    <2> HIDE DEF T
    <2>3. /\ DOMAIN tasks' = 1 .. Len(tasks) + 1 /\ DOMAIN tasks = 1 .. Len(tasks)
          /\ Len(tasks) \in Nat
          /\ \A i \in 1 .. Len(tasks) : tasks'[i] = tasks[i]
          /\ tasks'[Len(tasks) + 1] = t
      BY <1>3, <2>1
    <2>4. \A v : Pin(v)' = Pin(v)
      BY <1>1, PinIs
    <2>5. \A x : StackMapped(x) => StackMapped(x)'
      BY <2>4 DEF StackMapped, LowAddress, HighAddress
    <2>6. \A x : Pin(TaskAddress(x))' = Pin(TaskAddress(x))
      BY <2>4 DEF TaskAddress, LowAddress, HighAddress
    <2>7. /\ id < StackWords /\ StackMapped(id) /\ Pin(TaskAddress(id)) = job.ts
      BY <1>1, <1>3, LayoutAssumption DEF OwnParts, JobMapped
    <2>8. ASSUME NEW i \in DOMAIN tasks', NEW x, NEW y, x = tasks'[i].id, y = tasks'[i].ts
          PROVE  x < StackWords /\ StackMapped(x)' /\ Pin(TaskAddress(x))' = y
      <3>1. CASE i \in DOMAIN tasks
        <4>1. x = tasks[i].id /\ y = tasks[i].ts
          BY <2>3, <2>8, <3>1
        <4>2. x < StackWords /\ StackMapped(x) /\ Pin(TaskAddress(x)) = y
          BY <3>1, <4>1 DEF OwnParts, TasksMapped
        <4> QED BY <2>5, <2>6, <4>2
      <3>2. CASE i \notin DOMAIN tasks
        <4>1. tasks'[i] = t
          BY <2>3, <2>8, <3>2
        <4>2. x = id /\ y = job.ts
          BY <2>2, <2>8, <4>1
        <4> QED BY <2>5, <2>6, <2>7, <4>2
      <3> QED BY <3>1, <3>2
    <2>9. TasksMapped'
      <3> SUFFICES ASSUME NEW i \in DOMAIN tasks'
                   PROVE  /\ tasks'[i].id < StackWords
                          /\ StackMapped(tasks[i].id)'
                          /\ Pin(TaskAddress(tasks[i].id))' = tasks'[i].ts
        BY DEF TasksMapped
      <3> PICK x, y : x = tasks'[i].id /\ y = tasks'[i].ts
        OBVIOUS
      <3>1. x < StackWords /\ StackMapped(x)' /\ Pin(TaskAddress(x))' = y
        BY <2>8
      <3> QED BY <3>1
    <2> QED BY <1>1, <1>3, <2>9, NoJobOwn
  <1> QED BY <1>2, <1>3 DEF TaskMapped

(* What the walk is asked for: the stack or the structure of the task      *)
(* under creation, or, before there is one, pages of no task.              *)
LEMMA JobAsked ==
  ASSUME IInv, RamFits, Parts, walk # <<>>
  PROVE  /\ job.at = "stack_mapped" => Asked(LowAddress(job.id), StackPages)
         /\ job.at = "task_mapped" => Asked(TaskAddress(job.id), 1)
         /\ job.at \notin {"stack_mapped", "task_mapped"} =>
              /\ job = NoJob
              /\ \A v \in Nat : req.virt <= v /\ v < req.virt + req.num => v \notin TaskArea
         /\ job.at \in HasStack => job.id \in 0 .. StackWords - 1
  <1>1. RestTyped /\ StackInv /\ JobMain /\ AskedFor /\ NoJob.at = ""
    BY DEF IInv, StackInv, Parts, NoJob
  <1>2. \/ JobAt("stack_mapped") /\ Asked(LowAddress(job.id), StackPages)
        \/ JobAt("task_mapped") /\ Asked(TaskAddress(job.id), 1)
        \/ /\ job = NoJob
           /\ \/ Asked(1, DmaTotal - 1) \/ Asked(KernelBase, ram) \/ Asked(ApicPage, 1)
    BY <1>1 DEF AskedFor, JobMain
  <1>3. ASSUME Asked(1, DmaTotal - 1) \/ Asked(KernelBase, ram) \/ Asked(ApicPage, 1),
               NEW v \in Nat, req.virt <= v, v < req.virt + req.num
        PROVE  v \notin TaskArea
    <2> PICK d \in Nat, k \in Nat, r \in Nat, x \in Nat :
           d = DmaTotal - 1 /\ k = KernelBase /\ r = ram /\ x = ApicPage
      BY <1>1, NumbersTyped
    <2>1. v \in 1 .. d \/ v \in k .. k + r - 1 \/ v = x
      BY <1>3 DEF Asked
    <2> QED BY <1>1, <2>1, AreaApart
  <1>4. job.at \in HasStack => job.id \in 0 .. StackWords - 1
    <2>1. job.id \in Nat /\ StackWords \in Nat
      BY <1>1, LayoutAssumption DEF RestTyped, Job
    <2>2. job.at \in HasStack => job.id < StackWords
      BY <1>1 DEF StackInv, StackFits
    <2> QED BY <2>1, <2>2
  <1> QED BY <1>1, <1>2, <1>3, <1>4 DEF JobAt

(* The walk for the stack of a task maps a page of it.                     *)
LEMMA StackPageOwn ==
  ASSUME IInv, RamFits, Parts, OwnParts, Kept, UNCHANGED <<job, tasks, req, ret>>,
         walk # <<>>, walk' # <<>>, job.at = "stack_mapped", Top'.virt = Top.virt + 1,
         Top.virt \in 0 .. VirtPages - 1,
         req.virt <= Top.virt, Top.virt < req.virt + req.num, NEW frame \in Frames,
         \A v \in 0 .. VirtPages - 1 :
           Translate(mem', v) = IF v = Top.virt THEN frame ELSE Translate(mem, v),
         Private \subseteq Private', frame \in Private', frame # job.ts,
         \A v \in TaskArea : Pin(v) # frame,
         ToSet(Left') \subseteq ToSet(Left) \ {frame}, IsInjective(Left'), FramesSuffice'
  PROVE  OwnParts'
  <1>1. RestTyped /\ TablesInv /\ PathInv
    BY DEF IInv, StackInv, Parts
  <1>2. job.id \in 0 .. StackWords - 1 /\ req.virt = LowAddress(job.id)
    BY JobAsked DEF Asked, HasStack
  <1> PICK id \in 0 .. StackWords - 1 : id = job.id
    BY <1>2
  <1> PICK u \in Nat, b \in Nat : u = Top.virt /\ b = req.virt /\ b <= u
    <2>1. Top.virt \in Nat /\ req.virt \in Nat
      BY <1>1, TopOnPath
    <2> QED BY <2>1
  <1>3. \A v \in 0 .. VirtPages - 1 : Pin(v)' = IF v = u THEN frame ELSE Pin(v)
    BY PinIs
  <1>4. \A v \in TaskArea : v \in 0 .. VirtPages - 1
    BY <1>1, AreaApart
  <1>5. frame # INVALID_PAGE_IDX
    BY TableAssumption DEF INVALID_PAGE_IDX
  <1>6. TsInHand' <=> TsInHand
    BY DEF TsInHand
  <1>7. Hand' = (IF TsInHand' THEN {job'.ts} ELSE {}) \cup ToSet(Left')
    BY DEF Hand, ToSet
  <1>8. TsInHand /\ Hand = {job.ts} \cup ToSet(Left)
    BY DEF Hand, TsInHand
  <1>9. HandOwned /\ FramesOwned
    BY DEF OwnParts, FramesOwned
  <1>10. Hand' \subseteq Hand /\ frame \notin Hand'
    BY <1>6, <1>7, <1>8
  <1>11. TaskArea' = TaskArea
    BY DEF TaskArea, TaskPages, LowAddress, HighAddress, TaskAddress
  <1>12. HandOwned'
    <2>1. Hand' \subseteq Private'
      BY <1>9, <1>10 DEF HandOwned
    <2>2. \A v \in TaskArea : Pin(v)' # INVALID_PAGE_IDX => Pin(v)' \notin Hand'
      BY <1>3, <1>4, <1>9, <1>10 DEF HandOwned
    <2>3. (TsInHand => job.ts \notin ToSet(Left))'
      <3>1. job.ts \notin ToSet(Left) /\ ToSet(Left)' = ToSet(Left')
        BY <1>8, <1>9 DEF HandOwned, ToSet
      <3> QED BY <3>1
    <2>4. IsInjective(Left)'
      BY DEF IsInjective
    <2> QED BY <1>11, <2>1, <2>2, <2>3, <2>4 DEF HandOwned
  <1>13. FramesOwned'
    <2>1. \A v \in TaskArea : \/ Pin(v)' = Pin(v)
                              \/ /\ v = u /\ Pin(v)' = frame /\ frame \in Private'
                                 /\ \A w \in TaskArea : Pin(w) # frame
      BY <1>3, <1>4
    <2> QED BY <1>9, <1>12, <2>1, OwnedStep
  <1>14. JobMapped'
    <2>1. \A v \in b .. u - 1 : Pin(v) # INVALID_PAGE_IDX
      BY DEF OwnParts, JobMapped
    <2>2. u < VirtPages
      BY RangesPositive
    <2>3. \A v \in b .. u : Pin(v)' # INVALID_PAGE_IDX
      <3> SUFFICES ASSUME NEW v \in b .. u PROVE Pin(v)' # INVALID_PAGE_IDX
        OBVIOUS
      <3>1. v \in 0 .. VirtPages - 1
        BY <2>2, RangesPositive
      <3>2. v = u \/ v \in b .. u - 1
        OBVIOUS
      <3> QED BY <1>3, <1>5, <2>1, <3>1, <3>2
    <2>4. req'.virt .. Top'.virt - 1 = b .. u
      BY RangesPositive
    <2>5. ret' # "OK"
      BY DEF Parts, PathInv
    <2> QED BY <2>3, <2>4, <2>5 DEF JobMapped
  <1>15. TasksMapped'
    BY <1>1, TasksStay DEF OwnParts
  <1> QED BY <1>13, <1>14, <1>15 DEF OwnParts

(* The walk for the structure of a task maps it. *)
LEMMA TaskPageOwn ==
  ASSUME IInv, RamFits, Parts, OwnParts, Kept, UNCHANGED <<job, tasks, req, ret>>,
         walk # <<>>, walk' # <<>>, job.at = "task_mapped", Top'.virt = Top.virt + 1,
         Top.virt \in 0 .. VirtPages - 1,
         req.virt <= Top.virt, Top.virt < req.virt + req.num,
         \A v \in 0 .. VirtPages - 1 :
           Translate(mem', v) = IF v = Top.virt THEN job.ts ELSE Translate(mem, v),
         Private \subseteq Private', FramesSuffice'
  PROVE  OwnParts'
  <1>1. RestTyped /\ TablesInv /\ PathInv
    BY DEF IInv, StackInv, Parts
  <1>2. /\ job.id \in 0 .. StackWords - 1
        /\ req.virt = TaskAddress(job.id) /\ req.num = 1
    BY JobAsked DEF Asked, HasStack
  <1> PICK id \in 0 .. StackWords - 1 : id = job.id
    BY <1>2
  <1> PICK u \in Nat : u = Top.virt /\ u = req.virt /\ u = TaskAddress(id)
    <2>1. Top.virt \in Nat /\ req.virt \in Nat
      BY <1>1, TopOnPath
    <2> QED BY <1>2, <2>1
  <1> PICK frame \in Frames : frame = job.ts
    BY <1>1 DEF RestTyped, Job
  <1>3. \A v \in 0 .. VirtPages - 1 : Pin(v)' = IF v = u THEN frame ELSE Pin(v)
    BY PinIs
  <1>4. /\ \A v \in TaskArea : v \in 0 .. VirtPages - 1
        /\ u \in 0 .. VirtPages - 1
    BY <1>1, AreaApart
  <1>5. frame # INVALID_PAGE_IDX
    BY TableAssumption DEF INVALID_PAGE_IDX
  <1>6. Pin(u) = INVALID_PAGE_IDX
    <2>1. u \in Top.virt .. req.virt + req.num - 1
      BY <1>2
    <2> QED BY <2>1 DEF Parts, UnmappedAhead
  <1>7. frame \in Hand
    <2>1. Pin(TaskAddress(job.id)) = INVALID_PAGE_IDX
      BY <1>6
    <2> QED BY <2>1 DEF Hand, TsInHand
  <1>8. HandOwned /\ FramesOwned
    BY DEF OwnParts, FramesOwned
  <1>9. frame \in Private' /\ \A w \in TaskArea : Pin(w) # frame
    BY <1>5, <1>7, <1>8 DEF HandOwned
  <1>10. Pin(TaskAddress(id))' = frame
    <2>1. Pin(u)' = frame
      BY <1>3, <1>4
    <2> QED BY <2>1
  <1>11. ~TsInHand' /\ Left' = <<>>
    <2>1. Pin(TaskAddress(job.id))' = frame
      BY <1>10
    <2> QED BY <1>5, <2>1 DEF TsInHand, Left
  <1>12. HandOwned'
    <2>1. ToSet(<<>>) = {} /\ IsInjective(<<>>)
      BY DEF ToSet, IsInjective
    <2>2. Hand' = (IF TsInHand' THEN {job'.ts} ELSE {}) \cup ToSet(Left')
      BY DEF Hand, ToSet
    <2>3. IsInjective(Left') /\ Hand' = {}
      BY <1>11, <2>1, <2>2
    <2>4. IsInjective(Left)'
      BY <2>3 DEF IsInjective
    <2> QED BY <1>11, <2>3, <2>4 DEF HandOwned
  <1>13. FramesOwned'
    <2>1. \A v \in TaskArea : \/ Pin(v)' = Pin(v)
                              \/ /\ v = u /\ Pin(v)' = frame /\ frame \in Private'
                                 /\ \A w \in TaskArea : Pin(w) # frame
      BY <1>3, <1>4, <1>9
    <2> QED BY <1>8, <1>9, <1>12, <2>1, OwnedStep
  <1>14. JobMapped'
    <2>1. StackMapped(job.id)'
      <3>1. StackMapped(id)
        BY DEF OwnParts, JobMapped
      <3> QED BY <1>1, <3>1, TasksStay
    <2>2. req'.virt .. Top'.virt - 1 = u .. u
      OBVIOUS
    <2>3. \A v \in u .. u : v = u
      OBVIOUS
    <2>4. ret' # "OK"
      BY DEF Parts, PathInv
    <2>5. \A v \in req'.virt .. Top'.virt - 1 : Pin(v)' = job'.ts
      BY <1>3, <1>4, <2>2, <2>3
    <2> QED BY <2>1, <2>4, <2>5 DEF JobMapped
  <1>15. TasksMapped'
    BY <1>1, TasksStay DEF OwnParts
  <1> QED BY <1>13, <1>14, <1>15 DEF OwnParts

(* A step of the walk. *)
LEMMA WalkOwn ==
  ASSUME IInv, RamFits, Parts, OwnParts, Kept, Walk
  PROVE  OwnParts'
  <1>1. TablesInv /\ RestTyped /\ PathInv /\ MapStep /\ job \in Job
    BY DEF IInv, StackInv, Parts, Walk, RestTyped
  <1>2. job' = job /\ tasks' = tasks
    BY DEF Walk, taskVars
  <1>3. walk # <<>> /\ ret = "running" /\ req' = req
    BY <1>1, MapStepMoves
  <1>4. Private \subseteq Private'
    BY <1>1, MapStepOwned, PrivateIs
  <1>5. \A v \in TaskArea : v \in 0 .. VirtPages - 1 /\ v \in Nat
    BY <1>1, AreaApart, RangesPositive
  <1>6. FramesOwned /\ HandOwned /\ FramesSuffice /\ JobMapped
    BY DEF OwnParts, FramesOwned
  <1>7. TaskArea' = TaskArea
    BY DEF TaskArea, TaskPages, LowAddress, HighAddress, TaskAddress
  <1>8. ToSet(<<>>) = {} /\ IsInjective(<<>>)
    BY DEF ToSet, IsInjective
  <1>9. Hand' = (IF TsInHand' THEN {job'.ts} ELSE {}) \cup ToSet(Left')
    BY DEF Hand, ToSet
  <1>10. ASSUME \A v \in Nat : Translate(mem', v) = Translate(mem, v),
                Left' = Left \/ Left' = <<>>, FramesSuffice', JobMapped'
         PROVE  OwnParts'
    <2>1. \A v \in TaskArea : Pin(v)' = Pin(v)
      <3> SUFFICES ASSUME NEW v \in TaskArea PROVE Pin(v)' = Pin(v)
        OBVIOUS
      <3> QED BY <1>5, <1>10, PinIs
    <2>2. TsInHand' <=> TsInHand
      <3>1. CASE job.at = "task_mapped"
        <4> PICK id \in 0 .. StackWords - 1 : id = job.id
          BY <1>3, <3>1, JobAsked DEF HasStack
        <4>1. TaskAddress(id) \in TaskArea
          BY <1>1, AreaApart DEF TaskPages
        <4>2. Pin(TaskAddress(job.id))' = Pin(TaskAddress(job.id))
          <5>1. Pin(TaskAddress(id))' = Pin(TaskAddress(id))
            BY <2>1, <4>1, PinIs
          <5> QED BY <1>2, <5>1
        <4> QED BY <1>2, <3>1, <4>2 DEF TsInHand
      <3>2. CASE job.at # "task_mapped"
        BY <1>2, <3>2 DEF TsInHand
      <3> QED BY <3>1, <3>2
    <2>3. ToSet(Left') \subseteq ToSet(Left) /\ IsInjective(Left')
      BY <1>6, <1>8, <1>10 DEF HandOwned
    <2>4. Hand' \subseteq Hand
      BY <1>2, <1>9, <2>2, <2>3 DEF Hand
    <2>5. HandOwned'
      <3>1. Hand' \subseteq Private'
        BY <1>4, <1>6, <2>4 DEF HandOwned
      <3>2. \A v \in TaskArea : Pin(v)' # INVALID_PAGE_IDX => Pin(v)' \notin Hand'
        BY <1>6, <2>1, <2>4 DEF HandOwned
      <3>3. (TsInHand => job.ts \notin ToSet(Left))'
        <4>1. ToSet(Left)' = ToSet(Left')
          BY DEF ToSet
        <4> QED BY <1>2, <1>6, <2>2, <2>3, <4>1 DEF HandOwned
      <3>4. IsInjective(Left)'
        BY <2>3 DEF IsInjective
      <3> QED BY <1>7, <3>1, <3>2, <3>3, <3>4 DEF HandOwned
    <2> QED BY <1>1, <1>2, <1>4, <1>10, <2>1, <2>5, OwnStays
  <1>11. \A id \in 0 .. StackWords - 1 : StackMapped(id) => StackMapped(id)'
    BY <1>1, TasksStay
  <1>12. job.at \in HasStack => job.id \in 0 .. StackWords - 1
    BY <1>3, JobAsked
  <1>13. CASE /\ walk' = <<>> /\ ret' # "running"
              /\ ret' = "OK" => Top.virt = req.virt + req.num
              /\ \A v \in Nat : Translate(mem', v) = Translate(mem, v)
    <2>1. Left' = Left \/ Left' = <<>>
      BY <1>2, <1>13 DEF Left
    <2>2. FramesSuffice'
      BY <1>2, <1>6, <1>13 DEF FramesSuffice, Idle
    <2>3. JobMapped'
      <3>1. CASE job.at = "stack_mapped"
        <4> PICK id \in 0 .. StackWords - 1 : id = job.id
          BY <1>12, <3>1 DEF HasStack
        <4>1. ret' = "OK" => StackMapped(id)
          <5> SUFFICES ASSUME ret' = "OK" PROVE StackMapped(id)
            OBVIOUS
          <5>1. req.virt = LowAddress(id) /\ req.num = StackPages
            BY <1>3, <3>1, JobAsked DEF Asked
          <5>2. HighAddress(id) = LowAddress(id) + StackPages
            BY TaskPagesIn
          <5>3. Top.virt = HighAddress(id)
            BY <1>13, <5>1, <5>2
          <5>4. \A v \in req.virt .. Top.virt - 1 : Pin(v) # INVALID_PAGE_IDX
            BY <1>3, <1>6, <3>1 DEF JobMapped
          <5> QED BY <5>1, <5>3, <5>4 DEF StackMapped
        <4>2. ret' = "OK" => StackMapped(job.id)'
          <5>1. ret' = "OK" => StackMapped(id)'
            BY <1>11, <4>1
          <5> QED BY <1>2, <5>1
        <4> QED BY <1>2, <1>13, <3>1, <4>2 DEF JobMapped
      <3>2. CASE job.at = "task_mapped"
        <4> PICK id \in 0 .. StackWords - 1 : id = job.id
          BY <1>12, <3>2 DEF HasStack
        <4>1. StackMapped(job.id)'
          <5>1. StackMapped(id)'
            BY <1>6, <1>11, <3>2 DEF JobMapped
          <5> QED BY <1>2, <5>1
        <4>2. ret' = "OK" => Pin(TaskAddress(id)) = job.ts
          <5> SUFFICES ASSUME ret' = "OK" PROVE Pin(TaskAddress(id)) = job.ts
            OBVIOUS
          <5>1. req.virt = TaskAddress(id) /\ req.num = 1
            BY <1>3, <3>2, JobAsked DEF Asked
          <5> PICK x \in Nat : x = TaskAddress(id)
            BY Blocks
          <5>2. x \in req.virt .. Top.virt - 1
            BY <1>13, <5>1
          <5> QED BY <1>3, <1>6, <3>2, <5>2 DEF JobMapped
        <4>3. ret' = "OK" => Pin(TaskAddress(job.id))' = job'.ts
          <5>1. job.ts \in Frames
            BY <1>1 DEF Job
          <5>2. ret' = "OK" => Pin(TaskAddress(id))' = job.ts
            BY <1>1, <4>2, <5>1, TasksStay
          <5> QED BY <1>2, <5>2
        <4> QED BY <1>2, <1>13, <3>2, <4>1, <4>3 DEF JobMapped
      <3>3. CASE job.at \notin {"stack_mapped", "task_mapped"}
        BY <1>2, <3>3 DEF JobMapped
      <3> QED BY <3>1, <3>2, <3>3
    <2> QED BY <1>10, <1>13, <2>1, <2>2, <2>3
  <1>14. CASE /\ walk' # <<>> /\ Top'.virt = Top.virt /\ ret' = ret /\ pacc' = pacc
              /\ \A v \in Nat : Translate(mem', v) = Translate(mem, v)
    <2>1. Left' = Left
      BY <1>2, <1>3, <1>14 DEF Left
    <2>2. FramesSuffice'
      BY <1>2, <1>3, <1>6, <1>14 DEF FramesSuffice, Idle
    <2>3. JobMapped'
      <3>1. \A v \in req.virt .. Top.virt - 1 : Pin(v)' = Pin(v)
        <4>1. \A v \in req.virt .. Top.virt - 1 : v \in Nat
          BY <1>1, <1>3, TopOnPath
        <4> SUFFICES ASSUME NEW v \in req.virt .. Top.virt - 1 PROVE Pin(v)' = Pin(v)
          OBVIOUS
        <4> QED BY <1>14, <4>1, PinIs
      <3>2. job.at = "task_mapped" => StackMapped(job.id)'
        <4> SUFFICES ASSUME job.at = "task_mapped" PROVE StackMapped(job.id)'
          OBVIOUS
        <4> PICK id \in 0 .. StackWords - 1 : id = job.id
          BY <1>12 DEF HasStack
        <4>1. StackMapped(id)'
          BY <1>6, <1>11 DEF JobMapped
        <4> QED BY <1>2, <4>1
      <3>3. ret' # "OK" /\ req'.virt .. Top'.virt - 1 = req.virt .. Top.virt - 1
        BY <1>3, <1>14
      <3> QED BY <1>2, <1>3, <1>6, <3>1, <3>2, <3>3 DEF JobMapped
    <2> QED BY <1>10, <1>14, <2>1, <2>2, <2>3
  <1>15. CASE /\ walk' # <<>> /\ Top'.virt = Top.virt + 1 /\ ret' = ret
              /\ pacc' = Used(pacc) /\ pacc.kind # "idle"
              /\ Top.virt \in 0 .. VirtPages - 1
              /\ req.virt <= Top.virt /\ Top.virt < req.virt + req.num
              /\ \A v \in 0 .. VirtPages - 1 :
                   Translate(mem', v) = IF v = Top.virt THEN FrameOf(pacc)
                                        ELSE Translate(mem, v)
    <2> PICK u \in Nat, b \in Nat, n \in Nat :
           u = Top.virt /\ b = req.virt /\ n = req.num /\ b <= u /\ u < b + n
      <3>1. Top.virt \in Nat /\ req.virt \in Nat /\ req.num \in Nat
        BY <1>1, <1>3, TopOnPath
      <3> QED BY <1>15, <3>1
    <2>1. CASE job.at \notin {"stack_mapped", "task_mapped"}
      <3>1. job' = NoJob /\ u \notin TaskArea
        BY <1>2, <1>3, <2>1, JobAsked
      <3>2. \A v \in TaskArea : Pin(v)' = Pin(v)
        <4> SUFFICES ASSUME NEW v \in TaskArea PROVE Pin(v)' = Pin(v)
          OBVIOUS
        <4>1. v # u /\ v \in 0 .. VirtPages - 1
          BY <1>5, <3>1
        <4> QED BY <1>15, <4>1, PinIs
      <3>3. HandOwned' /\ FramesSuffice' /\ JobMapped'
        BY <3>1, NoJobHand
      <3> QED BY <1>1, <1>2, <1>4, <3>2, <3>3, OwnStays
    <2>2. CASE job.at = "stack_mapped"
      <3>1. pacc.kind = "list" /\ Len(pacc.left) = b + n - u /\ ~Idle
        BY <1>3, <1>6, <1>15, <2>2 DEF FramesSuffice
      <3>2. Left = pacc.left
        BY <1>3, <2>2 DEF Left
      <3> PICK ps \in Seq(Nat) : ps = pacc.left
        BY <1>1 DEF TablesInv, PageTableTypeOK, Accessor
      <3>3. ps # <<>> /\ Len(ps) = b + n - u /\ IsInjective(ps)
        BY <1>6, <3>1, <3>2 DEF HandOwned
      <3>4. /\ Tail(ps) \in Seq(Nat) /\ Head(ps) \in ToSet(ps)
            /\ ToSet(Tail(ps)) \subseteq ToSet(ps) \ {Head(ps)}
            /\ IsInjective(Tail(ps)) /\ Len(Tail(ps)) = Len(ps) - 1
        BY <3>3, TailFacts
      <3>5. FrameOf(pacc) = Head(ps) /\ pacc'.left = Tail(ps) /\ pacc'.kind = "list"
        <4>1. pacc \in Accessor
          BY <1>1 DEF TablesInv, PageTableTypeOK
        <4> QED BY <1>15, <3>1, <3>3, <4>1 DEF FrameOf, Used, Accessor
      <3>6. Left' = Tail(ps)
        BY <1>2, <1>15, <2>2, <3>5 DEF Left
      <3>7. Head(ps) \in Hand /\ Head(ps) # job.ts
        BY <1>6, <2>2, <3>2, <3>4 DEF HandOwned, Hand, TsInHand
      <3> PICK frame \in Frames : frame = Head(ps)
        BY <1>6, <3>7 DEF HandOwned, Private, Owned
      <3>8. /\ frame \in Private' /\ frame # job.ts /\ \A v \in TaskArea : Pin(v) # frame
        <4>1. frame # INVALID_PAGE_IDX
          BY TableAssumption DEF INVALID_PAGE_IDX
        <4> QED BY <1>4, <1>6, <3>7, <4>1 DEF HandOwned
      <3>9. FramesSuffice'
        <4>1. req'.virt + req'.num - Top'.virt = b + n - (u + 1)
          BY <1>3, <1>15
        <4>2. Len(pacc'.left) = b + n - (u + 1)
          BY <3>3, <3>4, <3>5
        <4>3. Idle' = Idle
          BY <1>2 DEF Idle
        <4> QED BY <1>2, <1>6, <2>2, <3>1, <3>5, <4>1, <4>2, <4>3 DEF FramesSuffice
      <3>10. ToSet(Left') \subseteq ToSet(Left) \ {frame} /\ IsInjective(Left')
        BY <3>2, <3>4, <3>6
      <3>11. \A v \in 0 .. VirtPages - 1 :
               Translate(mem', v) = IF v = Top.virt THEN frame ELSE Translate(mem, v)
        BY <1>15, <3>5
      <3> QED BY <1>2, <1>3, <1>4, <1>15, <2>2, <3>8, <3>9, <3>10, <3>11, StackPageOwn
    <2>3. CASE job.at = "task_mapped"
      <3>1. req.num = 1
        BY <1>3, <2>3, JobAsked DEF Asked
      <3>2. u = b /\ ~Idle /\ pacc.kind = "linear" /\ pacc.next = job.ts
        BY <1>3, <1>6, <1>15, <2>3, <3>1 DEF FramesSuffice
      <3>3. FrameOf(pacc) = job.ts /\ pacc'.kind = "linear"
        <4>1. pacc \in Accessor
          BY <1>1 DEF TablesInv, PageTableTypeOK
        <4> QED BY <1>15, <3>2, <4>1 DEF FrameOf, Used, Accessor
      <3>4. FramesSuffice'
        <4>1. Top'.virt # req'.virt
          BY <1>3, <1>15, <3>2
        <4>2. Idle' = Idle
          BY <1>2 DEF Idle
        <4> QED BY <1>2, <1>6, <2>3, <3>2, <3>3, <4>1, <4>2 DEF FramesSuffice
      <3> QED BY <1>2, <1>3, <1>4, <1>15, <2>3, <3>3, <3>4, TaskPageOwn
    <2> QED BY <2>1, <2>2, <2>3
  <1> QED BY <1>1, <1>13, <1>14, <1>15, MapStepMoves

(* A page of an idle task's stack, with a new frame, or its structure.     *)
LEMMA MapIdleFrameOwn ==
  ASSUME IInv, RamFits, Parts, OwnParts, Kept, MapIdleFrame
  PROVE  OwnParts'
  <1>1. TablesInv /\ RestTyped /\ PathInv /\ job \in Job /\ FramesSuffice /\ HandOwned
    BY DEF IInv, StackInv, Parts, RestTyped, OwnParts, FramesOwned
  <1>2. /\ AtEntry({1}) /\ walk # <<>> /\ pacc.kind = "idle"
        /\ req' = req /\ tasks' = tasks /\ pacc' = pacc
    BY DEF MapIdleFrame, AtEntry
  <1>3. ASSUME NEW frame \in Frames, WritePte(frame), ret' = ret
        PROVE  /\ Top.virt \in 0 .. VirtPages - 1
               /\ req.virt <= Top.virt /\ Top.virt < req.virt + req.num
               /\ walk' # <<>> /\ Top'.virt = Top.virt + 1
               /\ \A v \in 0 .. VirtPages - 1 :
                    Translate(mem', v) = IF v = Top.virt THEN frame ELSE Translate(mem, v)
               /\ \A t \in Upper(mem) : mem'[t] = mem[t]
    <2> PICK f \in Int : f = frame /\ f # Absent
      <3> PICK g \in Nat : g = frame
        BY TableAssumption
      <3>1. g \in Int /\ g # Absent
        BY DEF Absent
      <3> QED BY <3>1
    <2>1. WritePte(f)
      BY <1>3
    <2> QED BY <1>1, <1>2, <1>3, <2>1, WritePtePath, WritePteFacts
  <1>4. CASE JobAt("task_mapped") /\ WritePte(job.ts) /\ UNCHANGED <<pool, ret, main, job>>
    <2>1. job.at = "task_mapped" /\ Idle
      BY <1>1, <1>2, <1>4 DEF JobAt, FramesSuffice
    <2> PICK frame \in Frames : frame = job.ts
      BY <1>1 DEF Job
    <2>2. WritePte(frame) /\ ret' = ret
      BY <1>4
    <2>3. /\ Top.virt \in 0 .. VirtPages - 1
          /\ req.virt <= Top.virt /\ Top.virt < req.virt + req.num
          /\ walk' # <<>> /\ Top'.virt = Top.virt + 1
          /\ \A v \in 0 .. VirtPages - 1 :
               Translate(mem', v) = IF v = Top.virt THEN job.ts ELSE Translate(mem, v)
          /\ \A t \in Upper(mem) : mem'[t] = mem[t]
      BY <1>3, <2>2
    <2>4. Private \subseteq Private'
      BY <1>1, <1>4, <2>3, OwnedKept, PrivateIs
    <2>5. FramesSuffice'
      BY <1>1, <1>2, <1>4, <2>1 DEF FramesSuffice, Idle
    <2> HIDE DEF WritePte
    <2> QED BY <1>2, <1>4, <2>1, <2>3, <2>4, <2>5, TaskPageOwn
  <1>5. CASE /\ JobAt("stack_mapped") /\ pool # <<>> /\ WritePte(Head(pool))
             /\ pool' = Tail(pool) /\ UNCHANGED <<ret, main, job>>
    <2>1. job.at = "stack_mapped" /\ Idle /\ pacc.left = <<>>
      BY <1>1, <1>2, <1>5 DEF JobAt, FramesSuffice
    <2>2. /\ Head(pool) \in ToSet(pool) /\ Head(pool) \in Frames
          /\ ToSet(Tail(pool)) \subseteq ToSet(pool) \ {Head(pool)}
      BY <1>1, <1>5, TailFacts DEF TablesInv, PageTableTypeOK, PoolFresh
    <2> PICK frame \in Frames : frame = Head(pool)
      BY <2>2
    <2>3. WritePte(frame) /\ ret' = ret
      BY <1>5
    <2>4. /\ Top.virt \in 0 .. VirtPages - 1
          /\ req.virt <= Top.virt /\ Top.virt < req.virt + req.num
          /\ walk' # <<>> /\ Top'.virt = Top.virt + 1
          /\ \A v \in 0 .. VirtPages - 1 :
               Translate(mem', v) = IF v = Top.virt THEN frame ELSE Translate(mem, v)
          /\ \A t \in Upper(mem) : mem'[t] = mem[t]
      BY <1>3, <2>3
    <2>5. /\ Private \subseteq Private' /\ frame \in Private'
          /\ Private \cap ToSet(pool) = {}
      <3>1. ToSet(pool') \subseteq ToSet(pool) /\ frame \in ToSet(pool) \ ToSet(pool')
        BY <1>5, <2>2
      <3> QED BY <1>1, <2>4, <3>1, OwnedKept, PrivateIs DEF Owned
    <2>6. Left = <<>> /\ Left' = <<>>
      BY <1>2, <1>5, <2>1, <2>4 DEF Left
    <2>7. ToSet(<<>>) = {} /\ IsInjective(<<>>)
      BY DEF ToSet, IsInjective
    <2>8. frame # job.ts /\ \A v \in TaskArea : Pin(v) # frame
      <3>1. job.ts \in Hand
        BY <2>1 DEF Hand, TsInHand
      <3>2. frame # INVALID_PAGE_IDX
        BY TableAssumption DEF INVALID_PAGE_IDX
      <3> QED BY <1>1, <2>2, <2>5, <3>1, <3>2 DEF HandOwned, OwnParts, FramesOwned
    <2>9. FramesSuffice'
      BY <1>1, <1>2, <1>5, <2>1 DEF FramesSuffice, Idle
    <2>10. ToSet(Left') \subseteq ToSet(Left) \ {frame} /\ IsInjective(Left')
      BY <2>6, <2>7
    <2> HIDE DEF WritePte
    <2> QED BY <1>2, <1>5, <2>1, <2>4, <2>5, <2>8, <2>9, <2>10, StackPageOwn
  <1>6. CASE job' = NoJob /\ UNCHANGED <<mem, pool>>
    <2>1. TasksMapped'
      BY <1>1, <1>2, TasksStay DEF OwnParts
    <2> QED BY <1>1, <1>6, <2>1, NoJobOwn
  <1> QED BY <1>4, <1>5, <1>6 DEF MapIdleFrame

(* Nobody has a frame before the boot. *)
LEMMA InitOwn == Init => OwnParts
  <1> SUFFICES ASSUME Init PROVE OwnParts
    OBVIOUS
  <1>1. job = NoJob /\ tasks = <<>> /\ main = "map_dma"
    BY DEF Init
  <1>2. job.at = "" /\ job.kind = "none"
    BY <1>1 DEF NoJob
  <1>3. IInv /\ MappedWhere
    BY InitIInv, InitParts DEF Parts
  <1>4. \A v \in TaskArea : Pin(v) = INVALID_PAGE_IDX
    <2> SUFFICES ASSUME NEW id \in 0 .. StackWords - 1, NEW v \in TaskPages(id),
                        Pin(v) # INVALID_PAGE_IDX
                 PROVE  FALSE
      BY DEF TaskArea
    <2>1. v \in 0 .. VirtPages - 1
      BY TaskPagesIn
    <2>2. MayBeMapped(v)
      BY <1>3, <2>1 DEF MappedWhere
    <2> QED BY <1>1, <2>2 DEF MayBeMapped, BeforeDirect, BeforeApic, Given, Early
  <1>5. ~TsInHand /\ Left = <<>>
    BY <1>2 DEF TsInHand, Left
  <1>6. ToSet(<<>>) = {} /\ IsInjective(<<>>)
    BY DEF ToSet, IsInjective
  <1>7. HandOwned
    BY <1>5, <1>6 DEF HandOwned, Hand
  <1>8. FramesOwned
    BY <1>4, <1>7 DEF FramesOwned
  <1>9. FramesSuffice /\ JobMapped
    BY <1>2 DEF FramesSuffice, JobMapped, Idle
  <1>10. TasksMapped
    BY <1>1 DEF TasksMapped
  <1> QED BY <1>8, <1>9, <1>10 DEF OwnParts

(* No step takes a frame from a task, or gives one to two.                 *)
LEMMA NextOwn ==
  ASSUME IInv, RamFits, Parts, OwnParts, [Next]_vars
  PROVE  OwnParts'
  <1>1. TablesInv /\ RestTyped /\ PathInv /\ JobMain /\ Kept
    BY NextParts DEF IInv, StackInv, Parts
  <1>2. ASSUME mem' = mem, ToSet(pool') \subseteq ToSet(pool), job' = NoJob, tasks' = tasks
        PROVE  OwnParts'
    <2>1. TasksMapped'
      BY <1>1, <1>2, TasksStay DEF OwnParts
    <2> QED BY <1>1, <1>2, <2>1, NoJobOwn
  <1>3. CASE Stopped \/ UNCHANGED vars
    <2>1. UNCHANGED <<mem, pool, walk, pacc, req, ret, job, tasks>>
      BY <1>3 DEF Stopped, vars, tableVars, callVars
    <2>2. Private \subseteq Private' /\ \A v : Pin(v)' = Pin(v)
      BY <1>1, <2>1, PrivateKept
    <2>3. HandOwned'
      BY <2>1, <2>2 DEF OwnParts, FramesOwned, HandOwned, Hand, TsInHand, Left, TaskArea,
                        TaskPages, LowAddress, HighAddress, TaskAddress, ToSet, IsInjective
    <2>4. FramesSuffice'
      BY <2>1 DEF OwnParts, FramesSuffice, Idle, Top
    <2>5. JobMapped'
      BY <2>1, <2>2 DEF OwnParts, JobMapped, StackMapped, LowAddress, HighAddress,
                        TaskAddress, Top
    <2> QED BY <1>1, <2>1, <2>2, <2>3, <2>4, <2>5, OwnStays
  <1>4. CASE MapDma \/ MapDirect \/ MapApic \/ DmaMapped \/ DirectMapped \/ ApicMapped
    <2>1. mem' = mem /\ pool' = pool /\ job' = job /\ tasks' = tasks
      BY <1>4 DEF MapDma, MapDirect, MapApic, DmaMapped, DirectMapped, ApicMapped, Ask,
                  MapPages, taskVars, tableVars
    <2>2. job = NoJob
      BY <1>1, <1>4 DEF MapDma, MapDirect, MapApic, DmaMapped, DirectMapped, ApicMapped,
                        JobMain
    <2> QED BY <1>2, <2>1, <2>2
  <1>5. CASE InitStackAllocator
    <2>1. mem' = mem /\ job' = job /\ tasks' = tasks /\ job = NoJob
      BY <1>1, <1>5 DEF InitStackAllocator, JobMain
    <2>2. ToSet(pool') \subseteq ToSet(pool)
      <3>1. CASE pool # <<>> /\ pool' = Tail(pool)
        <4>1. ToSet(Tail(pool)) \subseteq ToSet(pool)
          BY <1>1, <3>1, TailFacts DEF TablesInv, PageTableTypeOK, PoolFresh
        <4> QED BY <3>1, <4>1
      <3>2. CASE pool' = pool
        BY <3>2
      <3> QED BY <1>5, <3>1, <3>2 DEF InitStackAllocator
    <2> QED BY <1>2, <2>1, <2>2
  <1>6. CASE StartIdleTask \/ KernelThread
    <2>1. /\ mem' = mem /\ pool' = pool /\ tasks' = tasks
          /\ \/ job' = NoJob
             \/ \E k \in {"idle", "thread"} : job' = [NoJob EXCEPT !.kind = k, !.at = "alloc"]
      BY <1>6 DEF StartIdleTask, KernelThread, tableVars
    <2> QED BY <1>1, <1>2, <2>1, StartOwn
  <1>7. CASE AllocTaskStruct
    <2>1. tasks' = tasks
      BY <1>7 DEF AllocTaskStruct
    <2>2. CASE NoPage /\ UNCHANGED <<mem, pool>>
      BY <1>2, <2>1, <2>2 DEF NoPage, GiveUp
    <2>3. CASE /\ pool # <<>> /\ job' = [job EXCEPT !.ts = Head(pool), !.at = "stack"]
               /\ mem' = [mem EXCEPT ![Head(pool)] = Cleared] /\ pool' = Tail(pool)
      BY <1>1, <1>7, <2>3, AllocTaskStructOwn
    <2> QED BY <1>7, <2>2, <2>3 DEF AllocTaskStruct
  <1>8. CASE AllocateStack
    <2>1. mem' = mem /\ pool' = pool /\ tasks' = tasks
      BY <1>8 DEF AllocateStack, tableVars
    <2>2. CASE \E id \in bitmap :
                 job' = [job EXCEPT !.id = id, !.at = IF Idle THEN "map_stack" ELSE "pages"]
      BY <1>1, <1>8, <2>2, AllocateStackOwn
    <2>3. CASE NoStackLeft
      BY <1>2, <2>1, <2>3 DEF NoStackLeft
    <2> QED BY <1>8, <2>2, <2>3 DEF AllocateStack
  <1>9. CASE AllocStackPages
    <2>1. mem' = mem /\ tasks' = tasks
      BY <1>9 DEF AllocStackPages
    <2>2. CASE pool' = <<>> /\ job' = NoJob
      <3>1. ToSet(<<>>) = {}
        BY DEF ToSet
      <3> QED BY <1>2, <2>1, <2>2, <3>1
    <2>3. CASE /\ Len(pool) >= StackPages
               /\ job' = [job EXCEPT !.pages = SubSeq(pool, 1, StackPages),
                                     !.at = "map_stack"]
               /\ pool' = SubSeq(pool, StackPages + 1, Len(pool))
      BY <1>1, <1>9, <2>3, AllocStackPagesOwn
    <2> QED BY <1>9, <2>2, <2>3 DEF AllocStackPages
  <1>10. CASE MapTaskStruct
    <2>1. CASE MapFailed /\ UNCHANGED tableVars
      <3>1. mem' = mem /\ pool' = pool /\ tasks' = tasks /\ job' = NoJob
        BY <1>10, <2>1 DEF MapTaskStruct, MapFailed, GiveUp, tableVars
      <3> QED BY <1>2, <3>1
    <2>2. CASE /\ ret = "OK"
               /\ Ask(TaskAddress(job.id), 1,
                      IF Idle THEN [Linear(0) EXCEPT !.kind = "idle"] ELSE Linear(job.ts))
               /\ job' = [job EXCEPT !.at = "task_mapped"]
      BY <1>1, <1>10, <2>2, MapTaskStructOwn
    <2> QED BY <1>10, <2>1, <2>2 DEF MapTaskStruct
  <1> QED BY <1>1, <1>3, <1>4, <1>5, <1>6, <1>7, <1>8, <1>9, <1>10, MapStackOwn,
             TaskMappedOwn, MapIdleFrameOwn, WalkOwn
          DEF Next, Work, CreateTask

OwnInv == SpaceInv /\ OwnParts

LEMMA OwnInvAlways == Spec /\ RamFits => []OwnInv
  <1>1. Init /\ RamFits => OwnInv
    BY InitIInv, InitParts, InitOwn DEF OwnInv, SpaceInv
  <1>2. OwnInv /\ [Next]_vars => OwnInv'
    BY NextIInv, NextParts, NextOwn DEF OwnInv, SpaceInv
  <1> QED BY <1>1, <1>2, PTL DEF Spec

(* A page in the block of a stack that is no page of its task is mapped    *)
(* for nobody.                                                             *)
LEMMA GuardPages ==
  ASSUME RestTyped, RamFits, MappedWhere, NEW id \in 0 .. StackWords - 1, NEW x \in Nat,
         Block(id) <= x, x < Block(id) + StackStep, x \notin TaskPages(id)
  PROVE  Pin(x) = INVALID_PAGE_IDX
  <1> DEFINE floor == KernelBase - StackWords * StackStep
  <1>1. /\ DmaTotal \in Nat /\ ram \in Nat /\ KernelBase \in Nat /\ ApicPage \in Nat
        /\ floor \in Nat /\ VirtPages \in Nat
        /\ DmaTotal <= ApicPage /\ ApicPage < floor /\ KernelBase + ram <= VirtPages
    BY Regions
  <1>2. /\ Block(id) \in Nat /\ StackStep \in Nat
        /\ floor <= Block(id) /\ Block(id) + StackStep <= KernelBase
    BY Blocks
  <1> HIDE DEF floor
  <1>3. /\ x \in 0 .. VirtPages - 1 /\ x \notin 1 .. DmaTotal - 1 /\ x # ApicPage
        /\ x \notin KernelBase .. KernelBase + ram - 1
    BY <1>1, <1>2
  <1>4. ASSUME NEW other \in 0 .. StackWords - 1, x \in TaskPages(other), other # id
        PROVE  FALSE
    <2>1. /\ Block(other) <= x /\ x < Block(other) + StackStep /\ Block(other) \in Nat
      BY <1>4, TaskPagesIn, Blocks
    <2>2. \/ Block(other) + StackStep <= Block(id)
          \/ Block(id) + StackStep <= Block(other)
      <3>1. CASE other < id
        BY <3>1, BlocksApart
      <3>2. CASE id < other
        BY <3>2, BlocksApart
      <3> QED BY <1>4, <3>1, <3>2
    <2> QED BY <1>2, <2>1, <2>2
  <1>5. ~MayBeMapped(x)
    BY <1>3, <1>4 DEF MayBeMapped
  <1> QED BY <1>3, <1>5 DEF MappedWhere

(* The pages of two stacks are apart. *)
LEMMA TaskPagesApart ==
  ASSUME NEW a \in 0 .. StackWords - 1, NEW b \in 0 .. StackWords - 1, a # b
  PROVE  TaskPages(a) \cap TaskPages(b) = {}
  <1> SUFFICES ASSUME NEW x \in TaskPages(a), x \in TaskPages(b) PROVE FALSE
    OBVIOUS
  <1>1. /\ Block(a) <= x /\ x < Block(a) + StackStep /\ x \in Nat
        /\ Block(b) <= x /\ x < Block(b) + StackStep
    BY TaskPagesIn
  <1>2. Block(a) \in Nat /\ Block(b) \in Nat /\ StackStep \in Nat
    BY Blocks
  <1>3. Block(a) + StackStep <= Block(b) \/ Block(b) + StackStep <= Block(a)
    <2>1. CASE a < b
      BY <2>1, BlocksApart
    <2>2. CASE b < a
      BY <2>2, BlocksApart
    <2> QED BY <2>1, <2>2
  <1> QED BY <1>1, <1>2, <1>3

(* Tasks share no frame with each other, with a page table or with the     *)
(* page cache, find their structures where current_task() looks for them   *)
(* and have unmapped pages around their stacks, after whatever sequence of *)
(* creations and failed creations.                                         *)
THEOREM TasksLiveApart == Spec /\ RamFits => []TasksApart
  <1>1. OwnInv => TasksApart
    <2> SUFFICES ASSUME OwnInv PROVE TasksApart
      OBVIOUS
    <2>1. /\ TablesInv /\ RestTyped /\ RamFits /\ MappedWhere /\ StacksTaken
          /\ FramesOwned /\ TasksMapped
      BY DEF OwnInv, SpaceInv, IInv, StackInv, Parts, OwnParts
    <2> DEFINE T == [id : Nat, ts : Frames]
    <2>2. ASSUME NEW i \in DOMAIN tasks
          PROVE  /\ tasks[i].id \in 0 .. StackWords - 1 /\ tasks[i].ts \in Frames
                 /\ StackRange(tasks[i]) \cup {TaskAddress(tasks[i].id)}
                      = TaskPages(tasks[i].id)
      <3>1. tasks \in Seq(T)
        BY <2>1 DEF RestTyped
      <3>2. \A t \in T : t.id \in Nat /\ t.ts \in Frames
        OBVIOUS
      <3> HIDE DEF T
      <3>3. tasks[i] \in T
        BY <3>1
      <3>4. tasks[i].id < StackWords /\ StackWords \in Nat
        BY <2>1, LayoutAssumption DEF TasksMapped
      <3>5. tasks[i].id \in Nat /\ tasks[i].ts \in Frames
        BY <3>2, <3>3
      <3> QED BY <3>4, <3>5 DEF StackRange, TaskPages
    <2> HIDE DEF T
    <2>3. ASSUME NEW i \in DOMAIN tasks, NEW v \in TaskPages(tasks[i].id)
          PROVE  v \in TaskArea /\ Pin(v) # INVALID_PAGE_IDX /\ Pin(v) \in Private
      <3> PICK id \in 0 .. StackWords - 1 : id = tasks[i].id
        BY <2>2
      <3>1. v \in TaskArea
        BY <2>1, <2>3, AreaApart
      <3>2. StackMapped(id) /\ Pin(TaskAddress(id)) = tasks[i].ts
        BY <2>1 DEF TasksMapped
      <3>3. tasks[i].ts # INVALID_PAGE_IDX
        BY <2>2, TableAssumption DEF INVALID_PAGE_IDX
      <3>4. Pin(v) # INVALID_PAGE_IDX
        BY <2>3, <3>2, <3>3 DEF StackMapped, TaskPages
      <3> QED BY <2>1, <3>1, <3>4 DEF FramesOwned
    <2>4. Private \subseteq
            Frames \ (ToSet(pool) \cup {Root} \cup Pdp3s \cup Pde2s \cup Ptes)
      BY TreeIs DEF Private, Owned, Upper
    <2>5. ASSUME NEW i \in DOMAIN tasks
          PROVE  /\ Pin(TaskAddress(tasks[i].id)) = tasks[i].ts
                 /\ FramesOf(tasks[i]) \subseteq
                      Frames \ (ToSet(pool) \cup {Root} \cup Pdp3s \cup Pde2s \cup Ptes)
                 /\ \A v, w \in StackRange(tasks[i]) \cup {TaskAddress(tasks[i].id)} :
                      Pin(v) = Pin(w) => v = w
                 /\ Pin(HighAddress(tasks[i].id)) = INVALID_PAGE_IDX
                 /\ StackPages + StackGap + 1 < StackStep
                      => Pin(LowAddress(tasks[i].id) - 1) = INVALID_PAGE_IDX
      <3> PICK id \in 0 .. StackWords - 1 : id = tasks[i].id
        BY <2>2
      <3>1. Pin(TaskAddress(id)) = tasks[i].ts
        BY <2>1 DEF TasksMapped
      <3>2. FramesOf(tasks[i]) \subseteq Private
        <4> SUFFICES ASSUME NEW v \in TaskPages(id) PROVE Pin(v) \in Private
          BY <2>2 DEF FramesOf
        <4> QED BY <2>3
      <3>3. \A v, w \in TaskPages(id) : Pin(v) = Pin(w) => v = w
        BY <2>1, <2>3 DEF FramesOwned
      <3> PICK p \in Nat, g \in Nat, s \in Nat, b \in Nat :
             /\ p = StackPages /\ g = StackGap /\ s = StackStep /\ b = Block(id)
             /\ TaskAddress(id) = b /\ LowAddress(id) = b + (s - g - p)
             /\ HighAddress(id) = b + (s - g)
             /\ g > 0 /\ p > 0 /\ p + g < s
        BY Blocks
      <3>4. Pin(HighAddress(id)) = INVALID_PAGE_IDX
        <4> PICK x \in Nat : x = b + (s - g)
          OBVIOUS
        <4>1. x \notin TaskPages(id)
          BY DEF TaskPages
        <4>2. Block(id) <= x /\ x < Block(id) + StackStep /\ x = HighAddress(id)
          OBVIOUS
        <4> QED BY <2>1, <4>1, <4>2, GuardPages
      <3>5. StackPages + StackGap + 1 < StackStep
              => Pin(LowAddress(id) - 1) = INVALID_PAGE_IDX
        <4> SUFFICES ASSUME p + g + 1 < s PROVE Pin(LowAddress(id) - 1) = INVALID_PAGE_IDX
          OBVIOUS
        <4> PICK x \in Nat : x = b + (s - g - p) - 1 /\ b < x /\ x < b + s
          <5>1. b + (s - g - p) - 1 \in Nat
            OBVIOUS
          <5> QED BY <5>1
        <4>1. x \notin TaskPages(id)
          BY DEF TaskPages
        <4>2. Block(id) <= x /\ x < Block(id) + StackStep /\ x = LowAddress(id) - 1
          OBVIOUS
        <4> QED BY <2>1, <4>1, <4>2, GuardPages
      <3>6. Pin(LowAddress(tasks[i].id) - 1) = Pin(LowAddress(id) - 1)
        OBVIOUS
      <3> QED BY <2>2, <2>4, <3>1, <3>2, <3>3, <3>4, <3>5, <3>6
    <2>6. ASSUME NEW i \in DOMAIN tasks, NEW j \in DOMAIN tasks, i # j
          PROVE  FramesOf(tasks[i]) \cap FramesOf(tasks[j]) = {}
      <3>1. tasks[i].id # tasks[j].id
        BY <2>1, <2>6 DEF StacksTaken
      <3>2. TaskPages(tasks[i].id) \cap TaskPages(tasks[j].id) = {}
        BY <2>2, <3>1, TaskPagesApart
      <3> SUFFICES ASSUME NEW v \in TaskPages(tasks[i].id), NEW w \in TaskPages(tasks[j].id),
                          Pin(v) = Pin(w)
                   PROVE  FALSE
        BY <2>2 DEF FramesOf
      <3>3. v \in TaskArea /\ w \in TaskArea /\ Pin(v) # INVALID_PAGE_IDX
        BY <2>3
      <3>4. v = w
        BY <2>1, <3>3 DEF FramesOwned
      <3> QED BY <3>2, <3>4
    <2> QED BY <2>5, <2>6 DEF TasksApart
  <1> QED BY <1>1, OwnInvAlways, PTL
=============================================================================
