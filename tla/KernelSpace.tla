---------------------------- MODULE KernelSpace ----------------------------
(***************************************************************************)
(* The kernel's address space and who fills it: arch_remap_memory() with   *)
(* its verification, the kernel stack allocator of kstack.c, the idle      *)
(* tasks, the APIC page and kernel_thread() with create_new_task(), all of *)
(* them callers of mm_map_pages() and alloc_page().                        *)
(*                                                                         *)
(* main is where the boot is; while a task is being created, job says how  *)
(* far it has come.  A step ends where mm_map_pages() or alloc_page() is   *)
(* called.  When the page cache is dry alloc_page() returns NULL or, as    *)
(* PageFrames shows, does not come back ("wild").                          *)
(***************************************************************************)
EXTENDS PageTable

CONSTANTS
  RamSizes,    (* swks.mem_total_pages may be                              *)
  PoolSizes,   (* the frames in the page cache of CPU 0 may be             *)
  DmaPages,    (* pages of the DMA zone, on a machine with more than that  *)
  KernelBase,  (* KERNEL_BASE, in pages                                    *)
  ApicPage,    (* APIC_BASE >> PAGE_WIDTH                                  *)
  StackPages,  (* KERNEL_STACK_PAGES                                       *)
  StackGap,    (* KERNEL_STACK_GAP, in pages                               *)
  StackStep,   (* KERNEL_STACK_STEP, in pages                              *)
  StackWords,  (* BITMAP_ENTRIES_COUNT                                     *)
  NrCpus,      (* NR_CPUS                                                  *)
  MaxThreads   (* bound: calls of kernel_thread()                          *)

WordBits == 64

ASSUME LayoutAssumption ==
  /\ DmaPages \in Nat \ {0} /\ RamSizes \subseteq Nat \ {0}
  /\ Root < DmaPages                 (* k_entries is in the kernel image *)
  /\ \A n \in RamSizes : 0 .. n - 1 \subseteq Frames
  /\ PoolSizes \subseteq Nat
  /\ KernelBase \in 1 .. VirtPages - 1 /\ ApicPage \in 1 .. VirtPages - 1
  /\ {StackPages, StackGap, StackStep} \subseteq Nat \ {0}
  /\ StackPages + StackGap < StackStep /\ KernelBase % StackStep = 0
  /\ StackWords \in Nat /\ KernelBase > StackWords * StackStep
  /\ NrCpus \in Nat \ {0} /\ MaxThreads \in Nat

(* From below: the DMA zone (16 MB), the APIC page (below 4 GB), all of    *)
(* the stacks and KERNEL_BASE, these two in the last 512 GB.               *)
ASSUME RegionsAssumption ==
  /\ DmaPages <= ApicPage /\ DmaPages <= EntryRange[4]
  /\ ApicPage < KernelBase - StackWords * StackStep
  /\ (KernelBase - StackWords * StackStep) \div EntryRange[4]
       = (VirtPages - 1) \div EntryRange[4]

VARIABLES
  ram,        (* swks.mem_total_pages                                      *)
  main,       (* where the boot is, "running" after it                     *)
  freeItems,  (* main_stack_ctx.free_items                                 *)
  bitmap,     (* the stack ids whose bit is set                            *)
  job,        (* the task that is being created                            *)
  tasks,      (* the stack and frame of every task that was created        *)
  threads     (* counter for the bound                                     *)

vars == <<tableVars, ram, main, freeItems, bitmap, job, tasks, threads>>

NoJob == [kind |-> "none", at |-> "", ts |-> 0, id |-> 0, pages |-> <<>>]

Init ==
  /\ ram \in RamSizes
  /\ \E n \in PoolSizes :
       /\ n = 0 \/ DmaPages + n <= ram
       /\ InitTables([i \in 1 .. n |-> DmaPages + i - 1])
  /\ main = "map_dma"
  /\ freeItems = 0 /\ bitmap = {} /\ job = NoJob /\ tasks = <<>> /\ threads = 0

Ask(virt, num, accessor) ==
  MapPages([virt |-> virt, num |-> num, kernel |-> FALSE, pacc |-> accessor])

stackVars == <<freeItems, bitmap>>
taskVars  == <<stackVars, job, tasks, threads>>

(* mm_map_pages() has returned, or is lost. *)
Answered == ret # "running"

-----------------------------------------------------------------------------
(* arch_remap_memory() *)

DmaTotal == IF ram < DmaPages THEN ram ELSE DmaPages

MapDma ==
  /\ main = "map_dma"
  /\ Ask(1, DmaTotal - 1, Linear(1))
  /\ main' = "dma_mapped"
  /\ UNCHANGED <<ram, taskVars>>

(* verify_mapping() *)
Verified(virt, num, first) ==
  \A i \in 0 .. num - 1 : Pin(Wrap(virt + i)) = first + i

(* A call failed or a page is not where it should be: panic(). *)
AfterMapping(next, good) ==
  main' = CASE ret = "wild"                -> "wild"
            [] ret = "OK" /\ good          -> next
            [] OTHER                       -> "panic"

DmaMapped ==
  /\ main = "dma_mapped" /\ Answered
  /\ AfterMapping("map_direct", Verified(1, DmaTotal - 1, 1))
  /\ UNCHANGED <<tableVars, ram, taskVars>>

MapDirect ==
  /\ main = "map_direct"
  /\ Ask(KernelBase, ram, Linear(0))
  /\ main' = "direct_mapped"
  /\ UNCHANGED <<ram, taskVars>>

(* From here on the tables are those of the CPU. *)
DirectMapped ==
  /\ main = "direct_mapped" /\ Answered
  /\ AfterMapping("init_stacks", Verified(KernelBase, ram, 0))
  /\ UNCHANGED <<tableVars, ram, taskVars>>

-----------------------------------------------------------------------------
(* The kernel stack allocator, kstack.c *)

(* initialize_kernel_stack_allocator(): the page of the only chunk. *)
InitStackAllocator ==
  /\ main = "init_stacks"
  /\ \/ /\ pool # <<>> /\ pool' = Tail(pool)
        /\ freeItems' = StackWords
        /\ bitmap' = 0 .. StackWords * WordBits - 1
        /\ main' = "idle_tasks"
     \/ /\ pool = <<>> /\ main' \in {"panic", "wild"}
        /\ UNCHANGED <<pool, freeItems, bitmap>>
  /\ UNCHANGED <<mem, callVars, ram, job, tasks, threads>>

(* Mutant: the stacks overlap. *)
HighAddress_NoStep(id) == KernelBase - id * StackPages - StackGap

(* Mutant: the stacks grow up, into the direct mapping. *)
HighAddress_Up(id) == KernelBase + id * StackStep - StackGap

(* stack->high_address, low_address *)
HighAddress(id) == KernelBase - id * StackStep - StackGap
LowAddress(id)  == HighAddress(id) - StackPages

(* & KERNEL_STACK_MASK: where the task structure is mapped. *)
TaskAddress(id) == (LowAddress(id) \div StackStep) * StackStep

FirstSet(id) == id \in bitmap /\ \A other \in bitmap : id <= other

(* Mutant: the bit stays set. *)
Reserve_Forgotten(id) == bitmap

(* reset_bit_mem_64() *)
Reserve(id) == bitmap \ {id}

(* Mutant: only the bitmap is asked. *)
StackAvailable_NoCount == bitmap # {}

StackAvailable == freeItems > 0 /\ bitmap # {}

-----------------------------------------------------------------------------
(* Creation of a task: initialize_idle_tasks() and create_new_task() *)

JobAt(label) == job.kind # "none" /\ job.at = label
Idle == job.kind = "idle"

(* What a failure means to the caller: panic() of the boot, an error to    *)
(* whoever called kernel_thread().  Nothing that was taken is given back;  *)
(* free_kernel_stack() does nothing.                                       *)
GiveUp == /\ main' = IF Idle THEN "panic" ELSE main
          /\ job' = NoJob

NoPage == pool = <<>> /\ \/ GiveUp
                         \/ main' = "wild" /\ job' = NoJob

StartIdleTask ==
  /\ main = "idle_tasks" /\ job = NoJob
  /\ IF Len(tasks) < NrCpus
       THEN job' = [NoJob EXCEPT !.kind = "idle", !.at = "alloc"] /\ UNCHANGED main
       ELSE main' = "map_apic" /\ UNCHANGED job
  /\ UNCHANGED <<tableVars, ram, stackVars, tasks, threads>>

KernelThread ==
  /\ main = "running" /\ job = NoJob /\ threads < MaxThreads
  /\ threads' = threads + 1
  /\ job' = [NoJob EXCEPT !.kind = "thread", !.at = "alloc"]
  /\ UNCHANGED <<tableVars, ram, main, stackVars, tasks>>

(* alloc_page(.., 1): the page of the task structure. *)
AllocTaskStruct ==
  /\ JobAt("alloc")
  /\ \/ /\ pool # <<>>
        /\ job' = [job EXCEPT !.ts = Head(pool), !.at = "stack"]
        /\ mem' = [mem EXCEPT ![Head(pool)] = Cleared]
        /\ pool' = Tail(pool) /\ UNCHANGED main
     \/ NoPage /\ UNCHANGED <<mem, pool>>
  /\ UNCHANGED <<callVars, ram, stackVars, tasks, threads>>

(* Mutant: it waits for a stack to be given back. *)
NoStackLeft_Waits == UNCHANGED <<main, job>>

(* create_new_task() turns the error into 1, which kernel_thread() takes   *)
(* for success: it writes through the NULL it got for a task, and the page *)
(* fault handler never returns.                                            *)
NoStackLeft == /\ main' = IF Idle THEN "panic" ELSE "halted"
               /\ job' = NoJob

(* allocate_kernel_stack() *)
AllocateStack ==
  /\ JobAt("stack")
  /\ \/ \E id \in bitmap :
          /\ StackAvailable /\ FirstSet(id)
          /\ freeItems' = freeItems - 1 /\ bitmap' = Reserve(id)
          /\ job' = [job EXCEPT !.id = id,
                                !.at = IF Idle THEN "map_stack" ELSE "pages"]
          /\ UNCHANGED main
     \/ ~StackAvailable /\ NoStackLeft /\ UNCHANGED stackVars
  /\ UNCHANGED <<tableVars, ram, tasks, threads>>

(* alloc_stack_pages(): those it got before a failure are lost. *)
AllocStackPages ==
  /\ JobAt("pages")
  /\ \/ /\ Len(pool) >= StackPages
        /\ job' = [job EXCEPT !.pages = SubSeq(pool, 1, StackPages),
                              !.at = "map_stack"]
        /\ pool' = SubSeq(pool, StackPages + 1, Len(pool))
        /\ UNCHANGED main
     \/ /\ Len(pool) < StackPages
        /\ pool' = <<>> /\ job' = NoJob
        /\ main' \in {main, "wild"}
  /\ UNCHANGED <<mem, callVars, ram, stackVars, tasks, threads>>

(* An idle task's stack pages are taken when the walk comes to them. *)
MapStack ==
  /\ JobAt("map_stack")
  /\ Ask(LowAddress(job.id), StackPages,
         IF Idle THEN [Linear(0) EXCEPT !.kind = "idle"] ELSE List(job.pages))
  /\ job' = [job EXCEPT !.at = "stack_mapped"]
  /\ UNCHANGED <<ram, main, stackVars, tasks, threads>>

(* acc_next_frame(): the task's page if it is set, else a new one. *)
MapIdleFrame ==
  /\ AtEntry({1}) /\ pacc.kind = "idle"
  /\ \/ /\ JobAt("task_mapped")
        /\ WritePte(job.ts) /\ UNCHANGED <<pool, ret, main, job>>
     \/ /\ JobAt("stack_mapped") /\ pool # <<>>
        /\ WritePte(Head(pool))
        /\ pool' = Tail(pool) /\ UNCHANGED <<ret, main, job>>
     \/ /\ JobAt("stack_mapped") /\ pool = <<>>
        /\ main' \in {"panic", "wild"} /\ job' = NoJob
        /\ walk' = <<>> /\ ret' = "wild" /\ UNCHANGED <<mem, pool>>
  /\ UNCHANGED <<pacc, req, ram, stackVars, tasks, threads>>

MapFailed == /\ ret # "OK"
             /\ IF ret = "wild" THEN main' = "wild" /\ job' = NoJob ELSE GiveUp

MapTaskStruct ==
  /\ JobAt("stack_mapped") /\ Answered
  /\ \/ /\ ret = "OK"
        /\ Ask(TaskAddress(job.id), 1,
               IF Idle THEN [Linear(0) EXCEPT !.kind = "idle"] ELSE Linear(job.ts))
        /\ job' = [job EXCEPT !.at = "task_mapped"] /\ UNCHANGED main
     \/ MapFailed /\ UNCHANGED tableVars
  /\ UNCHANGED <<ram, stackVars, tasks, threads>>

TaskMapped ==
  /\ JobAt("task_mapped") /\ Answered
  /\ \/ /\ ret = "OK"
        /\ tasks' = Append(tasks, [id |-> job.id, ts |-> job.ts])
        /\ job' = NoJob /\ UNCHANGED main
     \/ MapFailed /\ UNCHANGED tasks
  /\ UNCHANGED <<tableVars, ram, stackVars, threads>>

CreateTask ==
  \/ StartIdleTask \/ AllocTaskStruct \/ AllocateStack \/ AllocStackPages
  \/ MapStack \/ MapIdleFrame \/ MapTaskStruct \/ TaskMapped

-----------------------------------------------------------------------------
(* __map_apic_page(): its result is unsigned and never found negative. *)

MapApic ==
  /\ main = "map_apic"
  /\ Ask(ApicPage, 1, Linear(ApicPage))
  /\ main' = "apic_mapped"
  /\ UNCHANGED <<ram, taskVars>>

ApicMapped ==
  /\ main = "apic_mapped" /\ Answered
  /\ main' = IF ret = "wild" THEN "wild" ELSE "running"
  /\ UNCHANGED <<tableVars, ram, taskVars>>

Walk == MapStep /\ UNCHANGED <<ram, main, taskVars>>

Work == \/ MapDma \/ DmaMapped \/ MapDirect \/ DirectMapped
        \/ InitStackAllocator \/ CreateTask \/ MapApic \/ ApicMapped \/ Walk

Stopped == /\ \/ main \in {"panic", "wild", "halted"}
              \/ main = "running" /\ job = NoJob
           /\ UNCHANGED vars

Next == Work \/ KernelThread \/ Stopped

(* The CPU executes what it has begun; nobody has to create a thread. *)
Spec == Init /\ [][Next]_vars /\ WF_vars(Work)
-----------------------------------------------------------------------------
(* Properties *)

(* Every variable keeps the kind of value its C type and use give it. *)
TypeOK ==
  /\ PageTableTypeOK
  /\ ram \in RamSizes
  /\ main \in {"map_dma", "dma_mapped", "map_direct", "direct_mapped",
               "init_stacks", "idle_tasks", "map_apic", "apic_mapped",
               "running", "panic", "wild", "halted"}
  /\ freeItems \in 0 .. StackWords
  /\ bitmap \subseteq 0 .. StackWords * WordBits - 1
  /\ job.kind \in {"none", "idle", "thread"}
  /\ {job.id, threads} \subseteq Nat
  /\ job.ts \in Frames /\ job.pages \in Seq(Frames)
  /\ tasks \in Seq([id : Nat, ts : Frames])

Remapped == main \in {"init_stacks", "idle_tasks", "map_apic", "apic_mapped",
                      "running", "halted"}

(* Once memory is remapped and verified, every frame stays where           *)
(* pframe_to_virt() looks for it, the first pages keep their one-to-one    *)
(* mapping, and page 0 is never mapped, so that a NULL pointer faults,     *)
(* whatever stacks, task structures and device pages are mapped later.     *)
DirectMapKept ==
  Remapped => /\ Verified(KernelBase, ram, 0)
              /\ Verified(1, DmaTotal - 1, 1)
              /\ Pin(0) = INVALID_PAGE_IDX

(* Nothing in the kernel invalidates the TLB for a page.  It need not as   *)
(* long as no step changes the translation of a mapped page.               *)
NoLiveRemap ==
  [][\A v \in 0 .. VirtPages - 1 :
       Pin(v) # INVALID_PAGE_IDX => Pin(v)' = Pin(v)]_vars

StackRange(t) == LowAddress(t.id) .. HighAddress(t.id) - 1

(* The frames a task lives in. *)
FramesOf(t) == {Pin(v) : v \in StackRange(t) \cup {TaskAddress(t.id)}}

(* The tasks of the kernel live apart: each finds its structure below its  *)
(* stack, where current_task() looks for it, has all of its stack mapped   *)
(* to frames no other task and no page table uses and alloc_page() does    *)
(* not have, and an unmapped page above its stack and one below it.        *)
TasksApart ==
  /\ \A i \in DOMAIN tasks :
       LET t == tasks[i]
       IN  /\ Pin(TaskAddress(t.id)) = t.ts
           /\ FramesOf(t) \subseteq
                Frames \ (ToSet(pool) \cup {Root} \cup Pdp3s \cup Pde2s \cup Ptes)
           /\ \A v, w \in StackRange(t) \cup {TaskAddress(t.id)} :
                Pin(v) = Pin(w) => v = w
           /\ Pin(HighAddress(t.id)) = INVALID_PAGE_IDX
           /\ StackPages + StackGap + 1 < StackStep
                => Pin(LowAddress(t.id) - 1) = INVALID_PAGE_IDX
  /\ \A i, j \in DOMAIN tasks :
       i # j => FramesOf(tasks[i]) \cap FramesOf(tasks[j]) = {}

(* The boot comes to an end, and so does every creation of a task. *)
WorkEnds == []<>(main \in {"running", "panic", "wild", "halted"} /\ job = NoJob)

-----------------------------------------------------------------------------
(* What the comments of the source say, and the code does not. *)

(* amd64/mm/mm.c: "Now we should remap all available physical memory       *)
(* starting at 'KERNEL_BASE'": with frames for the tables at hand, it is   *)
(* remapped.  The boot does not die before its first task.                 *)
AllMemoryRemapped ==
  main \in {"wild", "panic"} /\ tasks = <<>> /\ job = NoJob => pool = <<>>
=============================================================================
