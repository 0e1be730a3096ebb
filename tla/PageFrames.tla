----------------------------- MODULE PageFrames -----------------------------
(***************************************************************************)
(* The page frame allocator: build_page_array() of mm/mm.c, which turns    *)
(* the BIOS memory map into two zones of frames and fills the per-CPU page *)
(* caches, and alloc_page() of mm/pagealloc.c, which serves every          *)
(* allocation of the kernel from the cache of CPU 0.                       *)
(*                                                                         *)
(* Addresses are counted in units of which PageSize make a page, so that   *)
(* the masking of unaligned map records is visible.  The intrusive lists   *)
(* of eza/list.h are sequences of frame numbers; the one state in which    *)
(* the C list is no longer a list (its head was unlinked as if it were an  *)
(* entry) is cacheHead = "poisoned".  Loops advance one iteration a step.  *)
(***************************************************************************)
EXTENDS Integers, Sequences, SequencesExt

CONSTANTS
  E820Tables,      (* the memory maps the BIOS may report                  *)
  PageSize,        (* units per page                                       *)
  AddrSpace,       (* 2^64: the modulus of address arithmetic              *)
  KernelStartPage, (* KERNEL_PHYS_START / PAGE_SIZE                        *)
  KernelImageSize, (* units of kernel text and data, up to kdata_end       *)
  FrameDescSize,   (* sizeof(page_frame_t)                                 *)
  DmaPages,        (* dma_pages: MB(16) / PAGE_SIZE                        *)
  MinPhysMemory,   (* MIN_PHYS_MEMORY_REQUIRED                             *)
  NrCpus           (* NR_CPUS                                              *)

(* A record of e820table; usable stands for type = E820_USABLE. *)
E820Record == [base : Nat, len : Nat, usable : BOOLEAN]

ASSUME SizesAssumption ==
  /\ PageSize \in Nat \ {0}
  /\ {AddrSpace, KernelStartPage, KernelImageSize, FrameDescSize, DmaPages,
      MinPhysMemory} \subseteq Nat
  /\ FrameDescSize <= PageSize
  /\ NrCpus \in Nat \ {0}

ASSUME MapsAssumption == E820Tables \subseteq Seq(E820Record)

ZONE_DMA    == 0
ZONE_NORMAL == 1
Zones       == {ZONE_DMA, ZONE_NORMAL}
Cpus        == 0 .. NrCpus - 1

(* The list heads a frame can be linked to. *)
PagesOf(z)    == <<"pages", z>>
ReservedOf(z) == <<"reserved", z>>
CacheOf(c)    == <<"cache", c>>
ListHeads     == {PagesOf(z) : z \in Zones} \cup {ReservedOf(z) : z \in Zones}
                   \cup {CacheOf(c) : c \in Cpus}

NoE820 == 255                       (* e820count when the BIOS gave no map *)

VARIABLES
  pc,         (* where build_page_array() is; "ready" once it returned     *)
  e820,       (* e820table                                                 *)
  e820count,
  maxPhys,    (* max_phys_addr                                             *)
  pageIdx,    (* page_idx; curr_addr is pageIdx * PageSize                 *)
  e820id,
  justLeft,   (* just_left                                                 *)
  window,     (* mmap_begin, mmap_end and type of the current record       *)
  frames,     (* page_frames_array, as far as it is initialised            *)
  zone,       (* the counters of memory_zones                              *)
  lists,      (* every list of frames, by its head                         *)
  cpu, cpupages, p,   (* loop variables of initialize_percpu_caches()      *)
  numFree,    (* num_free_pages of each per-CPU cache                      *)
  cacheHead,  (* the list head in the cache of CPU 0                       *)
  owned,      (* frames alloc_page() unlinked and handed to a caller       *)
  result      (* what the last alloc_page() returned                       *)

scanVars  == <<maxPhys, pageIdx, e820id, justLeft, window>>
zoneVars  == <<frames, zone, lists>>
cacheVars == <<cpu, cpupages, p, numFree>>
allocVars == <<cacheHead, owned, result>>
vars == <<pc, e820, e820count, scanVars, zoneVars, cacheVars, allocVars>>

NoResult == [kind |-> "none", idx |-> 0]
NULL     == [kind |-> "null", idx |-> 0]
REFUSED  == [kind |-> "refused", idx |-> 0]  (* the NULL of a DMA request *)

Init ==
  /\ pc = "detect"
  /\ e820 \in E820Tables
  /\ e820count \in {Len(e820), NoE820}
  /\ maxPhys = 0 /\ pageIdx = 0 /\ e820id = 0 /\ justLeft = FALSE
  /\ window = [begin |-> 0, end |-> 0, usable |-> FALSE]
  /\ frames = <<>>
  /\ zone = [z \in Zones |-> [total |-> 0, free |-> 0, reserved |-> 0]]
  /\ lists = [h \in ListHeads |-> <<>>]
  /\ cpu = 0 /\ cpupages = 0 /\ p = 0
  /\ numFree = [c \in Cpus |-> 0]
  /\ cacheHead = "linked" /\ owned = {} /\ result = NoResult

-----------------------------------------------------------------------------
(* detect_physical_memory() *)

RecordEnd(r) == r.base + r.len

(* The records that can be the kernel's own memory; the first one counts. *)
MainRecords ==
  {i \in DOMAIN e820 : /\ e820[i].base = KernelStartPage * PageSize
                       /\ e820[i].usable}

(* The subtraction is unsigned and its operands are swapped in the code. *)
Insufficient(min, max) ==
  \/ max <= min
  \/ (min - max) % AddrSpace <= MinPhysMemory

MainMemory(i) ==
  /\ e820count < NoE820
  /\ i \in MainRecords /\ \A j \in MainRecords : i <= j
  /\ ~Insufficient(0, RecordEnd(e820[i]))

DetectPanics ==
  /\ pc = "detect" /\ \A i \in DOMAIN e820 : ~MainMemory(i)
  /\ pc' = "panic"
  /\ UNCHANGED <<e820, e820count, scanVars, zoneVars, cacheVars, allocVars>>

DetectMemory ==
  /\ pc = "detect"
  /\ \E i \in DOMAIN e820 : /\ MainMemory(i)
                            /\ maxPhys' = RecordEnd(e820[i])
  /\ pc' = "zones"
  /\ UNCHANGED <<e820, e820count, pageIdx, e820id, justLeft, window,
                 zoneVars, cacheVars, allocVars>>

-----------------------------------------------------------------------------
(* initialize_zones() and initialize_page_array() *)

(* Mutant: rounds up to a page boundary. *)
MaskDown_RoundsUp(a) == ((a + PageSize - 1) \div PageSize) * PageSize

MaskDown(a) == (a \div PageSize) * PageSize            (* & PAGE_ADDR_MASK *)

(* What e820table[i] of the C array holds: past the last record, zeroes. *)
RecordAt(i) ==
  IF i < e820count THEN e820[i + 1]
                   ELSE [base |-> 0, len |-> 0, usable |-> FALSE]

InitializeZones ==
  /\ pc = "zones"
  /\ zone' = [z \in Zones |-> [total |-> 0, free |-> 0, reserved |-> 0]]
  /\ lists' = [h \in ListHeads |-> IF h[1] = "cache" THEN lists[h] ELSE <<>>]
  /\ pageIdx' = 0 /\ e820id' = 0 /\ justLeft' = FALSE
  (* The first record's begin is the only one that is not masked. *)
  /\ window' = [begin  |-> RecordAt(0).base,
                end    |-> MaskDown(RecordEnd(RecordAt(0))),
                usable |-> RecordAt(0).usable]
  /\ frames' = <<>>
  /\ pc' = "scan"
  /\ UNCHANGED <<e820, e820count, maxPhys, cacheVars, allocVars>>

CurrAddr == pageIdx * PageSize
Scanning == pc = "scan" /\ CurrAddr < maxPhys

(* Mutant: the first page of every record is missed. *)
InWindow_OffByOne == window.begin < CurrAddr /\ CurrAddr < window.end

InWindow == window.begin <= CurrAddr /\ CurrAddr < window.end

ZoneOf(f) == IF f < DmaPages THEN ZONE_DMA ELSE ZONE_NORMAL

(* Mutant: forgets the frame array behind the kernel image. *)
KernelEndPage_NoArray == KernelStartPage + KernelImageSize \div PageSize

(* Last page of the kernel image and the frame array that follows it; the  *)
(* two sizes are divided one by one.                                       *)
KernelEndPage ==
  KernelStartPage + KernelImageSize \div PageSize
    + ((maxPhys \div PageSize) * FrameDescSize) \div PageSize
IsKernelPage(f) == KernelStartPage <= f /\ f <= KernelEndPage

(* The tail of one iteration: initialise the frame, link it, count it. *)
PlaceFrame(unusable) ==
  LET z    == ZoneOf(pageIdx)
      res  == unusable \/ IsKernelPage(pageIdx)
      head == IF res THEN ReservedOf(z) ELSE PagesOf(z)
  IN  /\ frames' = Append(frames, [zone |-> z, reserved |-> res])
      /\ lists' = [lists EXCEPT ![head] = Append(@, pageIdx)]
      /\ zone' = [zone EXCEPT ![z] =
                    [total    |-> @.total + 1,
                     free     |-> IF res THEN @.free ELSE @.free + 1,
                     reserved |-> IF res THEN @.reserved + 1 ELSE @.reserved]]
      /\ pageIdx' = pageIdx + 1
      /\ UNCHANGED <<pc, e820, e820count, maxPhys, e820id, window,
                     cacheVars, allocVars>>

(* The page lies in the current record. *)
ScanInRecord ==
  /\ Scanning /\ InWindow
  /\ justLeft' = FALSE
  /\ PlaceFrame(~window.usable)

(* Mutant: just_left stays unset when the map switches. *)
LeftMark_Forgotten == FALSE

(* just_left = 1 *)
LeftMark == TRUE

(* The page is the first one past the record: load the next, scan again. *)
ScanNextRecord ==
  /\ Scanning /\ ~InWindow /\ ~justLeft
  /\ justLeft' = LeftMark
  /\ IF e820id < e820count
       THEN LET next == RecordAt(e820id + 1)
            IN  /\ e820id' = e820id + 1
                /\ window' = [begin  |-> MaskDown(next.base),
                              end    |-> MaskDown(RecordEnd(next)),
                              usable |-> next.usable]
       ELSE /\ window' = [window EXCEPT !.begin = 0, !.end = 0]
            /\ UNCHANGED e820id
  /\ UNCHANGED <<pc, e820, e820count, maxPhys, pageIdx, zoneVars, cacheVars,
                 allocVars>>

(* The page is in a hole of the map: reserved. *)
ScanHole ==
  /\ Scanning /\ ~InWindow /\ justLeft
  /\ PlaceFrame(TRUE)
  /\ UNCHANGED justLeft

ScanDone ==
  /\ pc = "scan" /\ CurrAddr >= maxPhys
  /\ cpupages' = zone[ZONE_NORMAL].total \div NrCpus
  /\ cpu' = 0
  /\ pc' = "cache"
  /\ UNCHANGED <<e820, e820count, scanVars, zoneVars, p, numFree, allocVars>>

-----------------------------------------------------------------------------
(* initialize_percpu_caches() *)

NormalPages == PagesOf(ZONE_NORMAL)

CacheInit ==
  /\ pc = "cache"
  /\ lists' = [lists EXCEPT ![CacheOf(cpu)] = <<>>]
  /\ cpupages' = IF cpupages + NrCpus >= zone[ZONE_NORMAL].total
                   THEN zone[ZONE_NORMAL].total ELSE cpupages
  /\ p' = 0
  /\ pc' = "move"
  /\ UNCHANGED <<e820, e820count, scanVars, frames, zone, cpu, numFree,
                 allocVars>>

(* Mutant: list_del() forgotten, the first entry stays linked. *)
Unlink_Forgotten(list) == list

(* list_del() of the first entry *)
Unlink(list) == Tail(list)

(* Mutant: a moved frame stays in the zone's total. *)
CountMoved_TotalKept(z) ==
  [total |-> z.total, free |-> z.free - 1, reserved |-> z.reserved]

CountMoved(z) ==
  [total |-> z.total - 1, free |-> z.free - 1, reserved |-> z.reserved]

MoreToMove == p < cpupages /\ lists[NormalPages] # <<>>

(* One iteration moves one frame and counts two: p++ in the body and again *)
(* in the loop header.                                                     *)
CacheMove ==
  /\ pc = "move" /\ MoreToMove
  /\ LET f == Head(lists[NormalPages])
     IN  lists' = [lists EXCEPT ![NormalPages] = Unlink(@),
                                ![CacheOf(cpu)] = Append(@, f)]
  /\ zone' = [zone EXCEPT ![ZONE_NORMAL] = CountMoved(@)]
  /\ p' = p + 2
  /\ UNCHANGED <<pc, e820, e820count, scanVars, frames, cpu, cpupages,
                 numFree, allocVars>>

(* Mutant: the counter is set before the loop has counted. *)
CachedCount_TooEarly == 0

CachedCount == p

CacheFilled ==
  /\ pc = "move" /\ ~MoreToMove
  /\ numFree' = [numFree EXCEPT ![cpu] = CachedCount]
  /\ cpu' = IF cpu + 1 < NrCpus THEN cpu + 1 ELSE cpu
  /\ pc' = IF cpu + 1 < NrCpus THEN "cache" ELSE "ready"
  /\ UNCHANGED <<e820, e820count, scanVars, zoneVars, cpupages, p, allocVars>>

-----------------------------------------------------------------------------
(* alloc_page(flags, clean_page); cpu_id() is 0 in this configuration *)

Cache0 == CacheOf(0)

(* arch_clean_page() of NULL reads NULL->idx; page 0 is left unmapped and  *)
(* the page fault handler never returns.                                   *)
Return(r, clean) ==
  /\ result' = r
  /\ pc' = IF clean /\ r = NULL THEN "halted" ELSE "ready"

AllocUnchanged == UNCHANGED <<e820, e820count, scanVars, frames, zone, cpu,
                              cpupages, p>>

(* PAF_DMA_PAGE is never served, and returns before any cleaning. *)
AllocDma ==
  /\ pc = "ready"
  /\ Return(REFUSED, FALSE)
  /\ UNCHANGED <<lists, numFree, cacheHead, owned>> /\ AllocUnchanged

(* Mutant: lets the counter go below zero. *)
CacheHasFree_OffByOne == numFree[0] >= 0

CacheHasFree == numFree[0] > 0

AllocFrame(clean) ==
  /\ pc = "ready" /\ CacheHasFree /\ cacheHead = "linked"
  /\ lists[Cache0] # <<>>
  /\ LET f == Head(lists[Cache0])
     IN  /\ owned' = owned \cup {f}
         /\ Return([kind |-> "frame", idx |-> f], clean)
  /\ lists' = [lists EXCEPT ![Cache0] = Unlink(@)]
  /\ numFree' = [numFree EXCEPT ![0] = @ - 1]
  /\ UNCHANGED cacheHead /\ AllocUnchanged

(* The list is empty but the counter is not zero: pages.next is the head   *)
(* itself.  It is unlinked, and the page_frame_t laid over it has          *)
(* num_free_pages in the place of idx.  Cleaning zeroes the page of that   *)
(* number, and nothing is claimed after a page in use has been zeroed.     *)
AllocListHead(clean) ==
  /\ pc = "ready" /\ CacheHasFree /\ cacheHead = "linked"
  /\ lists[Cache0] = <<>>
  /\ cacheHead' = "poisoned"
  /\ numFree' = [numFree EXCEPT ![0] = @ - 1]
  /\ LET idx == numFree[0] - 1
     IN  /\ result' = [kind |-> "head", idx |-> idx]
         /\ pc' = IF clean /\ (IsKernelPage(idx) \/ idx \in owned)
                   THEN "wild" ELSE "ready"
  /\ UNCHANGED <<lists, owned>> /\ AllocUnchanged

(* pages.next is LIST_POISON1, an address inside the mapped kernel image:  *)
(* list_del() follows and overwrites whatever is there.                    *)
AllocPoisoned ==
  /\ pc = "ready" /\ CacheHasFree /\ cacheHead = "poisoned"
  /\ pc' = "wild"
  /\ UNCHANGED <<lists, numFree, allocVars>> /\ AllocUnchanged

AllocNone(clean) ==
  /\ pc = "ready" /\ ~CacheHasFree
  /\ Return(NULL, clean)
  /\ UNCHANGED <<lists, numFree, cacheHead, owned>> /\ AllocUnchanged

AllocPage ==
  \/ \E clean \in BOOLEAN : \/ AllocFrame(clean)
                            \/ AllocListHead(clean)
                            \/ AllocNone(clean)
  \/ AllocDma
  \/ AllocPoisoned

-----------------------------------------------------------------------------
BuildPageArray ==
  \/ DetectPanics \/ DetectMemory \/ InitializeZones
  \/ ScanInRecord \/ ScanNextRecord \/ ScanHole \/ ScanDone
  \/ CacheInit \/ CacheMove \/ CacheFilled

(* panic(), the page fault handler's endless loop, and whatever follows a  *)
(* write where it does not belong, of which nothing is claimed.            *)
Stopped == pc \in {"panic", "halted", "wild"} /\ UNCHANGED vars

Next == BuildPageArray \/ AllocPage \/ Stopped

(* build_page_array() runs alone, with interrupts off, on the boot CPU. *)
Spec == Init /\ [][Next]_vars /\ WF_vars(BuildPageArray)
-----------------------------------------------------------------------------
(* Properties *)

(* Every variable keeps the kind of value the C type and its use give it. *)
TypeOK ==
  /\ pc \in {"detect", "zones", "scan", "cache", "move", "ready", "panic",
             "halted", "wild"}
  /\ e820 \in Seq(E820Record)
  /\ e820count \in Nat
  /\ {maxPhys, pageIdx, e820id, cpupages, p} \subseteq Nat
  /\ justLeft \in BOOLEAN
  /\ window \in [begin : Nat, end : Nat, usable : BOOLEAN]
  /\ frames \in Seq([zone : Zones, reserved : BOOLEAN])
  /\ zone \in [Zones -> [total : Nat, free : Nat, reserved : Nat]]
  /\ lists \in [ListHeads -> Seq(Nat)]
  /\ cpu \in Cpus
  /\ numFree \in [Cpus -> Nat]
  /\ cacheHead \in {"linked", "poisoned"}
  /\ owned \subseteq Nat
  /\ result \in [kind : {"none", "null", "refused", "frame", "head"}, idx : Nat]

(* The frames linked to a list head. *)
FramesOn(h) == ToSet(lists[h])

(* build_page_array() and alloc_page() never lose a frame and never have   *)
(* it twice: every initialised frame is on exactly one list, once, or with *)
(* exactly one caller of alloc_page().                                     *)
FramesPartitioned ==
  /\ \A h \in ListHeads : IsInjective(lists[h])
  /\ \A h \in ListHeads : FramesOn(h) \cap owned = {}
  /\ \A h, g \in ListHeads : h # g => FramesOn(h) \cap FramesOn(g) = {}
  /\ 0 .. pageIdx - 1 = owned \cup UNION {FramesOn(h) : h \in ListHeads}

(* The counters of a zone are the lengths of its lists, also while frames  *)
(* move from the zone to the per-CPU caches.                               *)
ZoneCountersExact ==
  \A z \in Zones :
    /\ zone[z].free = Len(lists[PagesOf(z)])
    /\ zone[z].reserved = Len(lists[ReservedOf(z)])
    /\ zone[z].total = zone[z].free + zone[z].reserved

(* What alloc_page() may hand out, now or later. *)
Pool == owned \cup UNION {FramesOn(CacheOf(c)) : c \in Cpus}

(* Where page_frames_array ends: it begins at kdata_end and has an entry   *)
(* for every page the scan has initialised.                                *)
KernelTop == KernelStartPage * PageSize + KernelImageSize
               + Len(frames) * FrameDescSize

(* A page that holds a unit of the kernel's text and data. *)
HoldsImage(f) == /\ KernelStartPage <= f
                 /\ f * PageSize < KernelStartPage * PageSize + KernelImageSize

(* A page that holds a unit of the kernel image or of the frame array. *)
HoldsKernel(f) == /\ KernelStartPage <= f
                  /\ f * PageSize < KernelTop

(* What kernel_end_page leaves out: the remainders of its two divisions,   *)
(* and the entry of a last page that max_phys_addr does not fill.          *)
LeftOut ==
  LET entries == maxPhys \div PageSize
  IN  (KernelImageSize % PageSize) + ((entries * FrameDescSize) % PageSize)
        + (Len(frames) - entries) * FrameDescSize

(* alloc_page() never hands out a page of the DMA zone or of the kernel    *)
(* image.  Of the frame array behind the image it may hand out only what   *)
(* initialize_page_array() loses in the rounding of kernel_end_page:       *)
(* nothing where that fits in the one page it counts too many, and at most *)
(* the next two pages otherwise.                                           *)
PoolAvoidsKernelAndDma ==
  \A f \in Pool :
    /\ f >= DmaPages
    /\ ~HoldsImage(f)
    /\ HoldsKernel(f) => LeftOut > PageSize /\ f <= KernelEndPage + 2

(* A page every unit of which some usable record of the map covers. *)
PageIsRam(f) ==
  \A a \in f * PageSize .. (f + 1) * PageSize - 1 :
    \E i \in DOMAIN e820 : /\ e820[i].usable
                           /\ e820[i].base <= a
                           /\ a < RecordEnd(e820[i])

(* A usable record covers the page up to its end, from the record's begin  *)
(* on if that lies inside the page.                                        *)
EndsInRam(f) ==
  \E i \in DOMAIN e820 : /\ e820[i].usable
                         /\ e820[i].base < (f + 1) * PageSize
                         /\ (f + 1) * PageSize <= RecordEnd(e820[i])

(* However the records are aligned and ordered, the rescan of the map in   *)
(* initialize_page_array() takes no page for free memory that a record     *)
(* covers only to its middle, or that none covers.  More does not hold:    *)
(* a begin is rounded down too, so where a usable record begins inside a   *)
(* page, the units of the page below it are free memory that is not RAM.   *)
FreeIsRam ==
  \A f \in Pool \cup UNION {FramesOn(PagesOf(z)) : z \in Zones} : EndsInRam(f)

(* A map whose records are page aligned, in order, apart and start at 0. *)
RegularMap ==
  /\ e820[1].base = 0
  /\ \A i \in DOMAIN e820 : /\ e820[i].base % PageSize = 0
                            /\ e820[i].len % PageSize = 0
                            /\ e820[i].len > 0
  /\ \A i, j \in DOMAIN e820 : i < j => RecordEnd(e820[i]) <= e820[j].base

(* On such a map the one-step-back of the `continue' in                    *)
(* initialize_page_array() skips nothing: only pages that are not RAM, or  *)
(* are the kernel's, are reserved.                                         *)
NoRamLost ==
  RegularMap => \A f \in 0 .. pageIdx - 1 :
                  frames[f + 1].reserved => ~PageIsRam(f) \/ IsKernelPage(f)

(* The counter alloc_page() trusts never says less than the list holds, so *)
(* an allocation is not refused while frames are left in the cache.        *)
CounterCoversCache ==
  \A c \in Cpus :
    /\ (pc \notin {"cache", "move"} \/ c < cpu) =>
         Len(lists[CacheOf(c)]) <= numFree[c]
    /\ (pc = "move" /\ c = cpu) => Len(lists[CacheOf(c)]) <= p

(* The scan ends although an iteration may leave its page where it was,    *)
(* and with it build_page_array(): the page allocator comes up or panics.  *)
BootEnds == <>(pc \in {"ready", "panic"})

(* The frame numbers that any of the maps can give rise to. *)
FrameNumbers ==
  UNION {UNION {0 .. RecordEnd(m[i]) \div PageSize : i \in DOMAIN m} :
           m \in E820Tables}

(* alloc_page() is a pool of frames for as long as the pool holds one. *)
PoolView ==
  INSTANCE FramePool WITH
    Frames    <- FrameNumbers,
    pool      <- FramesOn(Cache0),
    owned     <- owned,
    last      <- CASE result.kind = "frame" -> result.idx
                   [] result.kind = "null"  -> -1
                   [] OTHER                 -> -2,
    exhausted <- cacheHead = "poisoned"


(* Until the cache of CPU 0 runs dry, alloc_page() implements FramePool:   *)
(* each frame it returns was in the pool, was never returned before, and   *)
(* NULL is returned only when nothing is left.                             *)
PoolRefinement == PoolView!Spec

-----------------------------------------------------------------------------
(* What the comments and messages of the source say, and the code does not. *)

(* mm/pagealloc.h: "Valid virtual address of a newly-allocated memory page *)
(* or NULL": a page that is returned was free in the cache.                *)
AllocReturnsFreeFrame ==
  [][result' # result /\ result'.kind \in {"frame", "head"}
       => result'.idx \in FramesOn(Cache0)]_vars

(* mm/mm.c: kernel_end_page is to hold "kernel image size + page frame     *)
(* array itself", so that the scan has "taken into account kernel pages":  *)
(* none of them is ever free for alloc_page().  kernel.ld.S does not align *)
(* kdata_end, and the two quotients are rounded down one by one.           *)
KernelPagesReserved == \A f \in Pool : ~HoldsKernel(f)
=============================================================================
