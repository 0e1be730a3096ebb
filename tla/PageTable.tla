----------------------------- MODULE PageTable -----------------------------
(***************************************************************************)
(* Page tables of eza/amd64/mm/pt.c: mm_map_pages(), which walks four      *)
(* levels of tables and creates the missing ones, mm_pin_virtual_address() *)
(* and the page accessors of mm/pageaccs.c.                                *)
(*                                                                         *)
(* Addresses are counted in pages: every caller passes page-aligned ones.  *)
(* The bits above the fourth level, which repeat its sign, are left out,   *)
(* so the address space has Entries^4 pages and its arithmetic wraps       *)
(* there.  Of an entry its presence and its frame are kept.  A table is a  *)
(* page frame, reached through the direct mapping.  The nested calls       *)
(* map_pml4_range() .. map_pde2_range() are a stack of activation records, *)
(* one loop iteration a step.  Tables are touched by one task at a time:   *)
(* the boot, then whoever runs; no interrupt handler maps pages.           *)
(***************************************************************************)
EXTENDS Integers, Sequences, SequencesExt

CONSTANTS
  Entries,    (* PTE_ENTRIES_PER_PAGE                                      *)
  Frames,     (* page frames of RAM                                        *)
  Root        (* the frame of pd->entries                                  *)

(* The range of an entry of each level, in pages; 4 is the PML4. *)
EntryRange == <<1, Entries, Entries * Entries, Entries * Entries * Entries>>
VirtPages  == Entries * EntryRange[4]
Levels     == 1 .. 4
Slots      == 0 .. Entries - 1

INVALID_PAGE_IDX == -1
Absent == -2                               (* an entry that is not present *)

ASSUME TableAssumption ==
  /\ Entries \in Nat /\ Entries > 1
  /\ Frames \subseteq Nat /\ Root \in Frames

(* A page accessor with its context: the linear one counts from next, the  *)
(* list one takes the frames of left; that of the idle tasks is theirs.    *)
Accessor == [kind : {"linear", "list", "idle"}, next : Nat, left : Seq(Nat)]

Linear(first) == [kind |-> "linear", next |-> first, left |-> <<>>]
List(frames)  == [kind |-> "list", next |-> 0, left |-> frames]

(* The arguments of mm_map_pages(); of the flags, whether PF_KERNEL_PAGE   *)
(* is among them.                                                          *)
Request == [virt : 0 .. VirtPages - 1, num : Nat, kernel : BOOLEAN,
            pacc : Accessor]

VARIABLES
  mem,     (* what the page frames hold, seen as tables                    *)
  pool,    (* the frames alloc_page() has, in order                        *)
  walk,    (* activation records of the range functions, innermost last    *)
  pacc,    (* the accessor of the current call                             *)
  req,     (* its other arguments                                          *)
  ret      (* what the last mm_map_pages() returned; "running" during one  *)

callVars  == <<walk, pacc, req, ret>>
tableVars == <<mem, pool, callVars>>

(* Frames hold anything until they are cleaned. *)
Garbage == [i \in Slots |-> 0]
Cleared == [i \in Slots |-> Absent]

InitTables(frames) ==
  /\ mem = [f \in Frames |-> IF f = Root THEN Cleared ELSE Garbage]
  /\ pool = frames
  /\ walk = <<>> /\ pacc = Linear(0)
  /\ req = [virt |-> 0, num |-> 0, kernel |-> FALSE]
  /\ ret = "OK"

-----------------------------------------------------------------------------
(* Addresses *)

Wrap(a) == a % VirtPages

(* Mutant: the bits of the levels above are not masked away. *)
Index_Unmasked(v, level) == v \div EntryRange[level]

(* (virt_addr >> ..) & 0x1ff *)
Index(v, level) == (v \div EntryRange[level]) % Entries

(* (virt_addr + RANGE) & MASK: where the next entry of the level begins. *)
NextBoundary(v, level) ==
  (Wrap(v + EntryRange[level]) \div EntryRange[level]) * EntryRange[level]

-----------------------------------------------------------------------------
(* Activation records.  index is the position of pml4, pdp3, pde2 or pte   *)
(* in its table; more says that the loop runs (again).                     *)

Enter(level, table, from, to) ==
  [level |-> level, table |-> table, index |-> Index(from, level),
   virt |-> from, end |-> to, length |-> Wrap(to - from), more |-> TRUE]

Top   == walk[Len(walk)]
Entry == mem[Top.table][Top.index]
SetTop(record) == [walk EXCEPT ![Len(walk)] = record]

(* A loop of a level above the PTEs is at an entry. *)
AtEntry(levels) == walk # <<>> /\ Top.more /\ Top.level \in levels

(* The pointers are only ever incremented, past the table if need be. *)
InTable == Top.index < Entries

(* to_addr: the end of the entry's range, but not for the last PML4 entry. *)
ToAddr ==
  LET all   == Wrap(Top.virt + Top.length)
      bound == NextBoundary(Top.virt, Top.level)
  IN  IF all > bound /\ (Top.level = 4 => Top.virt < VirtPages - EntryRange[4])
        THEN bound ELSE all

(* Mutant: the pointer stays where it is. *)
NextIndex_Same(index) == index

(* pml4++, pdp3++, pde2++ *)
NextIndex(index) == index + 1

(* The rest of an iteration once the range below the entry is mapped.  The *)
(* loop of mm_map_pages() has a break at its end.                          *)
Advance(to) ==
  [Top EXCEPT !.virt = to, !.index = NextIndex(@),
              !.length = Wrap(@ - Wrap(to - Top.virt)),
              !.more = Top.level # 4 /\ to < Top.end]

-----------------------------------------------------------------------------
(* mm_map_pages() *)

(* Argument checks; the end of the address space itself overflows to 0. *)
Acceptable(r) ==
  /\ r.num # 0 /\ r.virt # 0
  /\ Wrap(r.virt + r.num) >= r.virt

MapPages(r) ==
  /\ ret \notin {"running", "wild"}
  /\ req' = [virt |-> r.virt, num |-> r.num, kernel |-> r.kernel]
  /\ pacc' = r.pacc
  /\ IF Acceptable(r)
       THEN /\ walk' = <<Enter(4, Root, r.virt, Wrap(r.virt + r.num))>>
            /\ ret' = "running"
       ELSE ret' = "EINVAL" /\ UNCHANGED walk
  /\ UNCHANGED <<mem, pool>>

(* Mutant: the new table is not cleaned. *)
NewTable_Unclean(frame) == mem[frame]

(* alloc_page() with clean_page = 1 *)
NewTable(frame) == Cleared

(* The flags of the mapping are passed to alloc_page(), for which the bit  *)
(* of PF_KERNEL_PAGE is PAF_DMA_PAGE: it returns NULL.                     *)
DmaRequest == req.kernel

(* populate_pml4_entry(), populate_pdp3_entry(), populate_pde2_entry() *)
Populate ==
  /\ AtEntry({2, 3, 4}) /\ InTable /\ Entry = Absent
  /\ pool # <<>> /\ ~DmaRequest
  /\ LET f == Head(pool)
     IN  mem' = [mem EXCEPT ![f] = NewTable(f), ![Top.table][Top.index] = f]
  /\ pool' = Tail(pool)
  /\ UNCHANGED callVars

(* All callers pass -ENOMEM on and leave what is mapped.  A dry            *)
(* alloc_page() is taken at its word (NULL) or, as PageFrames shows, does  *)
(* not come back.                                                          *)
PopulateFails ==
  /\ AtEntry({2, 3, 4}) /\ InTable /\ Entry = Absent
  /\ pool = <<>> \/ DmaRequest
  /\ walk' = <<>>
  /\ ret' \in IF DmaRequest THEN {"ENOMEM"} ELSE {"ENOMEM", "wild"}
  /\ UNCHANGED <<mem, pool, pacc, req>>

(* The call of the next range function. *)
Descend ==
  /\ AtEntry({2, 3, 4}) /\ InTable /\ Entry # Absent
  /\ walk' = Append(SetTop(Advance(ToAddr)),
                    Enter(Top.level - 1, Entry, Top.virt, ToAddr))
  /\ UNCHANGED <<mem, pool, pacc, req, ret>>

(* What lies behind a table is read and written as if it were a table; of  *)
(* what follows nothing is claimed.                                        *)
Overrun ==
  /\ AtEntry({2, 3, 4}) /\ ~InTable
  /\ walk' = <<>> /\ ret' = "wild"
  /\ UNCHANGED <<mem, pool, pacc, req>>

(* linear_pa_next_frame() and list_pa_next_frame() *)
FrameOf(a) ==
  CASE a.kind = "linear"                 -> a.next
    [] a.kind = "list" /\ a.left # <<>>  -> Head(a.left)
    [] OTHER                             -> INVALID_PAGE_IDX

Used(a) ==
  CASE a.kind = "linear"                 -> [a EXCEPT !.next = @ + 1]
    [] a.kind = "list" /\ a.left # <<>>  -> [a EXCEPT !.left = Tail(@)]
    [] OTHER                             -> a

(* Mutant: the address is not advanced. *)
PagesDone_None == 0

(* virt_addr += L1_ENTRY_RANGE *)
PagesDone == 1

(* An iteration of map_pde2_range() writes the entry of a page. *)
WritePte(frame) ==
  LET next == Wrap(Top.virt + PagesDone)
  IN  /\ mem' = [mem EXCEPT ![Top.table][Top.index] = frame]
      /\ walk' = SetTop([Top EXCEPT !.virt = next, !.index = Index(next, 1),
                                    !.more = next < Top.end])

MapPde2Range ==
  /\ AtEntry({1}) /\ pacc.kind # "idle"
  /\ WritePte(FrameOf(pacc))
  /\ pacc' = Used(pacc)
  /\ UNCHANGED <<pool, req, ret>>

(* A range function returns 0. *)
Return ==
  /\ walk # <<>> /\ ~Top.more
  /\ walk' = Front(walk)
  /\ ret' = IF Len(walk) = 1 THEN "OK" ELSE ret
  /\ UNCHANGED <<mem, pool, pacc, req>>

MapStep == \/ Populate \/ PopulateFails \/ Descend \/ Overrun
           \/ MapPde2Range \/ Return

-----------------------------------------------------------------------------
(* mm_pin_virtual_address() *)

EntryAt(table, v, level) ==
  IF table \in Frames THEN mem[table][Index(v, level)] ELSE Absent

Pin(v) ==
  LET pdp3 == EntryAt(Root, v, 4)
      pde2 == EntryAt(pdp3, v, 3)
      pt   == EntryAt(pde2, v, 2)
      pte  == EntryAt(pt, v, 1)
  IN  IF pte = Absent THEN INVALID_PAGE_IDX ELSE pte

-----------------------------------------------------------------------------
(* Properties *)

(* Every variable keeps the kind of value its C type and use give it; a    *)
(* pointer into a table goes one entry past its end and not further.       *)
PageTableTypeOK ==
  /\ mem \in [Frames -> [Slots -> Int]]
  /\ pool \in Seq(Frames)
  /\ walk \in Seq([level : Levels, table : Frames, index : 0 .. Entries,
                   virt : 0 .. VirtPages - 1, end : 0 .. VirtPages - 1,
                   length : 0 .. VirtPages - 1, more : BOOLEAN])
  /\ pacc \in Accessor
  /\ req \in [virt : 0 .. VirtPages - 1, num : Nat, kernel : BOOLEAN]
  /\ ret \in {"OK", "EINVAL", "ENOMEM", "running", "wild"}

(* The tables of a level: the root, and what the level above points to. *)
Below(tables) == {mem[t][i] : t \in tables, i \in Slots} \ {Absent}
Pdp3s == Below({Root})
Pde2s == Below(Pdp3s)
Ptes  == Below(Pde2s)

(* The tables form a tree, at every step of every sequence of calls, also  *)
(* after a failed one: each is a frame of its own that one entry points    *)
(* to, and is not in the hands of alloc_page() any more.  Otherwise one    *)
(* mapping would show up at two places.                                    *)
TablesFormTree ==
  /\ Pdp3s \cup Pde2s \cup Ptes \subseteq Frames \ ({Root} \cup ToSet(pool))
  /\ Pdp3s \cap Pde2s = {} /\ Pde2s \cap Ptes = {} /\ Pdp3s \cap Ptes = {}
  /\ \A s, t \in {Root} \cup Pdp3s \cup Pde2s : \A i, j \in Slots :
       <<s, i>> # <<t, j>> /\ mem[s][i] # Absent => mem[s][i] # mem[t][j]

(* The pages from v up to e with the frames that an accessor p has for     *)
(* them.                                                                   *)
Pairs(v, e, p) ==
  [i \in 1 .. e - v |->
     <<v + i - 1, IF p.kind = "linear" THEN p.next + i - 1
                  ELSE IF i <= Len(p.left) THEN p.left[i]
                  ELSE INVALID_PAGE_IDX>>]

(* What is left of the request, read off the innermost record. *)
StillToMap ==
  IF walk = <<>> THEN <<>> ELSE Pairs(Top.virt, req.virt + req.num, pacc)

Translation ==
  INSTANCE AddressSpace WITH
    Pages <- 0 .. VirtPages - 1, FrameIndexes <- Int,
    Unmapped <- INVALID_PAGE_IDX,
    map <- [v \in 0 .. VirtPages - 1 |-> Pin(v)],
    todo <- StillToMap, status <- ret
=============================================================================
