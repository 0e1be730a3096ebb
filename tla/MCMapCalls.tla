----------------------------- MODULE MCMapCalls -----------------------------
(* Tables of two entries: an address space of 16 pages, 8 to an entry of   *)
(* the PML4 and 4 to one of the next level.                                *)
EXTENDS MapCalls

Ask(virt, num, accessor) ==
  [virt |-> virt, num |-> num, kernel |-> FALSE, pacc |-> accessor]

Flagged(virt, num) ==
  [virt |-> virt, num |-> num, kernel |-> TRUE, pacc |-> Linear(60)]

(* The kernel asks for pages within one PML4 entry and, with less than a   *)
(* gigabyte of memory, below the last range of the next level: elsewhere   *)
(* mm_map_pages() does not keep its promise.                               *)
Regular(r) ==
  LET last == r.virt + r.num - 1
  IN  r.num = 0 \/ (/\ last < VirtPages - EntryRange[3]
                    /\ Index(r.virt, 4) = Index(last, 4))

RegularRequests ==
  {r \in {Ask(v, n, Linear(20 + 4 * v)) :
            v \in 0 .. VirtPages - 1, n \in 0 .. 4} : Regular(r)}
    \cup {Ask(6, 2, List(<<31, 35>>)), Ask(9, 3, List(<<40, 38, 39>>)),
          Ask(14, 2, Linear(1))}      (* refused: ends at the last address *)
    \cup {Flagged(3, 2)}
=============================================================================
