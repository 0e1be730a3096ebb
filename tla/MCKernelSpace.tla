--------------------------- MODULE MCKernelSpace ---------------------------
(* Tables of eight entries and the kernel's own stack layout.  KERNEL_BASE *)
(* is two entries of the third level below the end, as on the machine, so  *)
(* that one of them (there a gigabyte) holds 64 pages; 66 pages of memory  *)
(* are more than it holds.                                                 *)
EXTENDS KernelSpace

Ram        == 0 .. 65
LayoutBase == VirtPages - 2 * EntryRange[3]
=============================================================================
