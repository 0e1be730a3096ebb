---------------------------- MODULE MCPageFrames ----------------------------
(* Small memory maps for PageFrames.  A page is four units, the kernel     *)
(* starts in page 2, the DMA zone ends before page 5.                      *)
EXTENDS PageFrames

Use(base, len) == [base |-> base, len |-> len, usable |-> TRUE]
Res(base, len) == [base |-> base, len |-> len, usable |-> FALSE]

Maps == {
  (* page aligned and in order: low memory, main memory *)
  <<Use(0, 8), Use(8, 48)>>,
  (* low memory, a ROM, main memory large enough that the zone is split *)
  <<Use(0, 4), Res(4, 4), Use(8, 80), Res(88, 8)>>,
  (* the usual PC: a partial page, a hole, reserved BIOS, unaligned end *)
  <<Use(0, 3), Res(3, 1), Res(6, 2), Use(8, 50), Res(58, 6)>>,
  (* a hole right below the main record and two records behind it *)
  <<Use(0, 4), Use(8, 36), Res(44, 4), Use(52, 8)>>,
  (* a record inside one page, which the scan never gets past *)
  <<Use(0, 4), Res(5, 2), Use(8, 40)>>,
  (* out of order *)
  <<Use(8, 40), Use(0, 8)>>,
  (* not starting at 0: the first record is passed over *)
  <<Use(4, 4), Use(8, 36)>>,
  (* so little memory that the zone holds one frame, or none *)
  <<Use(0, 8), Use(8, 20)>>,
  <<Use(0, 8), Use(8, 8)>>,
  (* usable records that begin inside a page and share it *)
  <<Use(0, 5), Use(6, 2), Use(8, 40)>>,
  (* no record at the kernel's address *)
  <<Use(0, 8), Use(12, 40)>>
}
=============================================================================
