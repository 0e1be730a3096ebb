---------------------------- MODULE AddressSpace ----------------------------
(***************************************************************************)
(* What a caller of mm_map_pages() may rely on: the pages of the request   *)
(* are mapped one after the other, each to the frame the accessor has for  *)
(* it, nothing else is ever mapped, unmapped or moved, and 0 is returned   *)
(* only when the whole request is mapped.  An error may leave the pages    *)
(* before it mapped.                                                       *)
(***************************************************************************)
EXTENDS Integers, Sequences

CONSTANTS Pages, FrameIndexes, Unmapped

VARIABLES
  map,     (* the frame of each virtual page, or Unmapped                  *)
  todo,    (* <<page, frame>> of what is still to be mapped                *)
  status   (* of the last request                                          *)

vars == <<map, todo, status>>

Init == /\ map = [v \in Pages |-> Unmapped]
        /\ todo = <<>> /\ status = "OK"

(* A request is for consecutive pages. *)
Ask ==
  /\ status \notin {"running", "wild"}
  /\ status' = "running"
  /\ todo' \in Seq(Pages \X FrameIndexes) /\ todo' # <<>>
  /\ \A i \in 1 .. Len(todo') - 1 : todo'[i + 1][1] = todo'[i][1] + 1
  /\ UNCHANGED map

Refuse == /\ status \notin {"running", "wild"}
          /\ status' = "EINVAL"
          /\ UNCHANGED <<map, todo>>

MapNext ==
  /\ todo # <<>>
  /\ map' = [map EXCEPT ![todo[1][1]] = todo[1][2]]
  /\ todo' = Tail(todo)
  /\ UNCHANGED status

Finish == /\ status = "running" /\ todo = <<>>
          /\ status' = "OK"
          /\ UNCHANGED <<map, todo>>

(* No frame for a table: an error, or the end of the kernel.               *)
GiveUp == /\ status = "running"
          /\ status' \in {"ENOMEM", "wild"} /\ todo' = <<>>
          /\ UNCHANGED map

Next == Ask \/ Refuse \/ MapNext \/ Finish \/ GiveUp

Spec == Init /\ [][Next]_vars
=============================================================================
