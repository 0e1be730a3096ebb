------------------------------ MODULE FramePool ------------------------------
(***************************************************************************)
(* What a caller of alloc_page() may rely on: a frame it gets was in the   *)
(* pool and is nobody else's, frames are put into the pool only before the *)
(* first is taken, and NULL means that the pool is empty.  The promise     *)
(* ends when a request finds the pool empty and does not get NULL.         *)
(***************************************************************************)
EXTENDS Integers

CONSTANT Frames

VARIABLES
  pool,      (* frames that can be taken                                   *)
  owned,     (* frames that were taken                                     *)
  last,      (* the last answer: a frame, Empty or Other                   *)
  exhausted  (* a request was answered with something that is not a frame  *)

vars == <<pool, owned, last, exhausted>>

Empty == -1
Other == -2

Init == pool = {} /\ owned = {} /\ last = Other /\ exhausted = FALSE

Stock(f) ==
  /\ owned = {} /\ last = Other /\ f \notin pool
  /\ pool' = pool \cup {f}
  /\ UNCHANGED <<owned, last, exhausted>>

Take(f) ==
  /\ f \in pool
  /\ pool' = pool \ {f}
  /\ owned' = owned \cup {f}
  /\ last' = f
  /\ UNCHANGED exhausted

(* NULL for a request the allocator could have served only from the pool. *)
FindEmpty ==
  /\ pool = {}
  /\ last' = Empty
  /\ UNCHANGED <<pool, owned, exhausted>>

(* A request for a kind of memory the pool does not keep. *)
Refuse == last' = Other /\ UNCHANGED <<pool, owned, exhausted>>

Exhaust ==
  /\ pool = {} /\ ~exhausted
  /\ exhausted' = TRUE
  /\ last' = Other
  /\ UNCHANGED <<pool, owned>>

Next == \/ \E f \in Frames : Stock(f) \/ Take(f)
        \/ FindEmpty \/ Refuse \/ Exhaust

Spec == Init /\ [][Next]_vars
=============================================================================
