------------------------------ MODULE MapCalls ------------------------------
(***************************************************************************)
(* mm_map_pages() in the hands of any caller: calls of it one after the    *)
(* other, with any arguments and at any place of the address space.        *)
(***************************************************************************)
EXTENDS PageTable

CONSTANTS
  PoolSizes,  (* how many frames alloc_page() may have left                *)
  Requests,   (* what the callers ask for                                  *)
  MaxCalls    (* bound: calls                                              *)

ASSUME CallsAssumption ==
  /\ \A n \in PoolSizes : n \in Nat /\ 1 .. n \subseteq Frames \ {Root}
  /\ Requests \subseteq Request
  /\ MaxCalls \in Nat

VARIABLE calls

vars == <<tableVars, calls>>

Init == /\ \E n \in PoolSizes : InitTables([i \in 1 .. n |-> i])
        /\ calls = 0

Call == /\ calls < MaxCalls /\ calls' = calls + 1
        /\ \E r \in Requests : MapPages(r)

Step == MapStep /\ UNCHANGED calls

Stopped == /\ ret = "wild" \/ (calls = MaxCalls /\ walk = <<>>)
           /\ UNCHANGED vars

Next == Call \/ Step \/ Stopped

(* The CPU goes on with a call it has begun; nobody has to call. *)
Spec == Init /\ [][Next]_vars /\ WF_vars(Step)
-----------------------------------------------------------------------------
(* Every variable keeps the kind of value its C type and use give it. *)
TypeOK == PageTableTypeOK /\ calls \in Nat

(* Creating tables, crossing from one to the next and failing half way do  *)
(* not show: the translation changes by exactly the pages of the request,  *)
(* in order, and 0 means that all of them are mapped.                      *)
MapsTheRequest == Translation!Spec

(* Every call of mm_map_pages() comes to its end. *)
CallEnds == ret = "running" ~> ret # "running"
=============================================================================
