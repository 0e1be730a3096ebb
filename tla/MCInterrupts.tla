---------------------------- MODULE MCInterrupts ----------------------------
(* Two chips of four lines each: the timer, a master line nobody may have  *)
(* registered, and a line of the slave.                                    *)
EXTENDS Interrupts
=============================================================================
