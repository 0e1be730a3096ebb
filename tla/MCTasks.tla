------------------------------ MODULE MCTasks ------------------------------
(* Small XMM images and short waits.  The exceptions are the NMI, two that *)
(* return, one that returns over an error code and one that stops.         *)
EXTENDS Tasks

MCAgain   == [idle |-> 1, thread |-> 2]
MCVectors == {2, 12, 14, 16}
=============================================================================
