----------------------------- MODULE MCConsole -----------------------------
(* A screen of three rows and columns, and messages that end a line,       *)
(* begin one, wrap or move the cursor about; three of the one that only    *)
(* ends lines leave text memory.                                           *)
EXTENDS Console

MCMessages == {<<"a", "NL">>, <<"NL", "b">>, <<"a", "b">>, <<"c", "b", "a", "c">>,
               <<"TAB", "a", "BS">>, <<"BEL", "b", "CR">>, <<"NL", "NL", "NL", "NL">>}
MCIrqMessages == {<<"i">>, <<"NL", "j">>}
=============================================================================
