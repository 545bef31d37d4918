--------------------------- MODULE MCITXTransactor ---------------------------
(***************************************************************************)
(* ITXTransactor with four calls, and with two where one error suffices.   *)
(***************************************************************************)
EXTENDS ITXTransactor

MCCalls  == 1..4
FewCalls == 1..2

===============================================================================
