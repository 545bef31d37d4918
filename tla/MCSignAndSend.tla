---------------------------- MODULE MCSignAndSend ----------------------------
(***************************************************************************)
(* SignAndSend with four calls.                                            *)
(***************************************************************************)
EXTENDS SignAndSend

MCCalls == 1..4

===============================================================================
