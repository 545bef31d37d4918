---------------------------- MODULE MCEVMListener ----------------------------
(***************************************************************************)
(* EVMListener on one domain with four deposits: two in one block, one     *)
(* that does not unpack, one in a later window.                            *)
(***************************************************************************)
EXTENDS EVMListener

MCDomains     == {1}
MCDeposits    == 1..4
MCSourceOf    == [d \in MCDeposits |-> 1]
MCBlockOf     == [d \in MCDeposits |-> <<1, 1, 2, 4>>[d]]
MCUndecodable == {3}
MCStartBlock  == [c \in MCDomains |-> 1]

===============================================================================
