------------------------------ MODULE MCRelayer ------------------------------
(***************************************************************************)
(* Two domains. Deposit 1 is made on domain 1 for domain 2, deposit 2 in   *)
(* the second window of domain 2 for a domain nobody configured: two       *)
(* PollEvents goroutines compete for one channel.                          *)
(***************************************************************************)
EXTENDS Relayer

MCDomains     == {1, 2}
MCDeposits    == 1..2
MCSourceOf    == [d \in MCDeposits |-> <<1, 2>>[d]]
MCBlockOf     == [d \in MCDeposits |-> <<1, 2>>[d]]
MCDestOf      == [d \in MCDeposits |-> <<2, 9>>[d]]
MCUndecodable == {}
MCStartBlock  == [c \in MCDomains |-> 1]

===============================================================================
