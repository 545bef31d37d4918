-------------------------------- MODULE Numbers --------------------------------
(***************************************************************************)
(* External: what Go's math/big computes, as far as transfers and fees use *)
(* it.                                                                     *)
(***************************************************************************)
EXTENDS Integers

\* b^k
Power(b, k) == LET p[i \in Nat] == IF i = 0 THEN 1 ELSE b * p[i - 1] IN p[k]

\* BitLen
BitLen[n \in Nat] == IF n = 0 THEN 0 ELSE 1 + BitLen[n \div 2]

===============================================================================
