--------------------------- MODULE MCSubstrateChain ---------------------------
(***************************************************************************)
(* Three blocks that decode, the second with a runtime upgrade, and one    *)
(* that does not. A message from an EVM chain and one from another         *)
(* Substrate chain, which has no type.                                     *)
(***************************************************************************)
EXTENDS SubstrateChain

MCDeposits   == 1..5
MCBlockOf    == [d \in MCDeposits |-> <<0, 0, 0, 1, 2>>[d]]
MCKindOf     == [d \in MCDeposits |->
                   <<"fungible", "nonFungible", "generic", "fungible", "fungible">>[d]]
MCRegistered == {"fungible", "nonFungible"}
MCHandled    == {"fungible", "generic"}
MCMessages   == {"fromEVM", "fromSubstrate"}
MCTypeOf     == [m \in MCMessages |-> IF m = "fromEVM" THEN "fungible" ELSE NoType]

===============================================================================
