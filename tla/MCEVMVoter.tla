----------------------------- MODULE MCEVMVoter ------------------------------
(***************************************************************************)
(* EVMVoter with one proposal, and with two whose nonces differ by 256.    *)
(***************************************************************************)
EXTENDS EVMVoter

OneProposal  == {<<1, 1>>}
TwoProposals == {<<1, 1>>, <<1, 257>>}

===============================================================================
