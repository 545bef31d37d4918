------------------------------- MODULE MCEVMCLI -------------------------------
(***************************************************************************)
(* Two commands on two fresh chains, or two on chains that were set up     *)
(* before, with two relayers; one request to a node may fail.              *)
(***************************************************************************)
EXTENDS EVMCLI

MCRequests ==
    {{}, {"bridge"}, {"generic", "erc20"}, {"erc20Handler"},
     {"bridge", "erc20Handler", "erc721Handler", "generic", "erc20", "erc721"}}

===============================================================================
